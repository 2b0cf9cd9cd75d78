--------------------------- MODULE FixApplyProofs ---------------------------
(***************************************************************************)
(* Proofs about FixApply, for any number of jobs and files.  First the     *)
(* jobs that have the repository to themselves: it is restored whenever no *)
(* job holds the lock, and FixApply implements FixPromise.  Then jobs that *)
(* share it with the user and are cancelled at most once each: what moves  *)
(* the user's branch, that one apply is at work at a time, that the user's *)
(* edits survive, and that only committed fixes are reported.              *)
(***************************************************************************)
EXTENDS FixApply, FiniteSetTheorems, TLAPS

-----------------------------------------------------------------------------
(* Jobs that have the repository to themselves: the user leaves it alone    *)
(* while they run, a job is cancelled at most once, so that nothing outlives *)
(* it, and a rollback does not fail.  Every other step may.                *)

Alone == Edits = {} /\ UserActs = {}
Shielded == MaxCancels <= 1 /\ "undo" \notin Fails

\* The tree as the user left it, and with the fixes of job j to the files F.
Base == [f \in Files |-> {}]
Patched(j, F) == [f \in Files |-> IF f \in F THEN {j} ELSE {}]

\* Where a job is: before the lock, under it, and on its branch.
Early == {"clean0", "head0", "branch0", "read", "generate", "net", "lock"}
Rechecking == {"clean", "head", "branch", "pick", "create"}
OnBranch == {"apply", "rollback", "add", "commit", "verify", "undo", "reset", "restore"}
Holding == Rechecking \union OnBranch \union {"delete"}
Resting == {"none", "done"}

\* What a job in state s knows, and how it will end.
Informed(s) ==
  /\ s.pc \in {"generate", "net", "lock", "applied"} \union Holding => s.final # {}
  /\ s.pc \in {"branch", "pick", "create", "delete"} \union OnBranch => s.sha = Base
  /\ s.pc \in {"pick", "create", "delete"} \union OnBranch => s.from = Own
  /\ s.pc \in {"create", "delete", "applied"} \union OnBranch => s.branch # Own
  /\ s.pc \notin {"undo", "reset", "restore", "delete", "failed"} => s.ends = "applied"
  /\ s.pc \in {"undo", "reset", "delete"} => s.ends = "failed"
  /\ s.ends \in {"applied", "failed"}

\* Where the thread t of a job in state s is; it writes only what was read empty.
Threaded(s, t) ==
  /\ s.pc \in Early \union Rechecking => t = NoThread
  /\ t.written \subseteq s.final
  /\ \A f \in t.written : s.read[f] = {}
  /\ s.pc = "apply" => t.pc \in {"check", "write", "undo", "done"}
  /\ s.pc \in {"rollback", "undo"} => t.pc \in {"undo", "done"}
  /\ s.pc \notin {"apply", "rollback", "undo"} => t.pc \in Resting
  /\ t.pc = "check" => t.written = {} /\ t.todo = s.final /\ t.ok
  /\ t.pc = "write" => /\ t.todo \subseteq s.final /\ \A f \in t.todo : s.read[f] = {}
                       /\ t.ok => t.todo \union t.written = s.final
  /\ t.pc = "undo" => t.written = t.todo \union t.due /\ t.todo \intersect t.due = {}
  /\ t.pc # "undo" => t.due = {}
  /\ s.pc = "apply" /\ t.pc = "undo" => ~t.ok
  /\ s.pc = "apply" /\ t.pc = "done" /\ t.ok => t.written = s.final
  /\ s.pc = "add" => t.written = s.final /\ s.todo \subseteq s.final
  /\ s.pc \in {"commit"} => t.written = s.final
  /\ s.pc \in {"rollback", "undo"} /\ t.pc = "done" => t.written = {}

\* What is on the branch, staged and on disk while job j is on its branch.
Published(s) == s.pc = "verify" \/ (s.pc = "restore" /\ s.ends = "applied")
Contents(s, t, j, tipped, staged, held) ==
  /\ tipped = IF Published(s) THEN Patched(j, s.final) ELSE Base
  /\ held = CASE s.pc \in {"apply", "rollback", "undo"} -> Patched(j, t.written)
              [] s.pc \in {"add", "commit"} \/ Published(s) -> Patched(j, s.final)
              [] OTHER -> Base
  /\ CASE s.pc = "add" -> staged = Patched(j, s.final \ s.todo)
       [] s.pc = "commit" \/ Published(s) -> staged = Patched(j, s.final)
       [] s.pc \in {"undo", "reset"} -> \E G \in SUBSET s.final : staged = Patched(j, G)
       [] OTHER -> staged = Base
Working(s, t, j) == head = s.branch /\ Contents(s, t, j, tip[head], index, work)

Rested == head = Own /\ index = Base /\ work = Base

Quiet == strays = {} /\ DOMAIN edited = {}
LockHeld == \A j \in Jobs : job[j].pc \in Holding <=> lock = j
JobsPlaced == \A j \in Jobs : Informed(job[j]) /\ Threaded(job[j], thread[j])
Tips ==
  /\ tip[Own] = Base
  /\ \A j \in Jobs : job[j].pc = "applied" => tip[job[j].branch] = Patched(j, job[j].final)
  /\ \A b \in Branches \ {Own} : Exists(b) =>
       \E j \in Jobs : job[j].branch = b /\ job[j].pc \in OnBranch \union {"delete", "applied"}
RepoPlaced ==
  /\ (\A j \in Jobs : job[j].pc \notin OnBranch) => Rested
  /\ \A j \in Jobs : job[j].pc \in OnBranch => Working(job[j], thread[j], j)
  /\ \A j \in Jobs : job[j].pc = "create" => ~Exists(job[j].branch)
  /\ \A j \in Jobs : job[j].pc = "delete" => tip[job[j].branch] = Base

IInv == TypeOK /\ Quiet /\ LockHeld /\ JobsPlaced /\ Tips /\ RepoPlaced
-----------------------------------------------------------------------------
(* Trees and jobs. *)

LEMMA BranchesKnown == Branches \subseteq Nat /\ Own \in Branches
  <1>1. Cardinality(Jobs) \in Nat
    BY EnvironmentAssumption, FS_CardinalityType
  <1>2. QED
    BY <1>1 DEF Branches, Own

LEMMA TreesKnown ==
  /\ Base \in Tree
  /\ \A F : \A j \in Jobs : Patched(j, F) \in Tree
  /\ NoCommit \notin Tree
  <1>1. Base \in Tree /\ \A F : \A j \in Jobs : Patched(j, F) \in Tree
    BY DEF Base, Patched, Tree, Content
  <1>2. ASSUME NoCommit \in Tree PROVE FALSE
    <2>1. DOMAIN NoCommit = Files
      BY <1>2 DEF Tree
    <2>2. DOMAIN NoCommit = {}
      BY DEF NoCommit
    <2>3. QED
      BY <2>1, <2>2, EnvironmentAssumption
  <1>3. QED
    BY <1>1, <1>2

LEMMA PatchedNothing ==
  ASSUME NEW j
  PROVE  Patched(j, {}) = Base
  BY DEF Patched, Base

LEMMA PatchedSome ==
  ASSUME NEW j, NEW F \in SUBSET Files, F # {}
  PROVE  Patched(j, F) # Base
  <1>1. PICK f \in F : f \in Files
    OBVIOUS
  <1>2. Patched(j, F)[f] = {j} /\ Base[f] = {}
    BY <1>1 DEF Patched, Base
  <1>3. QED
    BY <1>2

LEMMA JobsDistinct ==
  ASSUME TypeOK, NEW j \in Jobs
  PROVE  /\ job[j] \in Job /\ thread[j] \in Thread
         /\ job[j].final \in SUBSET Files /\ job[j].todo \in SUBSET Files
         /\ job[j].branch \in Branches /\ job[j].from \in Branches
         /\ job[j].read \in [Files -> Content] /\ job[j].cancels \in 0 .. MaxCancels
         /\ thread[j].todo \in SUBSET Files /\ thread[j].written \in SUBSET Files
         /\ thread[j].due \in SUBSET Files /\ thread[j].ok \in BOOLEAN
  BY DEF TypeOK, Job, Thread

\* A job that is cancelled at most once ends as it meant to, and its rollback has one
\* file at a time in its hands.
LEMMA CancelledOnce ==
  ASSUME TypeOK, MaxCancels <= 1, NEW j \in Jobs
  PROVE  /\ ~(job[j].cancels > 1)
         /\ Ending(job[j]) = job[j].ends
         /\ OneAtATime(j) => thread[j].due = {}
  <1>1. ~(job[j].cancels > 1)
    BY JobsDistinct, EnvironmentAssumption
  <1>2. QED
    BY <1>1 DEF Ending, OneAtATime

-----------------------------------------------------------------------------
(* Steps.  Job j goes to state s, its thread to t; the rest of the jobs stay. *)

Goes(j, s, t) ==
  /\ job' = [job EXCEPT ![j] = s]
  /\ thread' = [thread EXCEPT ![j] = t]
  /\ strays' = strays /\ edited' = edited

\* What the new state must be for the job to be where it should, and to have told
\* the truth about its fixes.
Shows(s) == s.pc = "applied" \/ Published(s)
Turn(s, s2) ==
  /\ s.pc \notin Terminal
  /\ Shows(s) => Shows(s2) /\ s2.final = s.final
  /\ s2.pc \in Terminal => (s2.pc = "applied" <=> Shows(s))
Fits(j, s, t) ==
  /\ s \in Job /\ t \in Thread /\ Informed(s) /\ Threaded(s, t)
  /\ lock' \in {lock, j, NoJob} /\ lock \in {lock', j, NoJob}
  /\ s.pc \in Holding <=> lock' = j

LEMMA Gone ==
  ASSUME IInv, NEW j \in Jobs, NEW s, NEW t, Goes(j, s, t)
  PROVE  /\ job'[j] = s /\ thread'[j] = t
         /\ \A k \in Jobs \ {j} : job'[k] = job[k] /\ thread'[k] = thread[k]
  BY DEF IInv, TypeOK, Goes

LEMMA JobMove ==
  ASSUME IInv, NEW j \in Jobs, NEW s, NEW t, Goes(j, s, t), Fits(j, s, t)
  PROVE  /\ job' \in [Jobs -> Job] /\ thread' \in [Jobs -> Thread]
         /\ lock' \in Jobs \union {NoJob}
         /\ Quiet' /\ LockHeld' /\ JobsPlaced'
  <1>1. /\ job'[j] = s /\ thread'[j] = t
        /\ \A k \in Jobs \ {j} : job'[k] = job[k] /\ thread'[k] = thread[k]
    BY Gone
  <1>2. job' \in [Jobs -> Job] /\ thread' \in [Jobs -> Thread]
    BY DEF IInv, TypeOK, Goes, Fits
  <1>3. lock' \in Jobs \union {NoJob}
    BY DEF IInv, TypeOK, Fits
  <1>4. Quiet'
    BY DEF IInv, Quiet, Goes
  <1>5. LockHeld'
    <2>1. ASSUME NEW k \in Jobs \ {j} PROVE lock' = k <=> lock = k
      BY EnvironmentAssumption DEF Fits
    <2>2. QED
      BY <1>1, <2>1 DEF IInv, LockHeld, Fits
  <1>6. JobsPlaced'
    <2>1. ASSUME NEW k \in Jobs PROVE Informed(job'[k]) /\ Threaded(job'[k], thread'[k])
      BY <1>1 DEF IInv, JobsPlaced, Fits
    <2>2. QED
      BY <2>1 DEF JobsPlaced
  <1>7. QED
    BY <1>2, <1>3, <1>4, <1>5, <1>6

\* A step of a job that is not on its branch and does not touch the repository.
LEMMA AwayMove ==
  ASSUME IInv, NEW j \in Jobs, NEW s, NEW t, Goes(j, s, t), Fits(j, s, t), UNCHANGED repo,
         job[j].pc \notin OnBranch \union {"delete", "applied"},
         s.pc \notin OnBranch \union {"delete", "applied"},
         s.pc = "create" => ~Exists(s.branch)
  PROVE  IInv'
  <1>1. /\ job'[j] = s /\ thread'[j] = t
        /\ \A k \in Jobs \ {j} : job'[k] = job[k] /\ thread'[k] = thread[k]
    BY Gone
  <1>2. tip' = tip /\ head' = head /\ index' = index /\ work' = work
    BY DEF repo
  <1>3. TypeOK'
    BY <1>2, JobMove DEF IInv, TypeOK, Goes, Exists
  <1>4. Tips'
    <2>1. \A k \in Jobs : job'[k].pc = "applied" => tip'[job'[k].branch] = Patched(k, job'[k].final)
      BY <1>1, <1>2 DEF IInv, Tips
    <2>2. ASSUME NEW b \in Branches \ {Own}, Exists(b)'
          PROVE  \E k \in Jobs : job'[k].branch = b
                                 /\ job'[k].pc \in OnBranch \union {"delete", "applied"}
      <3>1. Exists(b)
        BY <1>2, <2>2 DEF Exists
      <3>2. PICK k \in Jobs : job[k].branch = b /\ job[k].pc \in OnBranch \union {"delete", "applied"}
        BY <3>1 DEF IInv, Tips
      <3>3. QED
        BY <1>1, <3>2
    <2>3. QED
      BY <1>2, <2>1, <2>2 DEF IInv, Tips
  <1>5. RepoPlaced'
    <2>1. (\A k \in Jobs : job'[k].pc \notin OnBranch) => Rested'
      BY <1>1, <1>2 DEF IInv, RepoPlaced, Rested
    <2>2. ASSUME NEW k \in Jobs, job'[k].pc \in OnBranch
          PROVE  Working(job[k], thread[k], k)'
      <3>1. k # j /\ Working(job[k], thread[k], k)
        BY <1>1, <2>2 DEF IInv, RepoPlaced
      <3>2. QED
        BY <1>1, <1>2, <3>1 DEF Working
    <2>3. \A k \in Jobs : job'[k].pc = "create" => ~Exists(job[k].branch)'
      BY <1>1, <1>2 DEF IInv, RepoPlaced, Exists
    <2>4. \A k \in Jobs : job'[k].pc = "delete" => tip'[job'[k].branch] = Base
      BY <1>1, <1>2 DEF IInv, RepoPlaced
    <2>5. QED
      BY <2>1, <2>2, <2>3, <2>4 DEF RepoPlaced
  <1>6. QED
    BY <1>3, <1>4, <1>5, JobMove DEF IInv

\* Only one job holds the lock, hence is on its branch.
LEMMA OneHolder ==
  ASSUME IInv, NEW j \in Jobs, NEW k \in Jobs, job[j].pc \in Holding, job[k].pc \in Holding
  PROVE  j = k
  BY DEF IInv, LockHeld

-----------------------------------------------------------------------------
(* Before the branch. *)

Pcs ==
  {"clean0", "head0", "branch0", "read", "generate", "net", "lock", "clean",
   "head", "branch", "pick", "create", "apply", "rollback", "add", "commit",
   "verify", "undo", "reset", "restore", "delete"} \union Terminal

LEMMA Fields ==
  ASSUME NEW s \in Job, NEW pc \in Pcs
  PROVE  LET s2 == [s EXCEPT !.pc = pc] IN
         /\ s2 \in Job /\ s2.pc = pc /\ s2.sha = s.sha /\ s2.from = s.from
         /\ s2.todo = s.todo /\ s2.read = s.read /\ s2.final = s.final
         /\ s2.branch = s.branch /\ s2.ends = s.ends /\ s2.cancels = s.cancels
         /\ s2.moved = s.moved
  BY DEF Job, Pcs

LEMMA Unthreaded ==
  ASSUME NEW s, s.pc \in Early \union Rechecking \union {"plan", "nothing", "failed", "cancelled"}
  PROVE  Threaded(s, NoThread)
  BY DEF Threaded, NoThread, Early, Rechecking, Resting

\* The invariant is kept, and only job j takes a turn, which is a proper one.
Proper(j) ==
  /\ IInv'
  /\ Turn(job[j], job'[j])
  /\ \A k \in Jobs \ {j} : job'[k] = job[k]

LEMMA ThreadKept ==
  ASSUME IInv, NEW j \in Jobs, thread' = thread
  PROVE  thread' = [thread EXCEPT ![j] = thread[j]]
  BY DEF IInv, TypeOK

LEMMA AwayStep ==
  ASSUME IInv, NEW j \in Jobs, NEW s \in Job, job' = [job EXCEPT ![j] = s],
         UNCHANGED <<repo, thread, strays, edited>>,
         job[j].pc \in Early \union Rechecking,
         s.pc \in Early \union Rechecking \union {"plan", "nothing", "failed", "cancelled"},
         Informed(s),
         lock' \in {lock, j, NoJob}, lock \in {lock', j, NoJob},
         s.pc \in Holding <=> lock' = j,
         s.pc = "create" => ~Exists(s.branch)
  PROVE  Proper(j)
  <1>1. Goes(j, s, thread[j])
    BY ThreadKept DEF Goes
  <1>2. thread[j] = NoThread /\ thread[j] \in Thread
    BY DEF IInv, TypeOK, JobsPlaced, Threaded
  <1>3. Threaded(s, thread[j])
    BY <1>2, Unthreaded
  <1>4. Fits(j, s, thread[j])
    BY <1>2, <1>3 DEF Fits
  <1>5. /\ job[j].pc \notin OnBranch \union {"delete", "applied"}
        /\ s.pc \notin OnBranch \union {"delete", "applied"}
    BY DEF Early, Rechecking, OnBranch
  <1>6. IInv'
    BY <1>1, <1>4, <1>5, AwayMove
  <1>7. Turn(job[j], s)
    BY DEF Turn, Shows, Published, Early, Rechecking, Terminal
  <1>8. QED
    BY <1>1, <1>6, <1>7, Gone DEF Proper

LEMMA EarlyFree ==
  ASSUME IInv, NEW j \in Jobs, job[j].pc \in Early
  PROVE  lock # j /\ job[j].pc \notin Holding
  <1>1. job[j].pc \notin Holding
    BY DEF Early, Holding, Rechecking, OnBranch
  <1>2. QED
    BY <1>1 DEF IInv, LockHeld

\* A job without the lock goes on without it.
LEMMA EarlyStep ==
  ASSUME IInv, NEW j \in Jobs, NEW s \in Job, job' = [job EXCEPT ![j] = s],
         UNCHANGED <<repo, lock, thread, strays, edited>>,
         job[j].pc \in Early, s.pc \in Early \union {"plan", "nothing", "cancelled"},
         Informed(s)
  PROVE  Proper(j)
  <1>1. lock # j
    BY EarlyFree
  <1>2. s.pc \notin Holding /\ s.pc # "create"
    BY DEF Early, Holding, Rechecking, OnBranch
  <1>3. QED
    BY <1>1, <1>2, AwayStep

LEMMA StartProper ==
  ASSUME IInv, NEW j \in Jobs, Start(j)
  PROVE  Proper(j)
  <1> DEFINE s == job[j]
  <1>1. s \in Job /\ Informed(s) /\ UNCHANGED <<repo, lock, thread, strays, edited>>
    BY JobsDistinct DEF IInv, JobsPlaced, Start
  <1>2. ASSUME NEW pc \in {"head0", "plan"}, s.pc = "clean0", GoTo(j, pc)
        PROVE  Proper(j)
    <2> DEFINE s2 == [s EXCEPT !.pc = pc]
    <2>1. s2 \in Job /\ s2.pc = pc /\ s2.ends = s.ends
      BY <1>1, Fields DEF Pcs, Terminal
    <2>2. Informed(s2)
      BY <1>1, <1>2, <2>1 DEF Informed, Holding, Rechecking, OnBranch
    <2>3. QED
      BY <1>1, <1>2, <2>1, <2>2, EarlyStep DEF Early, GoTo, Go
  <1>3. ASSUME s.pc = "head0", Go(j, [s EXCEPT !.pc = "branch0", !.sha = tip[head]])
        PROVE  Proper(j)
    <2> DEFINE s2 == [s EXCEPT !.pc = "branch0", !.sha = tip[head]]
    <2>1. tip[head] \in {NoCommit} \union Tree
      BY DEF IInv, TypeOK
    <2>2. s2 \in Job /\ s2.pc = "branch0" /\ s2.ends = s.ends
      BY <1>1, <2>1 DEF Job
    <2>3. Informed(s2)
      BY <1>1, <1>3, <2>2 DEF Informed, Holding, Rechecking, OnBranch
    <2>4. QED
      BY <1>1, <1>3, <2>2, <2>3, EarlyStep DEF Early, Go
  <1>4. ASSUME s.pc = "branch0", Go(j, [s EXCEPT !.pc = "read", !.from = head])
        PROVE  Proper(j)
    <2> DEFINE s2 == [s EXCEPT !.pc = "read", !.from = head]
    <2>1. head \in Branches
      BY DEF IInv, TypeOK
    <2>2. s2 \in Job /\ s2.pc = "read" /\ s2.ends = s.ends
      BY <1>1, <2>1 DEF Job
    <2>3. Informed(s2)
      BY <1>1, <1>4, <2>2 DEF Informed, Holding, Rechecking, OnBranch
    <2>4. QED
      BY <1>1, <1>4, <2>2, <2>3, EarlyStep DEF Early, Go
  <1>5. QED
    BY <1>2, <1>3, <1>4 DEF Start

LEMMA ReadProper ==
  ASSUME IInv, NEW j \in Jobs, Read(j)
  PROVE  Proper(j)
  <1> DEFINE s == job[j]
  <1>1. s \in Job /\ Informed(s) /\ s.pc = "read" /\ UNCHANGED <<repo, lock, thread, strays, edited>>
    BY JobsDistinct DEF IInv, JobsPlaced, Read
  <1>2. work \in Tree
    BY DEF IInv, TypeOK
  <1>3. ASSUME NEW s2 \in Job, Go(j, s2), s2.pc = "read", s2.ends = s.ends
        PROVE  Proper(j)
    <2>1. Informed(s2)
      BY <1>1, <1>3 DEF Informed, Holding, Rechecking, OnBranch
    <2>2. QED
      BY <1>1, <1>3, <2>1, EarlyStep DEF Early, Go
  <1>4. ASSUME NEW f \in s.todo,
               Go(j, [s EXCEPT !.todo = s.todo \ {f}, !.read[f] = work[f],
                               !.final = s.final \union {f}])
        PROVE  Proper(j)
    <2> DEFINE read2 == [s.read EXCEPT ![f] = work[f]]
               todo2 == s.todo \ {f}
               final2 == s.final \union {f}
    <2>1. read2 \in [Files -> Content] /\ todo2 \in SUBSET Files /\ final2 \in SUBSET Files
      BY <1>1, <1>2, JobsDistinct DEF IInv, Tree
    <2>2. Go(j, [s EXCEPT !.todo = todo2, !.read = read2, !.final = final2])
      BY <1>4
    <2> HIDE DEF read2, todo2, final2
    <2>3. /\ [s EXCEPT !.todo = todo2, !.read = read2, !.final = final2] \in Job
          /\ [s EXCEPT !.todo = todo2, !.read = read2, !.final = final2].pc = s.pc
          /\ [s EXCEPT !.todo = todo2, !.read = read2, !.final = final2].ends = s.ends
      BY <1>1, <2>1 DEF Job
    <2>4. QED
      BY <1>1, <1>3, <2>2, <2>3
  <1>5. ASSUME NEW f \in s.todo, Go(j, [s EXCEPT !.todo = s.todo \ {f}])
        PROVE  Proper(j)
    <2>1. s.todo \ {f} \in SUBSET Files
      BY JobsDistinct DEF IInv
    <2>2. [s EXCEPT !.todo = s.todo \ {f}] \in Job
          /\ [s EXCEPT !.todo = s.todo \ {f}].pc = s.pc
          /\ [s EXCEPT !.todo = s.todo \ {f}].ends = s.ends
      BY <1>1, <2>1 DEF Job
    <2>3. QED
      BY <1>1, <1>3, <1>5, <2>2
  <1>6. QED
    BY <1>4, <1>5 DEF Read

LEMMA GenerateProper ==
  ASSUME IInv, NEW j \in Jobs, Generate(j)
  PROVE  Proper(j)
  <1> DEFINE s == job[j]
  <1>1. s \in Job /\ Informed(s) /\ UNCHANGED <<repo, lock, thread, strays, edited>>
    BY JobsDistinct DEF IInv, JobsPlaced, Generate
  <1>2. s.pc \in {"read", "generate"}
    BY DEF Generate
  <1>3. ASSUME s.pc = "read", s.final # {}, GoTo(j, "generate")
        PROVE  Proper(j)
    <2> DEFINE s2 == [s EXCEPT !.pc = "generate"]
    <2>1. s2 \in Job /\ s2.pc = "generate" /\ s2.ends = s.ends /\ s2.final = s.final
      BY <1>1, Fields DEF Pcs
    <2>2. Informed(s2)
      BY <1>1, <1>3, <2>1 DEF Informed, Holding, Rechecking, OnBranch
    <2>3. QED
      BY <1>1, <1>3, <2>1, <2>2, EarlyStep DEF Early, GoTo, Go
  <1>4. ASSUME GoTo(j, "nothing")
        PROVE  Proper(j)
    <2> DEFINE s2 == [s EXCEPT !.pc = "nothing"]
    <2>1. s2 \in Job /\ s2.pc = "nothing" /\ s2.ends = s.ends
      BY <1>1, Fields DEF Pcs, Terminal
    <2>2. Informed(s2)
      BY <1>1, <1>2, <2>1 DEF Informed, Holding, Rechecking, OnBranch
    <2>3. QED
      BY <1>1, <1>2, <1>4, <2>1, <2>2, EarlyStep DEF Early, GoTo, Go
  <1>5. ASSUME s.pc = "generate", NEW F \in (SUBSET s.final) \ {{}},
               Go(j, [s EXCEPT !.pc = "net", !.final = F])
        PROVE  Proper(j)
    <2> DEFINE s2 == [s EXCEPT !.pc = "net", !.final = F]
    <2>1. F \in SUBSET Files /\ F # {}
      BY JobsDistinct DEF IInv
    <2>2. s2 \in Job /\ s2.pc = "net" /\ s2.ends = s.ends /\ s2.final = F
      BY <1>1, <2>1 DEF Job
    <2>3. Informed(s2)
      BY <1>1, <1>5, <2>1, <2>2 DEF Informed, Holding, Rechecking, OnBranch
    <2>4. QED
      BY <1>1, <1>5, <2>2, <2>3, EarlyStep DEF Early, Go
  <1>6. QED
    BY <1>3, <1>4, <1>5 DEF Generate

LEMMA SafetyNetProper ==
  ASSUME IInv, NEW j \in Jobs, SafetyNet(j)
  PROVE  Proper(j)
  <1> DEFINE s == job[j]
  <1>1. /\ s \in Job /\ Informed(s) /\ s.pc = "net"
        /\ UNCHANGED <<repo, lock, thread, strays, edited>>
    BY JobsDistinct DEF IInv, JobsPlaced, SafetyNet
  <1>2. PICK pc \in {"lock", "nothing"} : GoTo(j, pc)
    BY DEF SafetyNet
  <1> DEFINE s2 == [s EXCEPT !.pc = pc]
  <1>3. s2 \in Job /\ s2.pc = pc /\ s2.ends = s.ends /\ s2.final = s.final
    BY <1>1, Fields DEF Pcs, Terminal
  <1>4. Informed(s2)
    BY <1>1, <1>3 DEF Informed, Holding, Rechecking, OnBranch
  <1>5. QED
    BY <1>1, <1>2, <1>3, <1>4, EarlyStep DEF Early, GoTo, Go

LEMMA AcquireProper ==
  ASSUME IInv, NEW j \in Jobs, Acquire(j)
  PROVE  Proper(j)
  <1> DEFINE s == job[j]
             s2 == [s EXCEPT !.pc = "clean"]
  <1>1. /\ s \in Job /\ Informed(s) /\ s.pc = "lock" /\ lock = NoJob /\ lock' = j
        /\ UNCHANGED <<repo, thread, strays, edited>> /\ GoTo(j, "clean")
    BY JobsDistinct DEF IInv, JobsPlaced, Acquire
  <1>2. s2 \in Job /\ s2.pc = "clean" /\ s2.ends = s.ends /\ s2.final = s.final
    BY <1>1, Fields DEF Pcs
  <1>3. Informed(s2)
    BY <1>1, <1>2 DEF Informed, Holding, Rechecking, OnBranch
  <1>4. s2.pc \in Holding /\ s2.pc \in Rechecking /\ s.pc \in Early
    BY <1>1, <1>2 DEF Holding, Rechecking, Early
  <1>5. QED
    BY <1>1, <1>2, <1>3, <1>4, AwayStep DEF GoTo, Go

\* While a job looks at the repository, or nobody holds the lock, it is as the user left it.
LEMMA Restful ==
  ASSUME IInv, NEW j \in Jobs, job[j].pc \in Rechecking \union {"delete"}
  PROVE  lock = j /\ Rested /\ tip[Own] = Base
  <1>1. job[j].pc \in Holding /\ job[j].pc \notin OnBranch
    BY DEF Holding, Rechecking, OnBranch
  <1>2. ASSUME NEW k \in Jobs PROVE job[k].pc \notin OnBranch
    BY <1>1, OneHolder DEF Holding
  <1>3. QED
    BY <1>1, <1>2 DEF IInv, LockHeld, RepoPlaced, Tips

LEMMA RecheckProper ==
  ASSUME IInv, NEW j \in Jobs, Recheck(j)
  PROVE  Proper(j)
  <1> DEFINE s == job[j]
  <1>1. /\ s \in Job /\ Informed(s) /\ s.pc \in {"clean", "head", "branch"}
        /\ UNCHANGED <<repo, thread, strays, edited>>
    BY JobsDistinct DEF IInv, JobsPlaced, Recheck, After
  <1>2. lock = j /\ Rested /\ tip[Own] = Base
    BY <1>1, Restful DEF Rechecking
  <1>3. ASSUME Unchanged(j, s.pc), GoTo(j, After[s.pc]), UNCHANGED lock
        PROVE  Proper(j)
    <2> DEFINE pc == After[s.pc]
               s2 == [s EXCEPT !.pc = pc]
    <2>1. /\ pc \in {"head", "branch", "pick"}
          /\ pc = "branch" <=> s.pc = "head"
          /\ pc = "pick" <=> s.pc = "branch"
      BY <1>1 DEF After
    <2>2. /\ s2 \in Job /\ s2.pc = pc /\ s2.ends = s.ends /\ s2.final = s.final
          /\ s2.sha = s.sha /\ s2.from = s.from
      BY <1>1, <2>1, Fields DEF Pcs
    <2>3. s.pc = "head" => s.sha = Base
      BY <1>2, <1>3 DEF Unchanged, Rested
    <2>4. s.pc = "branch" => s.from = Own
      BY <1>2, <1>3 DEF Unchanged, Rested
    <2>5. Informed(s2)
      <3> HIDE DEF pc, s2
      <3>1. s2.final # {} /\ s2.ends = "applied"
        BY <1>1, <2>2 DEF Informed, Holding, Rechecking
      <3>2. s2.pc \in {"branch", "pick"} => s2.sha = Base
        BY <1>1, <2>1, <2>2, <2>3 DEF Informed
      <3>3. s2.pc = "pick" => s2.from = Own
        BY <1>1, <2>1, <2>2, <2>4
      <3>4. QED
        BY <2>1, <2>2, <3>1, <3>2, <3>3 DEF Informed, OnBranch
    <2>6. /\ s2.pc \in Holding /\ s2.pc \in Rechecking /\ s2.pc # "create"
          /\ s.pc \in Rechecking
      BY <1>1, <2>1, <2>2 DEF Holding, Rechecking
    <2>7. QED
      BY <1>1, <1>2, <1>3, <2>2, <2>5, <2>6, AwayStep DEF GoTo, Go
  <1>4. ASSUME End(j, "plan")
        PROVE  Proper(j)
    <2> DEFINE s2 == [s EXCEPT !.pc = "plan"]
    <2>1. s2 \in Job /\ s2.pc = "plan" /\ s2.ends = s.ends
      BY <1>1, Fields DEF Pcs, Terminal
    <2>2. Informed(s2)
      BY <1>1, <2>1 DEF Informed, Holding, Rechecking, OnBranch
    <2>3. lock' = NoJob /\ NoJob # j
      BY <1>2, <1>4, EnvironmentAssumption DEF End, Release
    <2>4. s2.pc \notin Holding /\ s.pc \in Rechecking
      BY <1>1, <2>1 DEF Holding, Rechecking, OnBranch
    <2>5. QED
      BY <1>1, <1>2, <1>4, <2>1, <2>2, <2>3, <2>4, AwayStep DEF End, GoTo, Go
  <1>5. QED
    BY <1>3, <1>4 DEF Recheck

LEMMA PickNameProper ==
  ASSUME IInv, NEW j \in Jobs, PickName(j)
  PROVE  Proper(j)
  <1> DEFINE s == job[j]
  <1>1. /\ s \in Job /\ Informed(s) /\ s.pc = "pick"
        /\ UNCHANGED <<repo, lock, thread, strays, edited>>
    BY JobsDistinct DEF IInv, JobsPlaced, PickName
  <1>2. lock = j
    BY <1>1, Restful DEF Rechecking
  <1>3. PICK b \in Branches \ {Own} : ~Exists(b) /\ Go(j, [s EXCEPT !.pc = "create", !.branch = b])
    BY DEF PickName
  <1> DEFINE s2 == [s EXCEPT !.pc = "create", !.branch = b]
  <1>4. /\ s2 \in Job /\ s2.pc = "create" /\ s2.ends = s.ends /\ s2.final = s.final
        /\ s2.sha = s.sha /\ s2.from = s.from /\ s2.branch = b
    BY <1>1 DEF Job
  <1>5. Informed(s2)
    BY <1>1, <1>3, <1>4 DEF Informed, Holding, Rechecking, OnBranch
  <1>6. s2.pc \in Holding /\ s2.pc \in Rechecking /\ s.pc \in Rechecking
    BY <1>1, <1>4 DEF Holding, Rechecking
  <1>7. QED
    BY <1>1, <1>2, <1>3, <1>4, <1>5, <1>6, AwayStep DEF Go

\* The first cancellation ends a job that has not reached the lock, and is only
\* noted by one that has.
LEMMA CancelProper ==
  ASSUME IInv, Shielded, NEW j \in Jobs, Cancel(j)
  PROVE  Proper(j)
  <1> DEFINE s == job[j]
             n == s.cancels + 1
  <1>1. /\ s \in Job /\ Informed(s) /\ s.pc \notin Terminal
        /\ s.cancels \in 0 .. MaxCancels /\ s.cancels < MaxCancels
        /\ UNCHANGED <<repo, edited>>
    BY JobsDistinct DEF IInv, JobsPlaced, Cancel
  <1>2. MaxCancels \in Nat /\ MaxCancels <= 1
    BY EnvironmentAssumption DEF Shielded
  <1>3. s.cancels = 0 /\ n = 1 /\ n \in 0 .. MaxCancels
    BY <1>1, <1>2
  <1> DEFINE s1 == [s EXCEPT !.cancels = n]
  <1>4. /\ s1 \in Job /\ s1.cancels = 1 /\ s1.pc = s.pc /\ s1.sha = s.sha /\ s1.from = s.from
        /\ s1.todo = s.todo /\ s1.read = s.read /\ s1.final = s.final
        /\ s1.branch = s.branch /\ s1.ends = s.ends
    BY <1>1, <1>3 DEF Job
  <1>5. ASSUME s.pc \in Unshielded, Go(j, [s1 EXCEPT !.pc = "cancelled"]),
               UNCHANGED <<lock, thread, strays>>
        PROVE  Proper(j)
    <2> DEFINE s2 == [s1 EXCEPT !.pc = "cancelled"]
    <2>1. s2 \in Job /\ s2.pc = "cancelled" /\ s2.ends = s.ends
      <3> HIDE DEF s1
      <3>1. QED
        BY <1>4, Fields DEF Pcs, Terminal
    <2>2. Informed(s2)
      BY <1>1, <1>5, <2>1 DEF Informed, Holding, Rechecking, OnBranch, Unshielded
    <2>3. s.pc \in Early
      BY <1>5 DEF Unshielded, Early
    <2>4. QED
      BY <1>1, <1>5, <2>1, <2>2, <2>3, EarlyStep DEF Go
  <1>6. ASSUME Go(j, s1), UNCHANGED <<lock, thread, strays>>
        PROVE  Proper(j)
    <2> HIDE DEF s1
    <2>1. Goes(j, s1, thread[j])
      BY <1>1, <1>6, ThreadKept DEF Goes, Go
    <2>2. Fits(j, s1, thread[j])
      <3>1. Informed(s1)
        BY <1>1, <1>4 DEF Informed
      <3>2. Threaded(s1, thread[j])
        BY <1>4 DEF IInv, JobsPlaced, Threaded
      <3>3. s1.pc \in Holding <=> lock = j
        BY <1>4 DEF IInv, LockHeld
      <3>4. QED
        BY <1>4, <1>6, <3>1, <3>2, <3>3, JobsDistinct DEF Fits, IInv
    <2>3. /\ job'[j] = s1 /\ thread'[j] = thread[j]
          /\ \A k \in Jobs \ {j} : job'[k] = job[k] /\ thread'[k] = thread[k]
      BY <2>1, Gone
    <2>4. \A k \in Jobs : /\ job'[k].pc = job[k].pc /\ job'[k].branch = job[k].branch
                          /\ job'[k].final = job[k].final /\ job'[k].ends = job[k].ends
                          /\ job'[k].todo = job[k].todo /\ thread'[k] = thread[k]
      BY <1>4, <2>3
    <2>5. tip' = tip /\ head' = head /\ index' = index /\ work' = work
      BY <1>1 DEF repo
    <2>6. TypeOK'
      BY <2>1, <2>2, <2>5, JobMove DEF IInv, TypeOK, Goes, Exists
    <2>7. Tips'
      BY <2>4, <2>5 DEF IInv, Tips, Exists
    <2>8. RepoPlaced'
      <3>1. (\A k \in Jobs : job'[k].pc \notin OnBranch) => Rested'
        BY <2>4, <2>5 DEF IInv, RepoPlaced, Rested
      <3>2. ASSUME NEW k \in Jobs, job'[k].pc \in OnBranch
            PROVE  Working(job[k], thread[k], k)'
        <4>1. Working(job[k], thread[k], k)
          BY <2>4, <3>2 DEF IInv, RepoPlaced
        <4>2. Published(job[k])' <=> Published(job[k])
          BY <2>4 DEF Published
        <4>3. QED
          BY <2>4, <2>5, <4>1, <4>2 DEF Working, Contents
      <3>3. \A k \in Jobs : job'[k].pc = "create" => ~Exists(job[k].branch)'
        BY <2>4, <2>5 DEF IInv, RepoPlaced, Exists
      <3>4. \A k \in Jobs : job'[k].pc = "delete" => tip'[job'[k].branch] = Base
        BY <2>4, <2>5 DEF IInv, RepoPlaced
      <3>5. QED
        BY <3>1, <3>2, <3>3, <3>4 DEF RepoPlaced
    <2>9. Turn(job[j], s1)
      BY <1>1, <1>4 DEF Turn, Shows, Published
    <2>10. QED
      BY <2>1, <2>2, <2>3, <2>6, <2>7, <2>8, <2>9, JobMove DEF Proper, IInv
  <1>7. ~Interrupt(j, s1) \/ ~(s1.cancels > 1)
    BY <1>4
  <1>8. QED
    BY <1>5, <1>6, <1>7 DEF Cancel

-----------------------------------------------------------------------------
(* On the branch. *)

LEMMA ContentsTree ==
  ASSUME NEW s, NEW t, NEW j \in Jobs, NEW tipped, NEW staged, NEW held,
         Contents(s, t, j, tipped, staged, held)
  PROVE  tipped \in Tree
  BY TreesKnown DEF Contents

LEMMA Holder ==
  ASSUME IInv, NEW j \in Jobs, job[j].pc \in OnBranch
  PROVE  /\ lock = j /\ Working(job[j], thread[j], j) /\ tip[Own] = Base
         /\ strays = {} /\ NoJob # j
         /\ \A k \in Jobs \ {j} : job[k].pc \notin Holding
  <1>1. job[j].pc \in Holding
    BY DEF Holding
  <1>2. QED
    BY <1>1, EnvironmentAssumption DEF IInv, LockHeld, RepoPlaced, Tips, Quiet

\* A step of the job on its branch, which stays there.
LEMMA BranchMove ==
  ASSUME IInv, NEW j \in Jobs, NEW s, NEW t, Goes(j, s, t), Fits(j, s, t),
         job[j].pc \in OnBranch, s.pc \in OnBranch, s.branch = job[j].branch,
         head' = head, index' \in Tree, work' \in Tree,
         tip' = tip \/ (tip[head] = Base /\ \E x \in Tree : tip' = [tip EXCEPT ![head] = x]),
         Contents(s, t, j, tip'[head], index', work')
  PROVE  IInv'
  <1>1. /\ job'[j] = s /\ thread'[j] = t
        /\ \A k \in Jobs \ {j} : job'[k] = job[k] /\ thread'[k] = thread[k]
    BY Gone
  <1>2. head = s.branch /\ head # Own /\ head \in Branches
    <2>1. Working(job[j], thread[j], j)
      BY Holder
    <2>2. s.branch # Own
      BY DEF Fits, Informed
    <2>3. QED
      BY <2>1, <2>2 DEF Working, IInv, TypeOK
  <1>3. /\ tip' \in [Branches -> Tree \union {NoCommit}] /\ tip'[head] \in Tree
        /\ \A b \in Branches \ {head} : tip'[b] = tip[b]
        /\ tip' = tip \/ tip[head] = Base
    BY <1>2, ContentsTree DEF IInv, TypeOK
  <1>4. Exists(head)'
    BY <1>3, TreesKnown DEF Exists
  <1>5. TypeOK'
    BY <1>2, <1>3, <1>4, JobMove DEF IInv, TypeOK, Goes
  <1>6. Tips'
    <2>1. tip'[Own] = Base
      BY <1>2, <1>3, BranchesKnown DEF IInv, Tips
    <2>2. ASSUME NEW k \in Jobs, job'[k].pc = "applied"
          PROVE  tip'[job'[k].branch] = Patched(k, job'[k].final)
      <3>1. k # j
        BY <1>1, <2>2 DEF OnBranch
      <3>2. job'[k] = job[k] /\ tip[job[k].branch] = Patched(k, job[k].final)
        BY <1>1, <2>2, <3>1 DEF IInv, Tips
      <3>3. job[k].final # {} /\ job[k].final \in SUBSET Files /\ job[k].branch \in Branches
        BY <2>2, <3>2, JobsDistinct DEF IInv, JobsPlaced, Informed
      <3>4. tip[job[k].branch] # Base
        BY <3>2, <3>3, PatchedSome
      <3>5. QED
        BY <1>3, <3>2, <3>3, <3>4
    <2>3. ASSUME NEW b \in Branches \ {Own}, Exists(b)'
          PROVE  \E k \in Jobs : job'[k].branch = b
                                 /\ job'[k].pc \in OnBranch \union {"delete", "applied"}
      <3>1. CASE b = head
        BY <1>1, <1>2, <3>1
      <3>2. CASE b # head
        <4>1. Exists(b)
          BY <1>3, <2>3, <3>2 DEF Exists
        <4>2. PICK k \in Jobs : job[k].branch = b
                                /\ job[k].pc \in OnBranch \union {"delete", "applied"}
          BY <4>1 DEF IInv, Tips
        <4>3. k # j
          BY <1>2, <3>2, <4>2
        <4>4. QED
          BY <1>1, <4>2, <4>3
      <3>3. QED
        BY <3>1, <3>2
    <2>4. QED
      BY <2>1, <2>2, <2>3 DEF Tips
  <1>7. RepoPlaced'
    <2>1. \A k \in Jobs \ {j} : job'[k].pc \notin Holding
      BY <1>1, Holder
    <2>2. \A k \in Jobs : job'[k].pc \in OnBranch => k = j
      BY <2>1 DEF Holding
    <2>3. \A k \in Jobs : job'[k].pc \notin {"create", "delete"}
      BY <1>1, <2>1 DEF Holding, Rechecking, OnBranch
    <2>4. Working(job[j], thread[j], j)'
      BY <1>1, <1>2 DEF Working
    <2>5. QED
      BY <1>1, <2>2, <2>3, <2>4 DEF RepoPlaced
  <1>8. QED
    BY <1>5, <1>6, <1>7, JobMove DEF IInv

LEMMA BranchStep ==
  ASSUME IInv, NEW j \in Jobs, NEW s, NEW t, Goes(j, s, t),
         s \in Job, t \in Thread, Informed(s), Threaded(s, t), UNCHANGED lock,
         job[j].pc \in OnBranch, s.pc \in OnBranch, s.branch = job[j].branch,
         head' = head, index' \in Tree, work' \in Tree,
         tip' = tip \/ (tip[head] = Base /\ \E x \in Tree : tip' = [tip EXCEPT ![head] = x]),
         Contents(s, t, j, tip'[head], index', work'),
         Shows(job[j]) => Shows(s) /\ s.final = job[j].final
  PROVE  Proper(j)
  <1>1. lock' = j /\ lock = j /\ s.pc \in Holding
    BY Holder DEF Holding
  <1>2. Fits(j, s, t)
    BY <1>1 DEF Fits
  <1>3. IInv'
    BY <1>2, BranchMove
  <1>4. job[j].pc \notin Terminal /\ s.pc \notin Terminal
    BY DEF OnBranch, Terminal
  <1>5. QED
    BY <1>3, <1>4, Gone DEF Proper, Turn

\* What the commands and writes make of a tree.
LEMMA PatchOne ==
  ASSUME NEW j, NEW F, NEW f \in Files
  PROVE  /\ [Patched(j, F) EXCEPT ![f] = {j}] = Patched(j, F \union {f})
         /\ [Patched(j, F) EXCEPT ![f] = {}] = Patched(j, F \ {f})
         /\ Patched(j, F)[f] = IF f \in F THEN {j} ELSE {}
  BY DEF Patched

LEMMA PatchStaged ==
  ASSUME NEW j, NEW F, NEW G, NEW f \in F
  PROVE  [g \in Files |-> IF g \in {f} THEN Patched(j, F)[g] ELSE Patched(j, G)[g]]
           = Patched(j, G \union {f})
  BY DEF Patched

\* The threads.  A running thread works for a job that is applying or cleaning up.
LEMMA ThreadsJob ==
  ASSUME IInv, NEW j \in Jobs, thread[j].pc \in {"check", "write", "undo"}
  PROVE  /\ job[j].pc \in {"apply", "rollback", "undo"} /\ job[j].pc \in OnBranch
         /\ thread[j].pc \in {"check", "write"} => job[j].pc = "apply"
         /\ job[j] \in Job /\ thread[j] \in Thread
         /\ Informed(job[j]) /\ Threaded(job[j], thread[j])
         /\ tip[head] = Base /\ work = Patched(j, thread[j].written) /\ index \in Tree
         /\ Contents(job[j], thread[j], j, tip[head], index, work)
  <1>1. Informed(job[j]) /\ Threaded(job[j], thread[j]) /\ job[j] \in Job /\ thread[j] \in Thread
    BY JobsDistinct DEF IInv, JobsPlaced
  <1>2. job[j].pc \in {"apply", "rollback", "undo"}
    BY <1>1 DEF Threaded, Resting
  <1>3. thread[j].pc \in {"check", "write"} => job[j].pc = "apply"
    BY <1>1, <1>2 DEF Threaded
  <1>4. job[j].pc \in OnBranch
    BY <1>2 DEF OnBranch
  <1>5. Contents(job[j], thread[j], j, tip[head], index, work)
    BY <1>4, Holder DEF Working
  <1>6. tip[head] = Base /\ work = Patched(j, thread[j].written)
    <2>1. CASE job[j].pc \in {"apply", "rollback"}
      BY <1>5, <2>1 DEF Contents, Published
    <2>2. CASE job[j].pc = "undo"
      BY <1>5, <2>2 DEF Contents, Published
    <2>3. QED
      BY <1>2, <2>1, <2>2
  <1>7. QED
    BY <1>1, <1>2, <1>3, <1>4, <1>5, <1>6 DEF IInv, TypeOK

LEMMA ThreadMove ==
  ASSUME IInv, NEW j \in Jobs, NEW t \in Thread, thread[j].pc \in {"check", "write", "undo"},
         thread' = [thread EXCEPT ![j] = t],
         UNCHANGED <<tip, head, index, lock, job, strays, edited>>,
         Threaded(job[j], t), work' = Patched(j, t.written)
  PROVE  Proper(j)
  <1> DEFINE s == job[j]
  <1>1. /\ s.pc \in {"apply", "rollback", "undo"} /\ s.pc \in OnBranch
        /\ s \in Job /\ Informed(s) /\ index \in Tree
        /\ Contents(s, thread[j], j, tip[head], index, work)
    BY ThreadsJob
  <1>2. job' = [job EXCEPT ![j] = s]
    BY DEF IInv, TypeOK
  <1>3. Goes(j, s, t)
    BY <1>2 DEF Goes
  <1>4. Contents(s, t, j, tip[head], index, work')
    <2>1. CASE s.pc \in {"apply", "rollback"}
      BY <1>1, <2>1 DEF Contents, Published
    <2>2. CASE s.pc = "undo"
      BY <1>1, <2>2 DEF Contents, Published
    <2>3. QED
      BY <1>1, <2>1, <2>2
  <1>5. work' \in Tree
    BY TreesKnown
  <1> HIDE DEF s
  <1>6. QED
    BY <1>1, <1>3, <1>4, <1>5, BranchStep DEF s

LEMMA CheckProper ==
  ASSUME IInv, NEW j \in Jobs, Check(j)
  PROVE  Proper(j)
  <1> DEFINE t == thread[j]
             same == {f \in t.todo : work[f] = job[j].read[f]}
             ok == same = t.todo
             t2 == [t EXCEPT !.pc = "write", !.todo = same, !.ok = ok]
  <1>1. /\ t.pc = "check" /\ SetThread(j, t2)
        /\ UNCHANGED <<repo, lock, job, strays, edited>>
    BY DEF Check
  <1>2. /\ job[j].pc = "apply" /\ Threaded(job[j], t) /\ t \in Thread
        /\ work = Patched(j, t.written)
    BY <1>1, ThreadsJob
  <1>3. t.written = {} /\ t.due = {} /\ t.todo = job[j].final /\ work = Base
    BY <1>1, <1>2, PatchedNothing DEF Threaded
  <1>4. same \in SUBSET Files /\ ok \in BOOLEAN /\ \A f \in same : job[j].read[f] = {}
    BY <1>3, JobsDistinct DEF IInv, Base
  <1>5. same \subseteq job[j].final /\ (ok => same = job[j].final)
    BY <1>3
  <1> HIDE DEF same, ok
  <1>6. /\ t2 \in Thread /\ t2.pc = "write" /\ t2.todo = same /\ t2.written = {}
        /\ t2.ok = ok /\ t2.due = t.due
    BY <1>2, <1>3, <1>4 DEF Thread
  <1> HIDE DEF t2
  <1>7. Threaded(job[j], t2)
    BY <1>2, <1>3, <1>4, <1>5, <1>6 DEF Threaded, Early, Rechecking, Resting
  <1>8. QED
    BY <1>1, <1>2, <1>3, <1>6, <1>7, ThreadMove DEF SetThread, repo

LEMMA WriteProper ==
  ASSUME IInv, NEW j \in Jobs, Write(j)
  PROVE  Proper(j)
  <1> DEFINE t == thread[j]
             s == job[j]
  <1>1. t.pc = "write" /\ UNCHANGED <<tip, head, index, lock, job, strays, edited>>
    BY DEF Write
  <1>2. /\ s.pc = "apply" /\ Threaded(s, t) /\ t \in Thread /\ s \in Job
        /\ work = Patched(j, t.written)
    BY <1>1, ThreadsJob
  <1>3. /\ t.todo \in SUBSET Files /\ t.written \in SUBSET Files
        /\ t.written \subseteq s.final /\ t.todo \subseteq s.final
        /\ \A f \in t.todo \union t.written : s.read[f] = {}
        /\ t.due = {}
        /\ t.ok => t.todo \union t.written = s.final
    BY <1>1, <1>2, JobsDistinct DEF IInv, Threaded
  <1>4. ASSUME NEW f \in t.todo, work' = [work EXCEPT ![f] = Fixed(j, f)],
               SetThread(j, [t EXCEPT !.todo = t.todo \ {f}, !.written = t.written \union {f}])
        PROVE  Proper(j)
    <2> DEFINE todo == t.todo \ {f}
               written == t.written \union {f}
               t2 == [t EXCEPT !.todo = todo, !.written = written]
    <2>1. todo \in SUBSET Files /\ written \in SUBSET Files
      BY <1>3
    <2>2. Fixed(j, f) = {j}
      BY <1>3 DEF Fixed
    <2>3. work' = Patched(j, written)
      <3>1. work' = [Patched(j, t.written) EXCEPT ![f] = {j}] /\ f \in Files
        BY <1>2, <1>3, <1>4, <2>2
      <3>2. QED
        BY <3>1 DEF Patched
    <2>4. /\ written \subseteq s.final /\ todo \subseteq s.final
          /\ \A g \in written \union todo : s.read[g] = {}
          /\ t.ok => todo \union written = s.final
      BY <1>3
    <2> HIDE DEF todo, written
    <2>5. /\ t2 \in Thread /\ t2.pc = "write" /\ t2.todo = todo /\ t2.written = written
          /\ t2.ok = t.ok /\ t2.due = t.due
      BY <1>1, <1>2, <2>1 DEF Thread
    <2>6. SetThread(j, t2)
      BY <1>4 DEF todo, written
    <2> HIDE DEF t2
    <2>7. Threaded(s, t2)
      BY <1>2, <1>3, <2>4, <2>5 DEF Threaded, Early, Rechecking, Resting
    <2>8. QED
      BY <1>1, <2>3, <2>5, <2>6, <2>7, ThreadMove DEF SetThread
  <1>5. ASSUME SetThread(j, [t EXCEPT !.pc = "undo", !.todo = t.written, !.ok = FALSE]),
               UNCHANGED work
        PROVE  Proper(j)
    <2> DEFINE t2 == [t EXCEPT !.pc = "undo", !.todo = t.written, !.ok = FALSE]
    <2>1. /\ t2 \in Thread /\ t2.pc = "undo" /\ t2.todo = t.written /\ t2.written = t.written
          /\ t2.ok = FALSE /\ t2.due = t.due
      BY <1>2, <1>3 DEF Thread
    <2>2. SetThread(j, t2)
      BY <1>5
    <2> HIDE DEF t2
    <2>3. Threaded(s, t2)
      BY <1>2, <1>3, <2>1 DEF Threaded, Early, Rechecking, Resting
    <2>4. QED
      BY <1>1, <1>2, <1>5, <2>1, <2>2, <2>3, ThreadMove DEF SetThread
  <1>6. ASSUME t.todo = {}, SetThread(j, [t EXCEPT !.pc = "done"]), UNCHANGED work
        PROVE  Proper(j)
    <2> DEFINE t2 == [t EXCEPT !.pc = "done"]
    <2>1. /\ t2 \in Thread /\ t2.pc = "done" /\ t2.todo = t.todo /\ t2.written = t.written
          /\ t2.ok = t.ok /\ t2.due = t.due
      BY <1>2 DEF Thread
    <2>2. SetThread(j, t2)
      BY <1>6
    <2>3. t.ok => t.written = s.final
      BY <1>3, <1>6
    <2> HIDE DEF t2
    <2>4. Threaded(s, t2)
      BY <1>2, <1>3, <2>1, <2>3 DEF Threaded, Early, Rechecking, Resting
    <2>5. QED
      BY <1>1, <1>2, <1>6, <2>1, <2>2, <2>4, ThreadMove DEF SetThread
  <1>7. QED
    BY <1>4, <1>5, <1>6 DEF Write

LEMMA UndoProper ==
  ASSUME IInv, Shielded, NEW j \in Jobs, Undo(j)
  PROVE  Proper(j)
  <1> DEFINE t == thread[j]
             s == job[j]
  <1>1. /\ t.pc = "undo" /\ OneAtATime(j)
        /\ UNCHANGED <<repo, lock, job, strays, edited>>
    BY DEF Undo
  <1>2. /\ s.pc \in {"apply", "rollback", "undo"} /\ Threaded(s, t) /\ t \in Thread /\ s \in Job
        /\ work = Patched(j, t.written)
    BY <1>1, ThreadsJob
  <1>3. /\ t.todo \in SUBSET Files /\ t.due = {} /\ t.written = t.todo
        /\ t.written \subseteq s.final
        /\ \A f \in t.written : s.read[f] = {}
        /\ s.pc = "apply" => ~t.ok
    BY <1>1, <1>2, JobsDistinct, CancelledOnce DEF IInv, Threaded, Shielded
  <1>4. \A f \in t.todo : work[f] = Fixed(j, f)
    <2> SUFFICES ASSUME NEW f \in t.todo PROVE work[f] = Fixed(j, f)
      OBVIOUS
    <2>1. Patched(j, t.written)[f] = {j}
      <3>1. f \in Files /\ f \in t.written
        BY <1>3
      <3>2. QED
        BY <3>1, PatchOne
    <2>2. Fixed(j, f) = {j}
      BY <1>3 DEF Fixed
    <2>3. QED
      BY <1>2, <2>1, <2>2
  <1>5. ASSUME NEW f \in t.todo,
               SetThread(j, [t EXCEPT !.todo = t.todo \ {f},
                                      !.due = t.due \union {g \in {f} : work[g] = Fixed(j, g)}])
        PROVE  Proper(j)
    <2> DEFINE rest == t.todo \ {f}
               t2 == [t EXCEPT !.todo = rest, !.due = {f}]
    <2>1. /\ rest \in SUBSET Files /\ f \in Files /\ t.written = rest \union {f}
          /\ rest \intersect {f} = {}
      BY <1>3
    <2>2. SetThread(j, t2)
      <3>1. t.due \union {g \in {f} : work[g] = Fixed(j, g)} = {f}
        BY <1>3, <1>4
      <3>2. QED
        BY <1>5, <3>1
    <2> HIDE DEF rest
    <2>3. /\ t2 \in Thread /\ t2.pc = "undo" /\ t2.todo = rest /\ t2.due = {f}
          /\ t2.written = t.written /\ t2.ok = t.ok
      BY <1>1, <1>2, <2>1 DEF Thread
    <2> HIDE DEF t2
    <2>4. Threaded(s, t2)
      BY <1>2, <1>3, <2>1, <2>3 DEF Threaded, Early, Rechecking, Resting
    <2>5. QED
      BY <1>1, <1>2, <2>2, <2>3, <2>4, ThreadMove DEF SetThread, repo
  <1>6. ASSUME t.todo = {}, SetThread(j, [t EXCEPT !.pc = "done"])
        PROVE  Proper(j)
    <2> DEFINE t2 == [t EXCEPT !.pc = "done"]
    <2>1. /\ t2 \in Thread /\ t2.pc = "done" /\ t2.todo = {} /\ t2.written = {}
          /\ t2.due = {} /\ t2.ok = t.ok
      BY <1>2, <1>3, <1>6 DEF Thread
    <2>2. SetThread(j, t2) /\ t2.written = t.written
      BY <1>2, <1>6 DEF Thread
    <2> HIDE DEF t2
    <2>3. Threaded(s, t2)
      BY <1>2, <1>3, <2>1 DEF Threaded, Early, Rechecking, Resting
    <2>4. QED
      BY <1>1, <1>2, <2>1, <2>2, <2>3, ThreadMove DEF SetThread, repo
  <1>7. QED
    BY <1>5, <1>6 DEF Undo

LEMMA PutBackProper ==
  ASSUME IInv, Shielded, NEW j \in Jobs, PutBack(j)
  PROVE  Proper(j)
  <1> DEFINE t == thread[j]
             s == job[j]
  <1>1. PICK f \in t.due :
          /\ work' = [work EXCEPT ![f] = s.read[f]]
          /\ SetThread(j, [t EXCEPT !.due = t.due \ {f}, !.written = t.written \ {f}])
    BY DEF PutBack, Shielded
  <1>2. UNCHANGED <<tip, head, index, lock, job, strays, edited>>
    BY DEF PutBack
  <1>3. Threaded(s, t)
    BY DEF IInv, JobsPlaced
  <1>4. t.pc = "undo"
    BY <1>1, <1>3 DEF Threaded
  <1>5. /\ s.pc \in {"apply", "rollback", "undo"} /\ t \in Thread /\ s \in Job
        /\ work = Patched(j, t.written)
    BY <1>4, ThreadsJob
  <1>6. /\ t.todo \in SUBSET Files /\ t.due \in SUBSET Files
        /\ t.written = t.todo \union t.due /\ t.written \subseteq s.final
        /\ \A g \in t.written : s.read[g] = {}
        /\ s.pc = "apply" => ~t.ok
    BY <1>3, <1>4, JobsDistinct DEF IInv, Threaded
  <1> DEFINE left == t.due \ {f}
             rest == t.written \ {f}
             t2 == [t EXCEPT !.due = left, !.written = rest]
  <1>7. work' = Patched(j, rest)
    <2>1. f \in Files /\ s.read[f] = {}
      BY <1>1, <1>6
    <2>2. work' = [Patched(j, t.written) EXCEPT ![f] = {}]
      BY <1>1, <1>5, <2>1
    <2>3. QED
      BY <2>1, <2>2 DEF Patched
  <1>8. f \notin t.todo
    BY <1>1, <1>3, <1>4 DEF Threaded
  <1>9. /\ rest = t.todo \union left /\ left \in SUBSET Files /\ rest \in SUBSET Files
        /\ t.todo \intersect left = {}
    BY <1>3, <1>4, <1>6, <1>8 DEF Threaded
  <1>10. SetThread(j, t2)
    BY <1>1
  <1> HIDE DEF left, rest
  <1>11. /\ t2 \in Thread /\ t2.pc = "undo" /\ t2.todo = t.todo /\ t2.due = left
         /\ t2.written = rest /\ t2.ok = t.ok
    BY <1>4, <1>5, <1>9 DEF Thread
  <1>12. rest \subseteq s.final /\ \A g \in rest : s.read[g] = {}
    BY <1>6 DEF rest
  <1> HIDE DEF t2
  <1>13. Threaded(s, t2)
    BY <1>3, <1>5, <1>6, <1>9, <1>11, <1>12 DEF Threaded, Early, Rechecking, Resting
  <1>14. QED
    BY <1>2, <1>4, <1>7, <1>10, <1>11, <1>13, ThreadMove DEF SetThread

\* The branch is made, empty, and the writing thread starts.
LEMMA CreateMove ==
  ASSUME IInv, NEW j \in Jobs, NEW s, NEW t, Goes(j, s, t), Fits(j, s, t),
         job[j].pc = "create", s.pc = "apply", s.branch = job[j].branch,
         t.written = {}, ~Exists(s.branch),
         head' = s.branch, index' = index, work' = work,
         tip' = [tip EXCEPT ![s.branch] = tip[head]]
  PROVE  IInv'
  <1>1. /\ job'[j] = s /\ thread'[j] = t
        /\ \A k \in Jobs \ {j} : job'[k] = job[k] /\ thread'[k] = thread[k]
    BY Gone
  <1>2. lock = j /\ Rested /\ tip[Own] = Base
    BY Restful DEF Rechecking
  <1>3. s.branch \in Branches /\ s.branch # Own
    BY JobsDistinct DEF IInv, Fits, Informed, OnBranch
  <1>4. /\ tip' \in [Branches -> Tree \union {NoCommit}] /\ tip'[s.branch] = Base
        /\ \A b \in Branches \ {s.branch} : tip'[b] = tip[b]
    BY <1>2, <1>3, TreesKnown DEF IInv, TypeOK, Rested
  <1>5. Exists(head)'
    BY <1>3, <1>4, TreesKnown DEF Exists
  <1>6. TypeOK'
    BY <1>3, <1>4, <1>5, JobMove DEF IInv, TypeOK, Goes
  <1>7. \A k \in Jobs \ {j} : job'[k].pc \notin Holding
    <2>1. job[j].pc \in Holding
      BY DEF Holding, Rechecking
    <2>2. QED
      BY <1>1, <2>1, OneHolder
  <1>8. Tips'
    <2>1. tip'[Own] = Base
      BY <1>2, <1>3, <1>4, BranchesKnown
    <2>2. ASSUME NEW k \in Jobs, job'[k].pc = "applied"
          PROVE  tip'[job'[k].branch] = Patched(k, job'[k].final)
      <3>1. k # j
        BY <1>1, <2>2
      <3>2. job'[k] = job[k] /\ tip[job[k].branch] = Patched(k, job[k].final)
        BY <1>1, <2>2, <3>1 DEF IInv, Tips
      <3>3. job[k].branch \in Branches /\ Exists(job[k].branch)
        BY <3>2, JobsDistinct, TreesKnown DEF IInv, Exists
      <3>4. QED
        BY <1>4, <3>2, <3>3
    <2>3. ASSUME NEW b \in Branches \ {Own}, Exists(b)'
          PROVE  \E k \in Jobs : job'[k].branch = b
                                 /\ job'[k].pc \in OnBranch \union {"delete", "applied"}
      <3>1. CASE b = s.branch
        BY <1>1, <3>1 DEF OnBranch
      <3>2. CASE b # s.branch
        <4>1. Exists(b)
          BY <1>4, <2>3, <3>2 DEF Exists
        <4>2. PICK k \in Jobs : job[k].branch = b
                                /\ job[k].pc \in OnBranch \union {"delete", "applied"}
          BY <4>1 DEF IInv, Tips
        <4>3. k # j
          BY <4>2 DEF OnBranch
        <4>4. QED
          BY <1>1, <4>2, <4>3
      <3>3. QED
        BY <3>1, <3>2
    <2>4. QED
      BY <2>1, <2>2, <2>3 DEF Tips
  <1>9. RepoPlaced'
    <2>1. job'[j].pc \in OnBranch
      BY <1>1 DEF OnBranch
    <2>2. \A k \in Jobs : job'[k].pc \in OnBranch => k = j
      BY <1>7 DEF Holding
    <2>3. \A k \in Jobs : job'[k].pc \notin {"create", "delete"}
      BY <1>1, <1>7 DEF Holding, Rechecking
    <2>4. Contents(s, t, j, Base, Base, Base)
      BY PatchedNothing DEF Contents, Published
    <2>5. Working(job[j], thread[j], j)'
      BY <1>1, <1>2, <1>4, <2>4 DEF Working, Rested
    <2>6. QED
      BY <1>1, <2>1, <2>2, <2>3, <2>5 DEF RepoPlaced
  <1>10. QED
    BY <1>6, <1>8, <1>9, JobMove DEF IInv

LEMMA CreateProper ==
  ASSUME IInv, NEW j \in Jobs, Create(j)
  PROVE  Proper(j)
  <1> DEFINE s == job[j]
  <1>1. /\ s \in Job /\ Informed(s) /\ s.pc = "create" /\ UNCHANGED <<strays, edited>>
        /\ strays = {}
    BY JobsDistinct DEF IInv, JobsPlaced, Create, Quiet
  <1>2. lock = j
    BY <1>1, Restful DEF Rechecking
  <1>3. ASSUME Accepts(Git("create", s.branch)), Effect(Git("create", s.branch)),
               GoTo(j, "apply"), UNCHANGED lock, SetThread(j, Writer(s.final))
        PROVE  Proper(j)
    <2> DEFINE s2 == [s EXCEPT !.pc = "apply"]
               t2 == Writer(s.final)
    <2>1. /\ ~Exists(s.branch) /\ head' = s.branch /\ index' = index /\ work' = work
          /\ tip' = [tip EXCEPT ![s.branch] = tip[head]]
      BY <1>3 DEF Accepts, Effect, Git
    <2>2. /\ s2 \in Job /\ s2.pc = "apply" /\ s2.branch = s.branch /\ s2.final = s.final
          /\ s2.sha = s.sha /\ s2.from = s.from /\ s2.ends = s.ends
      BY <1>1, Fields DEF Pcs
    <2>3. /\ t2 \in Thread /\ t2.pc = "check" /\ t2.todo = s.final /\ t2.written = {} /\ t2.ok
          /\ t2.due = {}
      BY JobsDistinct DEF IInv, Thread, Writer
    <2>4. Goes(j, s2, t2)
      BY <1>1, <1>3 DEF Goes, GoTo, Go, SetThread
    <2> HIDE DEF s2, t2
    <2>5. Informed(s2)
      BY <1>1, <2>2 DEF Informed, Holding, Rechecking, OnBranch
    <2>6. Threaded(s2, t2)
      BY <2>2, <2>3 DEF Threaded, Early, Rechecking, Resting
    <2>7. s2.pc \in Holding
      BY <2>2 DEF Holding, OnBranch
    <2>8. Fits(j, s2, t2)
      BY <1>2, <1>3, <2>2, <2>3, <2>5, <2>6, <2>7 DEF Fits
    <2>9. IInv'
      BY <1>1, <2>1, <2>2, <2>3, <2>4, <2>8, CreateMove
    <2>10. Turn(s, s2)
      BY <1>1, <2>2 DEF Turn, Shows, Published, Terminal
    <2>11. QED
      BY <2>4, <2>9, <2>10, Gone DEF Proper
  <1>4. ASSUME UNCHANGED repo, End(j, "failed"), UNCHANGED thread
        PROVE  Proper(j)
    <2> DEFINE s2 == [s EXCEPT !.pc = "failed"]
    <2>1. s2 \in Job /\ s2.pc = "failed" /\ s2.ends = s.ends
      BY <1>1, Fields DEF Pcs, Terminal
    <2>2. Informed(s2)
      BY <1>1, <2>1 DEF Informed, Holding, Rechecking, OnBranch
    <2>3. lock' = NoJob /\ NoJob # j
      BY <1>2, <1>4, EnvironmentAssumption DEF End, Release
    <2>4. s2.pc \notin Holding /\ s.pc \in Rechecking
      BY <1>1, <2>1 DEF Holding, Rechecking, OnBranch
    <2>5. QED
      BY <1>1, <1>2, <1>4, <2>1, <2>2, <2>3, <2>4, AwayStep DEF End, GoTo, Go
  <1>5. QED
    BY <1>1, <1>3, <1>4 DEF Create, RunGit

\* A job on its branch: what it knows, and what is there.
LEMMA OnIt ==
  ASSUME IInv, NEW j \in Jobs, job[j].pc \in OnBranch
  PROVE  /\ job[j] \in Job /\ thread[j] \in Thread
         /\ Informed(job[j]) /\ Threaded(job[j], thread[j])
         /\ Contents(job[j], thread[j], j, tip[head], index, work)
         /\ index \in Tree /\ work \in Tree /\ strays = {} /\ lock = j
         /\ job[j].final \in SUBSET Files /\ job[j].final # {}
         /\ thread[j].written \in SUBSET Files
         /\ head = job[j].branch /\ job[j].sha = Base /\ job[j].from = Own
         /\ head # Own /\ tip[Own] = Base
  <1>1. Informed(job[j]) /\ Threaded(job[j], thread[j])
    BY DEF IInv, JobsPlaced
  <1>2. job[j].final # {} /\ job[j].sha = Base /\ job[j].from = Own /\ job[j].branch # Own
    BY <1>1 DEF Informed, Holding
  <1>3. QED
    BY <1>1, <1>2, JobsDistinct, Holder DEF IInv, TypeOK, Working

\* A step of the job on its branch that leaves the repository alone.
LEMMA StayStep ==
  ASSUME IInv, NEW j \in Jobs, NEW s \in Job, NEW t \in Thread, Goes(j, s, t),
         UNCHANGED <<repo, lock>>, Informed(s), Threaded(s, t),
         job[j].pc \in OnBranch, s.pc \in OnBranch, s.branch = job[j].branch,
         Contents(s, t, j, tip[head], index, work),
         Shows(job[j]) => Shows(s) /\ s.final = job[j].final
  PROVE  Proper(j)
  <1>1. tip' = tip /\ head' = head /\ index' = index /\ work' = work
    BY DEF repo
  <1>2. index \in Tree /\ work \in Tree
    BY OnIt
  <1>3. QED
    BY <1>1, <1>2, BranchStep

\* The clean-up of a failed apply starts.
LEMMA FailProper ==
  ASSUME IInv, NEW j \in Jobs, Fail(j), UNCHANGED <<repo, lock, strays, edited>>,
         job[j].pc \in {"rollback", "add", "commit"},
         job[j].pc = "rollback" => thread[j].pc = "done"
  PROVE  Proper(j)
  <1> DEFINE s == job[j]
             t == thread[j]
             s1 == [s EXCEPT !.ends = "failed"]
  <1>1. s.pc \in OnBranch /\ ~Shows(s)
    BY DEF OnBranch, Shows, Published
  <1>2. /\ s \in Job /\ t \in Thread /\ Informed(s) /\ Threaded(s, t)
        /\ Contents(s, t, j, tip[head], index, work)
        /\ s.final \in SUBSET Files /\ s.final # {} /\ t.written \in SUBSET Files
    BY <1>1, OnIt
  <1>3. /\ s1 \in Job /\ s1.ends = "failed" /\ s1.final = s.final /\ s1.sha = s.sha
        /\ s1.from = s.from /\ s1.branch = s.branch /\ s1.read = s.read
    BY <1>2 DEF Job, Terminal
  <1> HIDE DEF s1
  <1>4. ASSUME t.written = {}, Go(j, [s1 EXCEPT !.pc = "restore"]), UNCHANGED thread
        PROVE  Proper(j)
    <2> DEFINE s2 == [s1 EXCEPT !.pc = "restore"]
    <2>1. /\ s2 \in Job /\ s2.pc = "restore" /\ s2.ends = "failed" /\ s2.final = s.final
          /\ s2.sha = s.sha /\ s2.from = s.from /\ s2.branch = s.branch
      BY <1>3, Fields DEF Pcs
    <2>2. Goes(j, s2, t)
      BY <1>4, ThreadKept DEF Goes, Go
    <2> HIDE DEF s2
    <2>3. Informed(s2)
      BY <1>1, <1>2, <2>1 DEF Informed, Holding, Rechecking, OnBranch
    <2>4. Threaded(s2, t)
      BY <1>2, <1>4, <2>1 DEF Threaded, Early, Rechecking, Resting
    <2>5. s.pc = "rollback"
      BY <1>2, <1>4 DEF Threaded
    <2>6. Contents(s2, t, j, tip[head], index, work)
      BY <1>2, <1>4, <2>1, <2>5, PatchedNothing DEF Contents, Published
    <2>7. s2.pc \in OnBranch
      BY <2>1 DEF OnBranch
    <2>8. QED
      BY <1>1, <1>2, <2>1, <2>2, <2>3, <2>4, <2>6, <2>7, StayStep
  <1>5. ASSUME t.written # {}, Go(j, [s1 EXCEPT !.pc = "undo"]),
               SetThread(j, [t EXCEPT !.pc = "undo", !.todo = t.written])
        PROVE  Proper(j)
    <2> DEFINE s2 == [s1 EXCEPT !.pc = "undo"]
               t2 == [t EXCEPT !.pc = "undo", !.todo = t.written]
    <2>1. /\ s2 \in Job /\ s2.pc = "undo" /\ s2.ends = "failed" /\ s2.final = s.final
          /\ s2.sha = s.sha /\ s2.from = s.from /\ s2.branch = s.branch /\ s2.read = s.read
      BY <1>3, Fields DEF Pcs
    <2>2. /\ t2 \in Thread /\ t2.pc = "undo" /\ t2.todo = t.written /\ t2.written = t.written
          /\ t2.due = {}
      <3>1. t.due = {}
        BY <1>1, <1>2 DEF Threaded, Resting
      <3>2. QED
        BY <1>2, <3>1 DEF Thread
    <2>3. Goes(j, s2, t2)
      BY <1>5 DEF Goes, Go, SetThread
    <2> HIDE DEF s2, t2
    <2>4. Informed(s2)
      BY <1>1, <1>2, <2>1 DEF Informed, Holding, Rechecking, OnBranch
    <2>5. Threaded(s2, t2)
      BY <1>2, <2>1, <2>2 DEF Threaded, Early, Rechecking, Resting
    <2>6. s.pc \in {"add", "commit"} /\ t.written = s.final
      BY <1>2, <1>5 DEF Threaded
    <2>7. Contents(s2, t2, j, tip[head], index, work)
      <3>1. tip[head] = Base /\ work = Patched(j, s.final)
        BY <1>2, <2>6 DEF Contents, Published
      <3>2. \E G \in SUBSET s.final : index = Patched(j, G)
        <4>1. s.final \ s.todo \in SUBSET s.final /\ s.final \in SUBSET s.final
          OBVIOUS
        <4>2. index = Patched(j, s.final \ s.todo) \/ index = Patched(j, s.final)
          BY <1>2, <2>6 DEF Contents, Published
        <4>3. QED
          BY <4>1, <4>2
      <3>3. QED
        BY <2>1, <2>2, <2>6, <3>1, <3>2 DEF Contents, Published
    <2>8. s2.pc \in OnBranch
      BY <2>1 DEF OnBranch
    <2>9. QED
      BY <1>1, <1>2, <2>1, <2>2, <2>3, <2>4, <2>5, <2>7, <2>8, StayStep
  <1>6. QED
    BY <1>4, <1>5 DEF Fail, Handle, s1

LEMMA AppliedProper ==
  ASSUME IInv, NEW j \in Jobs, Applied(j)
  PROVE  Proper(j)
  <1> DEFINE s == job[j]
             t == thread[j]
  <1>1. /\ s.pc \in {"apply", "rollback"} /\ t.pc = "done"
        /\ UNCHANGED <<repo, lock, strays, edited>>
    BY DEF Applied
  <1>2. s.pc \in OnBranch /\ ~Shows(s)
    BY <1>1 DEF OnBranch, Shows, Published
  <1>3. /\ s \in Job /\ t \in Thread /\ Informed(s) /\ Threaded(s, t)
        /\ Contents(s, t, j, tip[head], index, work)
        /\ s.final \in SUBSET Files /\ s.final # {} /\ t.written \in SUBSET Files
    BY <1>2, OnIt
  <1>4. ASSUME s.pc = "apply", t.ok, Go(j, [s EXCEPT !.pc = "add", !.todo = t.written]),
               UNCHANGED thread
        PROVE  Proper(j)
    <2> DEFINE s2 == [s EXCEPT !.pc = "add", !.todo = t.written]
    <2>1. /\ s2 \in Job /\ s2.pc = "add" /\ s2.todo = t.written /\ s2.final = s.final
          /\ s2.sha = s.sha /\ s2.from = s.from /\ s2.branch = s.branch /\ s2.read = s.read
          /\ s2.ends = s.ends
      BY <1>3 DEF Job
    <2>2. Goes(j, s2, t)
      BY <1>1, <1>4, ThreadKept DEF Goes, Go
    <2> HIDE DEF s2
    <2>3. t.written = s.final
      BY <1>1, <1>3, <1>4 DEF Threaded
    <2>4. Informed(s2)
      BY <1>2, <1>3, <1>4, <2>1 DEF Informed, Holding, Rechecking, OnBranch
    <2>5. Threaded(s2, t)
      BY <1>1, <1>3, <2>1, <2>3 DEF Threaded, Early, Rechecking, Resting
    <2>6. Contents(s2, t, j, tip[head], index, work)
      <3>1. tip[head] = Base /\ index = Base /\ work = Patched(j, s.final)
        BY <1>3, <1>4, <2>3 DEF Contents, Published
      <3>2. s2.final \ s2.todo = {}
        BY <2>1, <2>3
      <3>3. Patched(j, s2.final \ s2.todo) = Base
        BY <3>2, PatchedNothing
      <3>4. QED
        BY <2>1, <3>1, <3>3 DEF Contents, Published
    <2>7. s2.pc \in OnBranch
      BY <2>1 DEF OnBranch
    <2>8. QED
      BY <1>1, <1>2, <1>3, <2>1, <2>2, <2>4, <2>5, <2>6, <2>7, StayStep
  <1>5. ASSUME s.pc = "apply", ~t.ok, GoTo(j, "rollback"),
               SetThread(j, [t EXCEPT !.pc = "undo", !.todo = t.written])
        PROVE  Proper(j)
    <2> DEFINE s2 == [s EXCEPT !.pc = "rollback"]
               t2 == [t EXCEPT !.pc = "undo", !.todo = t.written]
    <2>1. /\ s2 \in Job /\ s2.pc = "rollback" /\ s2.final = s.final
          /\ s2.sha = s.sha /\ s2.from = s.from /\ s2.branch = s.branch /\ s2.read = s.read
          /\ s2.ends = s.ends
      BY <1>3, Fields DEF Pcs
    <2>2. /\ t2 \in Thread /\ t2.pc = "undo" /\ t2.todo = t.written /\ t2.written = t.written
          /\ t2.due = {}
      BY <1>1, <1>3 DEF Thread, Threaded
    <2>3. Goes(j, s2, t2)
      BY <1>1, <1>5 DEF Goes, Go, GoTo, SetThread
    <2> HIDE DEF s2, t2
    <2>4. Informed(s2)
      BY <1>2, <1>3, <1>5, <2>1 DEF Informed, Holding, Rechecking, OnBranch
    <2>5. Threaded(s2, t2)
      BY <1>3, <2>1, <2>2 DEF Threaded, Early, Rechecking, Resting
    <2>6. Contents(s2, t2, j, tip[head], index, work)
      BY <1>3, <1>5, <2>1, <2>2 DEF Contents, Published
    <2>7. s2.pc \in OnBranch
      BY <2>1 DEF OnBranch
    <2>8. QED
      BY <1>1, <1>2, <1>3, <2>1, <2>2, <2>3, <2>4, <2>5, <2>6, <2>7, StayStep
  <1>6. ASSUME s.pc = "rollback", Fail(j)
        PROVE  Proper(j)
    BY <1>1, <1>6, FailProper
  <1>7. QED
    BY <1>4, <1>5, <1>6 DEF Applied

LEMMA AddProper ==
  ASSUME IInv, NEW j \in Jobs, Add(j)
  PROVE  Proper(j)
  <1> DEFINE s == job[j]
             t == thread[j]
  <1>1. s.pc = "add" /\ UNCHANGED <<lock, strays, edited>>
    BY DEF Add
  <1>2. s.pc \in OnBranch /\ ~Shows(s)
    BY <1>1 DEF OnBranch, Shows, Published
  <1>3. /\ s \in Job /\ t \in Thread /\ Informed(s) /\ Threaded(s, t)
        /\ Contents(s, t, j, tip[head], index, work)
        /\ s.final \in SUBSET Files /\ s.final # {} /\ work \in Tree /\ index \in Tree
    BY <1>2, OnIt
  <1>4. /\ tip[head] = Base /\ index = Patched(j, s.final \ s.todo)
        /\ work = Patched(j, s.final) /\ t.written = s.final /\ s.todo \subseteq s.final
    BY <1>1, <1>3 DEF Contents, Published, Threaded
  <1>5. ASSUME NEW f \in s.todo, Effect(Git("add", {f})),
               Go(j, [s EXCEPT !.todo = s.todo \ {f}]), UNCHANGED thread
        PROVE  Proper(j)
    <2> DEFINE left == s.todo \ {f}
               s2 == [s EXCEPT !.todo = left]
    <2>1. /\ tip' = tip /\ head' = head /\ work' = work
          /\ index' = [g \in Files |-> IF g \in {f} THEN work[g] ELSE index[g]]
      BY <1>5 DEF Effect, Git
    <2>2. left \in SUBSET Files /\ left \subseteq s.final
      BY <1>3, <1>4
    <2>3. s.final \ left = (s.final \ s.todo) \union {f}
      BY <1>4
    <2>4. index' = Patched(j, s.final \ left)
      <3>1. index' = [g \in Files |-> IF g \in {f} THEN Patched(j, s.final)[g]
                                      ELSE Patched(j, s.final \ s.todo)[g]]
        BY <1>4, <2>1
      <3>2. f \in s.final
        BY <1>4
      <3>3. index' = Patched(j, (s.final \ s.todo) \union {f})
        BY <3>1, <3>2, PatchStaged
      <3>4. QED
        BY <2>3, <3>3
    <2>5. Go(j, s2)
      BY <1>5
    <2> HIDE DEF left
    <2>6. /\ s2 \in Job /\ s2.pc = "add" /\ s2.todo = left /\ s2.final = s.final
          /\ s2.sha = s.sha /\ s2.from = s.from /\ s2.branch = s.branch /\ s2.read = s.read
          /\ s2.ends = s.ends
      BY <1>1, <1>3, <2>2 DEF Job
    <2>7. Goes(j, s2, t)
      BY <1>1, <1>5, <2>5, ThreadKept DEF Goes, Go
    <2> HIDE DEF s2
    <2>8. Informed(s2)
      BY <1>1, <1>3, <2>6 DEF Informed
    <2>9. Threaded(s2, t)
      BY <1>1, <1>3, <1>4, <2>2, <2>6 DEF Threaded, Early, Rechecking, Resting
    <2>10. Contents(s2, t, j, tip'[head], index', work')
      BY <1>4, <2>1, <2>4, <2>6 DEF Contents, Published
    <2>11. s2.pc \in OnBranch
      BY <2>6 DEF OnBranch
    <2>12. index' \in Tree /\ work' \in Tree
      BY <1>3, <2>1, <2>4, TreesKnown
    <2>13. QED
      BY <1>1, <1>2, <1>3, <2>1, <2>6, <2>7, <2>8, <2>9, <2>10, <2>11, <2>12, BranchStep
  <1>6. ASSUME UNCHANGED repo, Fail(j)
        PROVE  Proper(j)
    BY <1>1, <1>6, FailProper
  <1>7. ASSUME s.todo = {}, GoTo(j, "commit"), UNCHANGED <<repo, thread>>
        PROVE  Proper(j)
    <2> DEFINE s2 == [s EXCEPT !.pc = "commit"]
    <2>1. /\ s2 \in Job /\ s2.pc = "commit" /\ s2.final = s.final
          /\ s2.sha = s.sha /\ s2.from = s.from /\ s2.branch = s.branch /\ s2.read = s.read
          /\ s2.ends = s.ends
      BY <1>3, Fields DEF Pcs
    <2>2. Goes(j, s2, t)
      BY <1>1, <1>7, ThreadKept DEF Goes, Go, GoTo
    <2> HIDE DEF s2
    <2>3. Informed(s2)
      BY <1>1, <1>2, <1>3, <2>1 DEF Informed, Holding, Rechecking, OnBranch
    <2>4. Threaded(s2, t)
      BY <1>1, <1>3, <1>4, <2>1 DEF Threaded, Early, Rechecking, Resting
    <2>5. s.final \ s.todo = s.final
      BY <1>7
    <2>6. Contents(s2, t, j, tip[head], index, work)
      BY <1>4, <2>1, <2>5 DEF Contents, Published
    <2>7. s2.pc \in OnBranch
      BY <2>1 DEF OnBranch
    <2>8. QED
      BY <1>1, <1>2, <1>3, <1>7, <2>1, <2>2, <2>3, <2>4, <2>6, <2>7, StayStep
  <1>8. QED
    BY <1>5, <1>6, <1>7 DEF Add, RunGit

LEMMA CommitFixesProper ==
  ASSUME IInv, NEW j \in Jobs, CommitFixes(j)
  PROVE  Proper(j)
  <1> DEFINE s == job[j]
             t == thread[j]
  <1>1. s.pc = "commit" /\ UNCHANGED <<lock, strays, edited>>
    BY DEF CommitFixes
  <1>2. s.pc \in OnBranch /\ ~Shows(s)
    BY <1>1 DEF OnBranch, Shows, Published
  <1>3. /\ s \in Job /\ t \in Thread /\ Informed(s) /\ Threaded(s, t)
        /\ Contents(s, t, j, tip[head], index, work)
        /\ work \in Tree /\ index \in Tree /\ head \in Branches
    BY <1>2, OnIt DEF IInv, TypeOK
  <1>4. /\ tip[head] = Base /\ index = Patched(j, s.final)
        /\ work = Patched(j, s.final) /\ t.written = s.final
    BY <1>1, <1>3 DEF Contents, Published, Threaded
  <1>5. ASSUME Effect(Git("commit", {})), GoTo(j, "verify"), UNCHANGED thread
        PROVE  Proper(j)
    <2> DEFINE s2 == [s EXCEPT !.pc = "verify"]
    <2>1. /\ tip' = [tip EXCEPT ![head] = index] /\ head' = head /\ work' = work
          /\ index' = index
      BY <1>5 DEF Effect, Git
    <2>2. tip'[head] = Patched(j, s.final)
      BY <1>3, <1>4, <2>1 DEF IInv, TypeOK
    <2>3. /\ s2 \in Job /\ s2.pc = "verify" /\ s2.final = s.final
          /\ s2.sha = s.sha /\ s2.from = s.from /\ s2.branch = s.branch /\ s2.read = s.read
          /\ s2.ends = s.ends
      BY <1>3, Fields DEF Pcs
    <2>4. Goes(j, s2, t)
      BY <1>1, <1>5, ThreadKept DEF Goes, Go, GoTo
    <2> HIDE DEF s2
    <2>5. Informed(s2)
      BY <1>1, <1>2, <1>3, <2>3 DEF Informed, Holding, Rechecking, OnBranch
    <2>6. Threaded(s2, t)
      BY <1>1, <1>3, <1>4, <2>3 DEF Threaded, Early, Rechecking, Resting
    <2>7. Contents(s2, t, j, tip'[head], index', work')
      BY <1>4, <2>1, <2>2, <2>3 DEF Contents, Published
    <2>8. s2.pc \in OnBranch
      BY <2>3 DEF OnBranch
    <2>9. \E x \in Tree : tip' = [tip EXCEPT ![head] = x]
      BY <1>3, <2>1
    <2>10. QED
      BY <1>1, <1>2, <1>3, <1>4, <2>1, <2>3, <2>4, <2>5, <2>6, <2>7, <2>8, <2>9, BranchStep
  <1>6. ASSUME UNCHANGED repo, Fail(j)
        PROVE  Proper(j)
    BY <1>1, <1>6, FailProper
  <1>7. QED
    BY <1>5, <1>6 DEF CommitFixes, RunGit

LEMMA VerifyProper ==
  ASSUME IInv, NEW j \in Jobs, Verify(j)
  PROVE  Proper(j)
  <1> DEFINE s == job[j]
             t == thread[j]
             s2 == [s EXCEPT !.pc = "restore"]
  <1>1. s.pc = "verify" /\ GoTo(j, "restore") /\ UNCHANGED <<repo, lock, thread, strays, edited>>
    BY DEF Verify
  <1>2. s.pc \in OnBranch /\ Shows(s)
    BY <1>1 DEF OnBranch, Shows, Published
  <1>3. /\ s \in Job /\ t \in Thread /\ Informed(s) /\ Threaded(s, t)
        /\ Contents(s, t, j, tip[head], index, work)
    BY <1>2, OnIt
  <1>4. s.ends = "applied"
    BY <1>1, <1>3 DEF Informed
  <1>5. /\ s2 \in Job /\ s2.pc = "restore" /\ s2.final = s.final
        /\ s2.sha = s.sha /\ s2.from = s.from /\ s2.branch = s.branch /\ s2.read = s.read
        /\ s2.ends = s.ends
    BY <1>3, Fields DEF Pcs
  <1>6. Goes(j, s2, t)
    BY <1>1, ThreadKept DEF Goes, Go, GoTo
  <1> HIDE DEF s2
  <1>7. Informed(s2)
    BY <1>2, <1>3, <1>5 DEF Informed, Holding, Rechecking, OnBranch
  <1>8. Threaded(s2, t)
    BY <1>1, <1>3, <1>5 DEF Threaded, Early, Rechecking, Resting
  <1>9. Contents(s2, t, j, tip[head], index, work)
    BY <1>1, <1>3, <1>4, <1>5 DEF Contents, Published
  <1>10. s2.pc \in OnBranch /\ Shows(s2)
    BY <1>4, <1>5 DEF OnBranch, Shows, Published
  <1>11. QED
    BY <1>1, <1>2, <1>3, <1>5, <1>6, <1>7, <1>8, <1>9, <1>10, StayStep

LEMMA UnstageProper ==
  ASSUME IInv, NEW j \in Jobs, Unstage(j)
  PROVE  Proper(j)
  <1> DEFINE s == job[j]
             t == thread[j]
  <1>1. s.pc \in {"undo", "reset"} /\ UNCHANGED <<lock, thread, strays, edited>>
    BY DEF Unstage
  <1>2. s.pc \in OnBranch /\ ~Shows(s)
    BY <1>1 DEF OnBranch, Shows, Published
  <1>3. /\ s \in Job /\ t \in Thread /\ Informed(s) /\ Threaded(s, t)
        /\ Contents(s, t, j, tip[head], index, work) /\ tip[head] = Base
        /\ work \in Tree /\ index \in Tree /\ strays = {}
    BY <1>1, <1>2, OnIt DEF Contents, Published
  <1>4. s.ends = "failed"
    BY <1>1, <1>3 DEF Informed
  <1>5. PICK G \in SUBSET s.final : index = Patched(j, G)
    BY <1>1, <1>3 DEF Contents, Published
  <1>6. ASSUME s.pc = "undo", t.pc = "done", GoTo(j, "reset"), UNCHANGED repo
        PROVE  Proper(j)
    <2> DEFINE s2 == [s EXCEPT !.pc = "reset"]
    <2>1. /\ s2 \in Job /\ s2.pc = "reset" /\ s2.final = s.final
          /\ s2.sha = s.sha /\ s2.from = s.from /\ s2.branch = s.branch /\ s2.read = s.read
          /\ s2.ends = s.ends
      BY <1>3, Fields DEF Pcs
    <2>2. Goes(j, s2, t)
      BY <1>1, <1>6, ThreadKept DEF Goes, Go, GoTo
    <2> HIDE DEF s2
    <2>3. Informed(s2)
      BY <1>2, <1>3, <1>4, <2>1 DEF Informed, Holding, Rechecking, OnBranch
    <2>4. Threaded(s2, t)
      BY <1>3, <1>6, <2>1 DEF Threaded, Early, Rechecking, Resting
    <2>5. work = Base
      <3>1. t.written = {}
        BY <1>3, <1>6 DEF Threaded
      <3>2. QED
        BY <1>3, <1>6, <3>1, PatchedNothing DEF Contents, Published
    <2>6. Contents(s2, t, j, tip[head], index, work)
      BY <1>3, <1>5, <2>1, <2>5 DEF Contents, Published
    <2>7. s2.pc \in OnBranch
      BY <2>1 DEF OnBranch
    <2>8. QED
      BY <1>1, <1>2, <1>3, <1>6, <2>1, <2>2, <2>3, <2>4, <2>6, <2>7, StayStep
  <1>7. ASSUME s.pc = "reset", Effect(Git("reset", s.final)), GoTo(j, "restore")
        PROVE  Proper(j)
    <2> DEFINE s2 == [s EXCEPT !.pc = "restore"]
    <2>1. /\ tip' = tip /\ head' = head /\ work' = work
          /\ index' = [f \in Files |-> IF f \in s.final THEN tip[head][f] ELSE index[f]]
      BY <1>7 DEF Effect, Git
    <2>2. index' = Base
      <3>1. index' = [g \in Files |-> IF g \in s.final THEN Base[g] ELSE Patched(j, G)[g]]
        BY <1>3, <1>5, <2>1
      <3>2. QED
        BY <1>5, <3>1 DEF Patched, Base
    <2>3. /\ s2 \in Job /\ s2.pc = "restore" /\ s2.final = s.final
          /\ s2.sha = s.sha /\ s2.from = s.from /\ s2.branch = s.branch /\ s2.read = s.read
          /\ s2.ends = s.ends
      BY <1>3, Fields DEF Pcs
    <2>4. Goes(j, s2, t)
      BY <1>1, <1>7, ThreadKept DEF Goes, Go, GoTo
    <2> HIDE DEF s2
    <2>5. Informed(s2)
      BY <1>2, <1>3, <1>4, <2>3 DEF Informed, Holding, Rechecking, OnBranch
    <2>6. Threaded(s2, t)
      BY <1>3, <1>7, <2>3 DEF Threaded, Early, Rechecking, Resting
    <2>7. work = Base
      BY <1>3, <1>7 DEF Contents, Published
    <2>8. Contents(s2, t, j, tip'[head], index', work')
      BY <1>3, <1>4, <2>1, <2>2, <2>3, <2>7 DEF Contents, Published
    <2>9. s2.pc \in OnBranch
      BY <2>3 DEF OnBranch
    <2>10. index' \in Tree /\ work' \in Tree
      BY <1>3, <2>1, <2>2, TreesKnown
    <2>11. QED
      BY <1>1, <1>2, <1>3, <2>1, <2>3, <2>4, <2>5, <2>6, <2>8, <2>9, <2>10, BranchStep
  <1>8. Accepts(Git("reset", s.final))
    BY DEF Accepts, Git
  <1>9. QED
    BY <1>1, <1>3, <1>6, <1>7, <1>8 DEF Unstage, RunGit

\* The job leaves its branch, which has all of its fixes or none.
LEMMA LeaveMove ==
  ASSUME IInv, NEW j \in Jobs, NEW s, NEW t, Goes(j, s, t), Fits(j, s, t),
         job[j].pc \in OnBranch, s.pc \in {"delete", "applied"}, s.branch = job[j].branch,
         tip' = tip, head' = Own, index' = Base, work' = Base,
         s.pc = "delete" => tip[s.branch] = Base,
         s.pc = "applied" => tip[s.branch] = Patched(j, s.final)
  PROVE  IInv'
  <1>1. /\ job'[j] = s /\ thread'[j] = t
        /\ \A k \in Jobs \ {j} : job'[k] = job[k] /\ thread'[k] = thread[k]
    BY Gone
  <1>2. /\ tip[Own] = Base /\ \A k \in Jobs \ {j} : job[k].pc \notin Holding
    BY Holder
  <1>3. TypeOK'
    <2>1. Exists(head)'
      BY <1>2, TreesKnown DEF Exists
    <2>2. head' \in Branches /\ index' \in Tree /\ work' \in Tree
      BY BranchesKnown, TreesKnown
    <2>3. QED
      BY <2>1, <2>2, JobMove DEF IInv, TypeOK, Goes
  <1>4. Tips'
    <2>1. \A k \in Jobs : job'[k].pc = "applied" => tip'[job'[k].branch] = Patched(k, job'[k].final)
      BY <1>1 DEF IInv, Tips
    <2>2. ASSUME NEW b \in Branches \ {Own}, Exists(b)'
          PROVE  \E k \in Jobs : job'[k].branch = b
                                 /\ job'[k].pc \in OnBranch \union {"delete", "applied"}
      <3>1. Exists(b)
        BY <2>2 DEF Exists
      <3>2. PICK k \in Jobs : job[k].branch = b /\ job[k].pc \in OnBranch \union {"delete", "applied"}
        BY <3>1 DEF IInv, Tips
      <3>3. QED
        BY <1>1, <3>2
    <2>3. QED
      BY <1>2, <2>1, <2>2 DEF Tips
  <1>5. RepoPlaced'
    <2>1. \A k \in Jobs : job'[k].pc \notin OnBranch \union {"create"}
      BY <1>1, <1>2 DEF Holding, Rechecking, OnBranch
    <2>2. \A k \in Jobs : job'[k].pc = "delete" => tip'[job'[k].branch] = Base
      BY <1>1 DEF IInv, RepoPlaced
    <2>3. QED
      BY <2>1, <2>2 DEF RepoPlaced, Rested
  <1>6. QED
    BY <1>3, <1>4, <1>5, JobMove DEF IInv

LEMMA RestoreBaseProper ==
  ASSUME IInv, Shielded, NEW j \in Jobs, RestoreBase(j)
  PROVE  Proper(j)
  <1> DEFINE s == job[j]
             t == thread[j]
  <1>1. s.pc = "restore" /\ UNCHANGED <<thread, strays, edited>>
    BY DEF RestoreBase
  <1>2. s.pc \in OnBranch
    BY <1>1 DEF OnBranch
  <1>3. /\ s \in Job /\ t \in Thread /\ Informed(s) /\ Threaded(s, t)
        /\ Contents(s, t, j, tip[head], index, work)
        /\ work \in Tree /\ index \in Tree /\ strays = {} /\ lock = j
        /\ head = s.branch /\ s.sha = Base /\ s.from = Own
        /\ head # Own /\ tip[Own] = Base
    BY <1>2, OnIt
  <1>4. /\ tip[head] = IF s.ends = "applied" THEN Patched(j, s.final) ELSE Base
        /\ index = tip[head] /\ work = tip[head]
    BY <1>1, <1>3 DEF Contents, Published
  <1>5. s.ends \in {"applied", "failed"}
    BY <1>3 DEF Informed
  <1>6. Accepts(Git("checkout", s.from))
    <2>1. Exists(Own)
      BY <1>3, TreesKnown DEF Exists
    <2>2. Switchable(Own)
      BY <1>4, <2>1 DEF Switchable
    <2>3. QED
      BY <1>3, <2>2 DEF Accepts, Git
  <1>7. ASSUME Effect(Git("checkout", s.from))
        PROVE  tip' = tip /\ head' = Own /\ index' = Base /\ work' = Base
    <2>1. /\ tip' = tip /\ head' = Own
          /\ index' = [f \in Files |-> IF Kept(Own, f) THEN index[f] ELSE tip[Own][f]]
          /\ work' = [f \in Files |-> IF Kept(Own, f) THEN work[f] ELSE tip[Own][f]]
      BY <1>3, <1>7 DEF Effect, Git
    <2>2. \A f \in Files : tip[Own][f] = {}
      BY <1>3 DEF Base
    <2>3. \A f \in Files : Kept(Own, f) => index[f] = {} /\ work[f] = {}
      BY <1>4, <2>2 DEF Kept
    <2>4. QED
      BY <2>1, <2>2, <2>3 DEF Base
  <1>8. ASSUME s.ends = "failed", Effect(Git("checkout", s.from)), GoTo(j, "delete"), UNCHANGED lock
        PROVE  Proper(j)
    <2> DEFINE s2 == [s EXCEPT !.pc = "delete"]
    <2>1. /\ s2 \in Job /\ s2.pc = "delete" /\ s2.final = s.final
          /\ s2.sha = s.sha /\ s2.from = s.from /\ s2.branch = s.branch /\ s2.ends = s.ends
          /\ s2.read = s.read
      BY <1>3, Fields DEF Pcs
    <2>2. Goes(j, s2, t)
      BY <1>1, <1>8, ThreadKept DEF Goes, Go, GoTo
    <2> HIDE DEF s2
    <2>3. Informed(s2)
      BY <1>2, <1>3, <1>8, <2>1 DEF Informed, Holding, Rechecking, OnBranch
    <2>4. Threaded(s2, t)
      <3>1. /\ t.pc \in Resting /\ t.due = {} /\ t.written \subseteq s.final
            /\ \A f \in t.written : s2.read[f] = {}
        BY <1>1, <1>3, <2>1 DEF Threaded, Resting
      <3>2. QED
        BY <2>1, <3>1 DEF Threaded, Early, Rechecking, Resting
    <2>5. s2.pc \in Holding
      BY <2>1 DEF Holding
    <2>6. Fits(j, s2, t)
      BY <1>3, <1>8, <2>1, <2>3, <2>4, <2>5 DEF Fits
    <2>7. tip[s2.branch] = Base
      BY <1>3, <1>4, <1>8, <2>1
    <2>8. IInv'
      BY <1>2, <1>7, <1>8, <2>1, <2>2, <2>6, <2>7, LeaveMove
    <2>9. Turn(s, s2)
      BY <1>1, <1>8, <2>1 DEF Turn, Shows, Published, Terminal
    <2>10. QED
      BY <2>2, <2>8, <2>9, Gone DEF Proper
  <1>9. ASSUME s.ends = "applied", Effect(Git("checkout", s.from)), End(j, "applied")
        PROVE  Proper(j)
    <2> DEFINE s2 == [s EXCEPT !.pc = "applied"]
    <2>1. /\ s2 \in Job /\ s2.pc = "applied" /\ s2.final = s.final
          /\ s2.sha = s.sha /\ s2.from = s.from /\ s2.branch = s.branch /\ s2.ends = s.ends
          /\ s2.read = s.read
      BY <1>3, Fields DEF Pcs, Terminal
    <2>2. Goes(j, s2, t) /\ lock' = NoJob
      BY <1>1, <1>3, <1>9, ThreadKept DEF Goes, Go, GoTo, End, Release
    <2> HIDE DEF s2
    <2>3. Informed(s2)
      BY <1>2, <1>3, <1>9, <2>1 DEF Informed, Holding, Rechecking, OnBranch
    <2>4. Threaded(s2, t)
      <3>1. /\ t.pc \in Resting /\ t.due = {} /\ t.written \subseteq s.final
            /\ \A f \in t.written : s2.read[f] = {}
        BY <1>1, <1>3, <2>1 DEF Threaded, Resting
      <3>2. QED
        BY <2>1, <3>1 DEF Threaded, Early, Rechecking, Resting
    <2>5. s2.pc \notin Holding /\ NoJob # j
      BY <2>1, EnvironmentAssumption DEF Holding, Rechecking, OnBranch
    <2>6. Fits(j, s2, t)
      BY <1>3, <2>1, <2>2, <2>3, <2>4, <2>5 DEF Fits
    <2>7. tip[s2.branch] = Patched(j, s2.final)
      BY <1>3, <1>4, <1>9, <2>1
    <2>8. IInv'
      BY <1>2, <1>7, <1>9, <2>1, <2>2, <2>6, <2>7, LeaveMove
    <2>9. Turn(s, s2)
      BY <1>1, <1>9, <2>1 DEF Turn, Shows, Published, Terminal
    <2>10. QED
      BY <2>2, <2>8, <2>9, Gone DEF Proper
  <1>10. /\ strays = {} /\ Ending(s) = s.ends
         /\ s.ends = "failed" => tip[s.branch] = s.sha
    BY <1>3, <1>4, <1>5, CancelledOnce DEF IInv, Shielded
  <1>11. QED
    <2>1. /\ Effect(Git("checkout", s.from))
          /\ IF s.ends = "failed" /\ tip[s.branch] = s.sha
             THEN GoTo(j, "delete") /\ UNCHANGED lock ELSE End(j, s.ends)
      BY <1>6, <1>10 DEF RestoreBase, RunGit
    <2>2. CASE s.ends = "failed"
      BY <1>8, <1>10, <2>1, <2>2
    <2>3. CASE s.ends = "applied"
      BY <1>9, <2>1, <2>3
    <2>4. QED
      BY <1>5, <2>2, <2>3

LEMMA DeleteBranchProper ==
  ASSUME IInv, Shielded, NEW j \in Jobs, DeleteBranch(j)
  PROVE  Proper(j)
  <1> DEFINE s == job[j]
             t == thread[j]
             s2 == [s EXCEPT !.pc = "failed"]
  <1>1. s.pc = "delete" /\ UNCHANGED <<thread, strays, edited>>
    BY DEF DeleteBranch
  <1>2. /\ s \in Job /\ t \in Thread /\ Informed(s) /\ Threaded(s, t) /\ strays = {}
        /\ s.branch \in Branches
    BY JobsDistinct DEF IInv, JobsPlaced, Quiet
  <1>3. s.ends = "failed" /\ s.branch # Own /\ tip[s.branch] = Base
    BY <1>1, <1>2 DEF Informed, IInv, RepoPlaced
  <1>4. lock = j /\ Rested /\ tip[Own] = Base
    BY <1>1, Restful
  <1>5. Accepts(Git("delete", s.branch))
    BY <1>3, <1>4, TreesKnown DEF Accepts, Git, Exists, Rested
  <1>6. Effect(Git("delete", s.branch)) /\ End(j, "failed")
    BY <1>1, <1>2, <1>3, <1>5, CancelledOnce DEF DeleteBranch, RunGit, IInv, Shielded
  <1>7. /\ tip' = [tip EXCEPT ![s.branch] = NoCommit]
        /\ head' = head /\ index' = index /\ work' = work
    BY <1>6 DEF Effect, Git
  <1>8. /\ s2 \in Job /\ s2.pc = "failed" /\ s2.ends = s.ends /\ s2.final = s.final
        /\ s2.read = s.read
    BY <1>2, Fields DEF Pcs, Terminal
  <1>9. Goes(j, s2, t) /\ lock' = NoJob
    BY <1>1, <1>4, <1>6, ThreadKept DEF Goes, Go, GoTo, End, Release
  <1> HIDE DEF s2
  <1>10. Informed(s2)
    BY <1>2, <1>3, <1>8 DEF Informed, Holding, Rechecking, OnBranch
  <1>11. Threaded(s2, t)
    <2>1. /\ t.pc \in Resting /\ t.due = {} /\ t.written \subseteq s.final
          /\ \A f \in t.written : s2.read[f] = {}
      BY <1>1, <1>2, <1>8 DEF Threaded, Resting
    <2>2. QED
      BY <1>8, <2>1 DEF Threaded, Early, Rechecking, Resting
  <1>12. s2.pc \notin Holding /\ NoJob # j
    BY <1>8, EnvironmentAssumption DEF Holding, Rechecking, OnBranch
  <1>13. Fits(j, s2, t)
    BY <1>2, <1>4, <1>8, <1>9, <1>10, <1>11, <1>12 DEF Fits
  <1>14. /\ job'[j] = s2 /\ thread'[j] = t
         /\ \A k \in Jobs \ {j} : job'[k] = job[k] /\ thread'[k] = thread[k]
    BY <1>9, Gone
  <1>15. /\ tip' \in [Branches -> Tree \union {NoCommit}] /\ tip'[s.branch] = NoCommit
         /\ \A b \in Branches \ {s.branch} : tip'[b] = tip[b]
    BY <1>2, <1>7 DEF IInv, TypeOK
  <1>16. tip'[Own] = Base
    BY <1>3, <1>4, <1>15, BranchesKnown
  <1>17. \A k \in Jobs : job'[k].pc \notin Holding
    <2>1. job[j].pc \in Holding
      BY <1>1 DEF Holding
    <2>2. QED
      BY <1>12, <1>14, <2>1, OneHolder
  <1>18. TypeOK'
    <2>1. Exists(head)'
      BY <1>4, <1>7, <1>16, TreesKnown DEF Exists, Rested
    <2>2. QED
      BY <1>7, <1>9, <1>13, <1>15, <2>1, JobMove DEF IInv, TypeOK, Goes
  <1>19. Tips'
    <2>1. ASSUME NEW k \in Jobs, job'[k].pc = "applied"
          PROVE  tip'[job'[k].branch] = Patched(k, job'[k].final)
      <3>1. k # j
        BY <1>8, <1>14, <2>1
      <3>2. job'[k] = job[k] /\ tip[job[k].branch] = Patched(k, job[k].final)
        BY <1>14, <2>1, <3>1 DEF IInv, Tips
      <3>3. job[k].final # {} /\ job[k].final \in SUBSET Files /\ job[k].branch \in Branches
        BY <2>1, <3>2, JobsDistinct DEF IInv, JobsPlaced, Informed
      <3>4. tip[job[k].branch] # Base
        BY <3>2, <3>3, PatchedSome
      <3>5. QED
        BY <1>3, <1>15, <3>2, <3>3, <3>4
    <2>2. ASSUME NEW b \in Branches \ {Own}, Exists(b)'
          PROVE  \E k \in Jobs : job'[k].branch = b
                                 /\ job'[k].pc \in OnBranch \union {"delete", "applied"}
      <3>1. b # s.branch /\ Exists(b)
        BY <1>15, <2>2 DEF Exists
      <3>2. PICK k \in Jobs : job[k].branch = b /\ job[k].pc \in OnBranch \union {"delete", "applied"}
        BY <3>1 DEF IInv, Tips
      <3>3. k # j
        BY <3>1, <3>2
      <3>4. QED
        BY <1>14, <3>2, <3>3
    <2>3. QED
      BY <1>16, <2>1, <2>2 DEF Tips
  <1>20. RepoPlaced'
    <2>1. \A k \in Jobs : job'[k].pc \notin OnBranch \union {"create", "delete"}
      BY <1>17 DEF Holding, Rechecking
    <2>2. Rested'
      BY <1>4, <1>7 DEF Rested
    <2>3. QED
      BY <2>1, <2>2 DEF RepoPlaced
  <1>21. IInv'
    BY <1>9, <1>13, <1>18, <1>19, <1>20, JobMove DEF IInv
  <1>22. Turn(s, s2)
    BY <1>1, <1>8 DEF Turn, Shows, Published, Terminal
  <1>23. QED
    BY <1>14, <1>21, <1>22 DEF Proper

-----------------------------------------------------------------------------
(* The invariant, and what follows from it. *)

LEMMA InitInv ==
  ASSUME Init
  PROVE  IInv
  <1>1. /\ head = Own /\ index = Base /\ work = Base /\ tip[Own] = Base
        /\ \A b \in Branches \ {Own} : tip[b] = NoCommit
    BY BranchesKnown DEF Init, Base
  <1>2. \A j \in Jobs : job[j] = NewJob /\ thread[j] = NoThread
    BY DEF Init
  <1>3. NewJob \in Job /\ NoThread \in Thread /\ Informed(NewJob) /\ Threaded(NewJob, NoThread)
    <2>1. NewJob \in Job
      <3>1. 0 \in 0 .. MaxCancels
        BY EnvironmentAssumption
      <3>2. [f \in Files |-> {}] \in [Files -> Content]
        BY DEF Content
      <3>3. QED
        BY <3>1, <3>2, BranchesKnown DEF NewJob, Job, Terminal
    <2>2. NoThread \in Thread
      BY DEF NoThread, Thread
    <2>3. Informed(NewJob)
      BY DEF NewJob, Informed, Holding, Rechecking, OnBranch
    <2>4. Threaded(NewJob, NoThread)
      BY Unthreaded DEF NewJob, Early
    <2>5. QED
      BY <2>1, <2>2, <2>3, <2>4
  <1>4. TypeOK
    <2>1. Base \in Tree
      BY TreesKnown
    <2>2. tip \in [Branches -> Tree \union {NoCommit}]
      BY <2>1 DEF Init, Base
    <2>3. head \in Branches /\ Exists(head)
      BY <1>1, <2>1, BranchesKnown, TreesKnown DEF Exists
    <2>4. edited \in [{} -> [file : Files, inWindow : BOOLEAN]]
      BY DEF Init
    <2>5. edited \in UNION {[U -> [file : Files, inWindow : BOOLEAN]] : U \in SUBSET Edits}
      BY <2>4
    <2>6. job \in [Jobs -> Job] /\ thread \in [Jobs -> Thread]
      BY <1>3 DEF Init
    <2>7. QED
      BY <1>1, <2>1, <2>2, <2>3, <2>5, <2>6 DEF Init, TypeOK
  <1>5. Quiet
    BY DEF Init, Quiet
  <1>6. \A j \in Jobs : job[j].pc = "clean0"
    BY <1>2 DEF NewJob
  <1>7. LockHeld
    BY <1>6, EnvironmentAssumption DEF Init, LockHeld, Holding, Rechecking, OnBranch
  <1>8. JobsPlaced
    BY <1>2, <1>3 DEF JobsPlaced
  <1>9. Tips
    BY <1>1, <1>6 DEF Tips, Exists
  <1>10. RepoPlaced
    BY <1>1, <1>6 DEF RepoPlaced, Rested, OnBranch
  <1>11. QED
    BY <1>4, <1>5, <1>7, <1>8, <1>9, <1>10 DEF IInv

LEMMA NextProper ==
  ASSUME Alone, Shielded, IInv, Next
  PROVE  \E j \in Jobs : Proper(j)
  <1>1. ~Stray /\ ~UserStep
    BY DEF Alone, IInv, Quiet, Stray, UserStep, UserStage, UserCommit, UserSwitch
  <1>2. ASSUME NEW j \in Jobs, JobStep(j)
        PROVE  Proper(j)
    BY <1>2, StartProper, ReadProper, GenerateProper, SafetyNetProper, AcquireProper,
       RecheckProper, PickNameProper, CreateProper, AppliedProper, AddProper,
       CommitFixesProper, VerifyProper, UnstageProper, RestoreBaseProper,
       DeleteBranchProper DEF JobStep
  <1>3. ASSUME NEW j \in Jobs, ThreadStep(j)
        PROVE  Proper(j)
    BY <1>3, CheckProper, WriteProper, UndoProper, PutBackProper DEF ThreadStep
  <1>4. ASSUME NEW j \in Jobs, Cancel(j)
        PROVE  Proper(j)
    BY <1>4, CancelProper
  <1>5. QED
    BY <1>1, <1>2, <1>3, <1>4 DEF Next

LEMMA StutterInv ==
  ASSUME IInv, UNCHANGED vars
  PROVE  IInv'
  <1>1. /\ tip' = tip /\ head' = head /\ index' = index /\ work' = work /\ lock' = lock
        /\ job' = job /\ thread' = thread /\ strays' = strays /\ edited' = edited
    BY DEF vars, repo
  <1>2. TypeOK' /\ Quiet' /\ LockHeld' /\ JobsPlaced'
    BY <1>1 DEF IInv, TypeOK, Exists, Quiet, LockHeld, JobsPlaced
  <1>3. Tips'
    BY <1>1 DEF IInv, Tips, Exists
  <1>4. RepoPlaced'
    BY <1>1 DEF IInv, RepoPlaced, Rested, Working, Exists
  <1>5. QED
    BY <1>2, <1>3, <1>4 DEF IInv

\* The repository, the lock, the threads and every job are where IInv has them.
THEOREM InvCorrect ==
  ASSUME Alone, Shielded
  PROVE  Spec => []IInv
  <1>1. Init => IInv
    BY InitInv
  <1>2. IInv /\ [Next]_vars => IInv'
    BY NextProper, StutterInv DEF Proper
  <1>3. QED
    BY <1>1, <1>2, PTL DEF Spec

\* A branch is empty, or holds the fixes of one job, which shows them.
LEMMA OnBranches ==
  ASSUME IInv, NEW b \in Branches, Exists(b)
  PROVE  \/ tip[b] = Base
         \/ \E k \in Jobs : /\ Shows(job[k]) /\ job[k].branch = b
                            /\ tip[b] = Patched(k, job[k].final)
  <1>1. CASE b = Own
    BY <1>1 DEF IInv, Tips
  <1>2. CASE b # Own
    <2>1. PICK k \in Jobs : job[k].branch = b /\ job[k].pc \in OnBranch \union {"delete", "applied"}
      BY <1>2 DEF IInv, Tips
    <2>2. CASE job[k].pc = "applied"
      BY <2>1, <2>2 DEF IInv, Tips, Shows
    <2>3. CASE job[k].pc = "delete"
      BY <2>1, <2>3 DEF IInv, RepoPlaced
    <2>4. CASE job[k].pc \in OnBranch
      <3>1. Working(job[k], thread[k], k)
        BY <2>4, Holder
      <3>2. tip[b] = IF Published(job[k]) THEN Patched(k, job[k].final) ELSE Base
        BY <2>1, <3>1 DEF Working, Contents
      <3>3. QED
        BY <2>1, <3>2 DEF Shows
    <2>5. QED
      BY <2>1, <2>2, <2>3, <2>4
  <1>3. QED
    BY <1>1, <1>2

\* A job that shows its fixes has all of them on its branch.
LEMMA ShownThere ==
  ASSUME IInv, NEW j \in Jobs, Shows(job[j])
  PROVE  /\ job[j].branch \in Branches /\ Exists(job[j].branch)
         /\ tip[job[j].branch] = Patched(j, job[j].final)
         /\ job[j].final \in SUBSET Files /\ job[j].final # {}
  <1>1. job[j].branch \in Branches /\ job[j].final \in SUBSET Files
    BY JobsDistinct DEF IInv
  <1>2. job[j].pc = "applied" \/ job[j].pc \in OnBranch
    BY DEF Shows, Published, OnBranch
  <1>3. job[j].final # {}
    BY <1>2 DEF IInv, JobsPlaced, Informed, Holding
  <1>4. tip[job[j].branch] = Patched(j, job[j].final)
    <2>1. CASE job[j].pc = "applied"
      BY <2>1 DEF IInv, Tips
    <2>2. CASE job[j].pc # "applied"
      <3>1. Published(job[j])
        BY <2>2 DEF Shows
      <3>2. Working(job[j], thread[j], j)
        BY <1>2, <2>2, Holder
      <3>3. QED
        BY <3>1, <3>2 DEF Working, Contents
    <2>3. QED
      BY <2>1, <2>2
  <1>5. QED
    BY <1>1, <1>3, <1>4, TreesKnown DEF Exists

\* The fixes of a job in any branch are all of its plan, or none.
LEMMA FixesShown ==
  ASSUME IInv, NEW j \in Jobs
  PROVE  FixesOf(j) = IF Shows(job[j]) THEN job[j].final ELSE {}
  <1>1. ASSUME NEW f \in FixesOf(j)
        PROVE  Shows(job[j]) /\ f \in job[j].final
    <2>1. PICK b \in Branches : Exists(b) /\ j \in tip[b][f]
      BY <1>1 DEF FixesOf
    <2>2. f \in Files
      BY <1>1 DEF FixesOf
    <2>3. tip[b] # Base
      BY <2>1, <2>2 DEF Base
    <2>4. PICK k \in Jobs : Shows(job[k]) /\ tip[b] = Patched(k, job[k].final)
      BY <2>1, <2>3, OnBranches
    <2>5. f \in job[k].final /\ j = k
      BY <2>1, <2>2, <2>4 DEF Patched
    <2>6. QED
      BY <2>4, <2>5
  <1>2. ASSUME Shows(job[j]), NEW f \in job[j].final
        PROVE  f \in FixesOf(j)
    <2>1. /\ job[j].branch \in Branches /\ Exists(job[j].branch) /\ f \in Files
          /\ tip[job[j].branch] = Patched(j, job[j].final)
      BY <1>2, ShownThere
    <2>2. j \in tip[job[j].branch][f]
      BY <1>2, <2>1 DEF Patched
    <2>3. QED
      BY <2>1, <2>2 DEF FixesOf
  <1>3. QED
    BY <1>1, <1>2

\* No branch has fixes of two jobs.
LEMMA BranchesUnmixed ==
  ASSUME IInv
  PROVE  OneJobPerBranch
  <1> SUFFICES ASSUME NEW b \in Branches \ {Own}, Exists(b)
               PROVE  Cardinality(UNION {tip[b][f] : f \in Files} \intersect Jobs) <= 1
    BY DEF OneJobPerBranch
  <1> DEFINE mixed == UNION {tip[b][f] : f \in Files} \intersect Jobs
  <1>1. ASSUME tip[b] = Base
        PROVE  Cardinality(mixed) <= 1
    <2>1. mixed = {}
      BY <1>1 DEF Base
    <2> HIDE DEF mixed
    <2>2. QED
      BY <2>1, FS_EmptySet
  <1>2. ASSUME NEW k \in Jobs, tip[b] = Patched(k, job[k].final)
        PROVE  Cardinality(mixed) <= 1
    <2>1. mixed \subseteq {k}
      BY <1>2 DEF Patched
    <2>2. IsFiniteSet({k}) /\ Cardinality({k}) = 1
      BY FS_Singleton
    <2>3. Cardinality(mixed) <= Cardinality({k})
      BY <2>1, <2>2, FS_Subset
    <2>4. QED
      BY <2>2, <2>3
  <1>3. QED
    BY <1>1, <1>2, OnBranches

LEMMA RestoredInv ==
  ASSUME IInv
  PROVE  RepositoryRestored
  <1>1. TypeOK /\ OneJobPerBranch
    BY BranchesUnmixed DEF IInv
  <1>2. ASSUME lock = NoJob
        PROVE  /\ Rested /\ tip[Own] = Base
               /\ \A b \in Branches : b # Own /\ Exists(b) => tip[b] # tip[Own]
    <2>1. \A j \in Jobs : job[j].pc \notin Holding
      BY <1>2, EnvironmentAssumption DEF IInv, LockHeld
    <2>2. Rested /\ tip[Own] = Base
      BY <2>1 DEF IInv, RepoPlaced, Tips, Holding
    <2>3. ASSUME NEW b \in Branches, b # Own, Exists(b)
          PROVE  tip[b] # Base
      <3>1. PICK k \in Jobs : job[k].branch = b
                              /\ job[k].pc \in OnBranch \union {"delete", "applied"}
        BY <2>3 DEF IInv, Tips
      <3>2. job[k].pc = "applied"
        BY <2>1, <3>1 DEF Holding
      <3>3. tip[b] = Patched(k, job[k].final) /\ job[k].final # {} /\ job[k].final \in SUBSET Files
        BY <3>1, <3>2, ShownThere DEF Shows
      <3>4. QED
        BY <3>3, PatchedSome
    <2>4. QED
      BY <2>2, <2>3
  <1>3. QED
    BY <1>1, <1>2 DEF RepositoryRestored, Rested

\* Whichever step fails, and although each job is cancelled, the repository is as
\* the user left it whenever no job holds the lock: on the user's branch, with
\* nothing staged, nothing left in the tree and no fix branch without fixes; and
\* no fix branch mixes two jobs (the finally blocks of _apply_locally).
THEOREM RepositoryIsRestored ==
  ASSUME Alone, Shielded
  PROVE  Spec => []RepositoryRestored
  <1>1. Spec => []IInv
    BY InvCorrect
  <1>2. IInv => RepositoryRestored
    BY RestoredInv
  <1>3. QED
    BY <1>1, <1>2, PTL

-----------------------------------------------------------------------------
(* The promise.                                                            *)

LEMMA ShownNext == IInv' =>
  (\A j \in Jobs : Shows(job[j]) => job[j].final \in SUBSET Files /\ job[j].final # {})'
  <1>1. IInv => \A j \in Jobs : Shows(job[j]) => job[j].final \in SUBSET Files /\ job[j].final # {}
    BY ShownThere
  <1>2. QED
    BY <1>1, PTL

LEMMA FixesNext == IInv' =>
  (\A j \in Jobs : FixesOf(j) = IF Shows(job[j]) THEN job[j].final ELSE {})'
  <1>1. IInv => \A j \in Jobs : FixesOf(j) = IF Shows(job[j]) THEN job[j].final ELSE {}
    BY FixesShown
  <1>2. QED
    BY <1>1, PTL

\* What a job in state s shows, and what it tells.
Shown(s) == IF Shows(s) THEN s.final ELSE {}
Told(s) ==
  CASE s.pc \notin Terminal -> "running"
    [] s.pc = "applied" -> "applied"
    [] OTHER -> "none"

\* A proper turn publishes all fixes, reports, or shows nothing new.
LEMMA TurnPromised ==
  ASSUME NEW s, NEW s2, Turn(s, s2), Shows(s2) => s2.final \in SUBSET Files /\ s2.final # {},
         Shows(s) => s.final # {}
  PROVE  /\ Told(s) = "running"
         /\ \/ Shown(s2) = Shown(s) /\ Told(s2) = Told(s)
            \/ Shown(s) = {} /\ Shown(s2) \in (SUBSET Files) \ {{}} /\ Told(s2) = Told(s)
            \/ Shown(s2) = Shown(s) /\ Told(s2) = IF Shown(s) = {} THEN "none" ELSE "applied"
  <1>1. Told(s) = "running"
    BY DEF Turn, Told, Terminal
  <1>2. CASE s2.pc \in Terminal
    <2>1. s2.pc = "applied" <=> Shows(s)
      BY <1>2 DEF Turn
    <2>2. Shows(s2) <=> Shows(s)
      BY <1>2, <2>1 DEF Shows, Published, Terminal
    <2>3. Shown(s2) = Shown(s)
      BY <2>2 DEF Shown, Turn
    <2>4. Told(s2) = IF Shown(s) = {} THEN "none" ELSE "applied"
      BY <1>2, <2>1 DEF Told, Shown
    <2>5. QED
      BY <1>1, <2>3, <2>4
  <1>3. CASE s2.pc \notin Terminal
    <2>1. Told(s2) = Told(s)
      BY <1>1, <1>3 DEF Told, Terminal
    <2>2. CASE Shows(s)
      BY <1>1, <2>1, <2>2 DEF Turn, Shown
    <2>3. CASE ~Shows(s) /\ ~Shows(s2)
      BY <1>1, <2>1, <2>3 DEF Shown
    <2>4. CASE ~Shows(s) /\ Shows(s2)
      BY <1>1, <2>1, <2>4 DEF Shown
    <2>5. QED
      BY <2>2, <2>3, <2>4
  <1>4. QED
    BY <1>2, <1>3

LEMMA PromiseStep ==
  ASSUME IInv, NEW j \in Jobs, Proper(j)
  PROVE  [Promise!Next]_(Promise!vars)
  <1> DEFINE fixes == [k \in Jobs |-> FixesOf(k)]
             outcome == [k \in Jobs |-> OutcomeOf(k)]
             fixes2 == [k \in Jobs |-> Shown(job'[k])]
             outcome2 == [k \in Jobs |-> Told(job'[k])]
  <1>1. /\ IInv' /\ Turn(job[j], job'[j])
        /\ \A k \in Jobs \ {j} : job'[k] = job[k]
    BY DEF Proper
  <1>2. /\ \A k \in Jobs : fixes[k] = Shown(job[k]) /\ outcome[k] = Told(job[k])
        /\ DOMAIN fixes = Jobs /\ DOMAIN outcome = Jobs
    BY FixesShown DEF OutcomeOf, Shown, Told
  <1>3. fixes' = fixes2
    BY <1>1, FixesNext DEF Shown
  <1>4. outcome' = outcome2
    BY DEF OutcomeOf, Told
  <1>5. Shows(job'[j]) => job'[j].final \in SUBSET Files /\ job'[j].final # {}
    BY <1>1, ShownNext
  <1>6. Shows(job[j]) => job[j].final # {}
    BY ShownThere
  <1> DEFINE old == job[j]
             new == job'[j]
  <1>7. /\ Told(old) = "running"
        /\ \/ Shown(new) = Shown(old) /\ Told(new) = Told(old)
           \/ /\ Shown(old) = {} /\ Shown(new) \in (SUBSET Files) \ {{}}
              /\ Told(new) = Told(old)
           \/ /\ Shown(new) = Shown(old)
              /\ Told(new) = IF Shown(old) = {} THEN "none" ELSE "applied"
    BY <1>1, <1>5, <1>6, TurnPromised
  <1>8. CASE Shown(new) = Shown(old) /\ Told(new) = Told(old)
    <2>1. fixes' = fixes /\ outcome' = outcome
      BY <1>1, <1>2, <1>3, <1>4, <1>8
    <2>2. QED
      BY <2>1 DEF Promise!vars
  <1>9. CASE /\ Shown(old) = {} /\ Shown(new) \in (SUBSET Files) \ {{}}
             /\ Told(new) = Told(old)
    <2>1. fixes' = [fixes EXCEPT ![j] = Shown(new)] /\ outcome' = outcome
      <3>1. \A k \in Jobs : Told(job'[k]) = Told(job[k])
        BY <1>1, <1>9
      <3>2. \A k \in Jobs : Shown(job'[k]) = IF k = j THEN Shown(new) ELSE fixes[k]
        BY <1>1, <1>2
      <3>3. outcome' = outcome
        BY <1>2, <1>4, <3>1
      <3> HIDE DEF fixes, new
      <3>4. fixes2 = [fixes EXCEPT ![j] = Shown(new)]
        BY <1>2, <3>2
      <3>5. QED
        BY <1>3, <3>3, <3>4
    <2>2. outcome[j] = "running" /\ fixes[j] = {}
      BY <1>2, <1>7, <1>9
    <2>3. Promise!Publish(j)
      BY <1>9, <2>1, <2>2 DEF Promise!Publish
    <2>4. QED
      BY <2>3 DEF Promise!Next
  <1>10. CASE /\ Shown(new) = Shown(old)
              /\ Told(new) = IF Shown(old) = {} THEN "none" ELSE "applied"
    <2>1. /\ fixes' = fixes
          /\ outcome' = [outcome EXCEPT ![j] = IF fixes[j] = {} THEN "none" ELSE "applied"]
      <3>1. \A k \in Jobs : Shown(job'[k]) = Shown(job[k])
        BY <1>1, <1>10
      <3>2. \A k \in Jobs : Told(job'[k]) =
              IF k = j THEN IF fixes[j] = {} THEN "none" ELSE "applied" ELSE outcome[k]
        BY <1>1, <1>2, <1>10
      <3>3. fixes' = fixes
        BY <1>2, <1>3, <3>1
      <3> HIDE DEF outcome, fixes
      <3>4. outcome2 = [outcome EXCEPT ![j] = IF fixes[j] = {} THEN "none" ELSE "applied"]
        BY <1>2, <3>2
      <3>5. QED
        BY <1>4, <3>3, <3>4
    <2>2. Promise!Report(j)
      BY <1>2, <1>7, <2>1 DEF Promise!Report
    <2>3. QED
      BY <2>2 DEF Promise!Next
  <1>11. QED
    BY <1>7, <1>8, <1>9, <1>10

LEMMA PromiseInit ==
  ASSUME Init
  PROVE  Promise!Init
  <1>1. \A j \in Jobs : job[j].pc = "clean0" /\ ~Shows(job[j])
    BY DEF Init, NewJob, Shows, Published
  <1>2. \A j \in Jobs : FixesOf(j) = {}
    BY <1>1, InitInv, FixesShown
  <1>3. \A j \in Jobs : OutcomeOf(j) = "running"
    BY <1>1 DEF OutcomeOf, Terminal
  <1>4. QED
    BY <1>2, <1>3 DEF Promise!Init

LEMMA PromiseStutter ==
  ASSUME UNCHANGED vars
  PROVE  UNCHANGED Promise!vars
  <1>1. tip' = tip /\ job' = job
    BY DEF vars, repo
  <1>2. \A j \in Jobs : FixesOf(j)' = FixesOf(j)
    BY <1>1 DEF FixesOf, Exists
  <1>3. \A j \in Jobs : OutcomeOf(j)' = OutcomeOf(j)
    BY <1>1 DEF OutcomeOf
  <1>4. QED
    BY <1>2, <1>3 DEF Promise!vars

\* FixApply implements FixPromise: the fixes of a job appear in the repository at
\* once, in one commit, or not at all, and the job reports them exactly when they
\* did, whichever step fails and although it is cancelled.
THEOREM PromiseIsKept ==
  ASSUME Alone, Shielded
  PROVE  Spec => PromiseKept
  <1>1. Spec => []IInv
    BY InvCorrect
  <1>2. Init => Promise!Init
    BY PromiseInit
  <1>3. IInv /\ [Next]_vars => [Promise!Next]_(Promise!vars)
    BY NextProper, PromiseStep, PromiseStutter
  <1>4. QED
    BY <1>1, <1>2, <1>3, PTL DEF Spec, PromiseKept, Promise!Spec

-----------------------------------------------------------------------------
(* Jobs that share the repository with a user who edits, stages, commits and *)
(* switches branches, with any step failing.  A job is cancelled at most     *)
(* once, so that it leaves no git command behind.                            *)

Once == MaxCancels <= 1

Marked == {"create", "delete"} \union OnBranch
Local == {"add", "commit", "reset"}

\* A job that has a branch is not on the user's own, and the job that works in the
\* tree is on its branch, unless the user switched under it.
Apart ==
  /\ strays = {}
  /\ \A j \in Jobs : job[j].pc \in Marked => job[j].branch # Own
  /\ \A j \in Jobs : job[j].pc \in OnBranch => job[j].moved \/ head = job[j].branch

Steady == TypeOK /\ LockHeld /\ Apart

\* The invariant is kept, no job is moved, and the user's branch is where it was.
Near == Steady' /\ \A k \in Jobs : job'[k].moved = job[k].moved
Calm == Near /\ tip'[Own] = tip[Own]

RepoTyped ==
  /\ tip \in [Branches -> Tree \union {NoCommit}]
  /\ head \in Branches /\ Exists(head)
  /\ index \in Tree /\ work \in Tree

\* The lock as job j goes to state s.
LockMoves(j, s) ==
  \/ UNCHANGED lock /\ (s.pc \in Holding <=> job[j].pc \in Holding)
  \/ lock = NoJob /\ lock' = j /\ s.pc \in Holding
  \/ Release(j) /\ s.pc \notin Holding

\* Job j goes to state s; what it does to the repository leaves it on its branch.
LEMMA SteadyMove ==
  ASSUME Steady, NEW j \in Jobs, NEW s \in Job, Go(j, s), LockMoves(j, s),
         RepoTyped', thread' \in [Jobs -> Thread], strays' = strays, edited' = edited,
         s.moved = job[j].moved,
         job[j].pc \in Holding \/ head' = head,
         s.pc \in Marked => s.branch # Own,
         s.pc \in OnBranch => s.moved \/ head' = s.branch
  PROVE  Near
  <1>1. /\ job' \in [Jobs -> Job] /\ job'[j] = s
        /\ \A k \in Jobs \ {j} : job'[k] = job[k]
    BY DEF Steady, TypeOK, Go
  <1>2. NoJob # j /\ (lock = j <=> job[j].pc \in Holding)
    BY EnvironmentAssumption DEF Steady, LockHeld
  <1>3. /\ lock' \in Jobs \union {NoJob} /\ (lock' = j <=> s.pc \in Holding)
        /\ \A k \in Jobs \ {j} : lock' = k <=> lock = k
    <2>1. CASE UNCHANGED lock /\ (s.pc \in Holding <=> job[j].pc \in Holding)
      BY <1>2, <2>1 DEF Steady, TypeOK
    <2>2. CASE lock = NoJob /\ lock' = j /\ s.pc \in Holding
      BY <2>2, EnvironmentAssumption
    <2>3. CASE Release(j) /\ s.pc \notin Holding
      BY <1>2, <2>3, EnvironmentAssumption DEF Release, Steady, TypeOK
    <2>4. QED
      BY <2>1, <2>2, <2>3 DEF LockMoves
  <1>4. TypeOK'
    BY <1>1, <1>3 DEF Steady, TypeOK, RepoTyped
  <1>5. LockHeld'
    <2>1. \A k \in Jobs : job'[k].pc \in Holding <=> lock' = k
      BY <1>1, <1>3 DEF Steady, LockHeld
    <2>2. QED
      BY <2>1 DEF LockHeld
  <1>6. ASSUME NEW k \in Jobs \ {j}, job'[k].pc \in OnBranch
        PROVE  job[k].pc \in OnBranch /\ head' = head
    <2>1. job[k].pc \in OnBranch /\ lock = k
      BY <1>1, <1>6 DEF Steady, LockHeld, Holding
    <2>2. QED
      BY <1>2, <2>1
  <1>7. Apart'
    <2>1. \A k \in Jobs : job'[k].pc \in Marked => job'[k].branch # Own
      BY <1>1 DEF Steady, Apart
    <2>2. ASSUME NEW k \in Jobs, job'[k].pc \in OnBranch
          PROVE  job'[k].moved \/ head' = job'[k].branch
      <3>1. CASE k = j
        BY <1>1, <2>2, <3>1
      <3>2. CASE k # j
        BY <1>1, <1>6, <2>2, <3>2 DEF Steady, Apart
      <3>3. QED
        BY <3>1, <3>2
    <2>3. QED
      BY <2>1, <2>2 DEF Steady, Apart
  <1>8. \A k \in Jobs : job'[k].moved = job[k].moved
    BY <1>1
  <1>9. QED
    BY <1>4, <1>5, <1>7, <1>8 DEF Near, Steady

\* A step of a job that leaves the repository alone.
LEMMA SteadyStay ==
  ASSUME Steady, NEW j \in Jobs, NEW s \in Job, Go(j, s), LockMoves(j, s),
         UNCHANGED <<repo, strays, edited>>, thread' \in [Jobs -> Thread],
         s.moved = job[j].moved,
         s.pc \in Marked => s.branch # Own,
         s.pc \in OnBranch => job[j].pc \in OnBranch /\ s.branch = job[j].branch
  PROVE  Calm
  <1>1. tip' = tip /\ head' = head /\ index' = index /\ work' = work /\ strays' = strays
    BY DEF repo
  <1>2. RepoTyped'
    BY <1>1 DEF Steady, TypeOK, RepoTyped, Exists
  <1>3. s.pc \in OnBranch => s.moved \/ head' = s.branch
    BY <1>1 DEF Steady, Apart
  <1>4. Near
    BY <1>1, <1>2, <1>3, SteadyMove
  <1>5. QED
    BY <1>1, <1>4 DEF Calm

\* A step that only moves the job on.
LEMMA SteadyGoTo ==
  ASSUME Steady, NEW j \in Jobs, NEW pc \in Pcs, GoTo(j, pc),
         LockMoves(j, [job[j] EXCEPT !.pc = pc]),
         UNCHANGED <<repo, thread, strays, edited>>,
         pc \in OnBranch => job[j].pc \in OnBranch,
         pc \in Marked => job[j].pc \in Marked
  PROVE  Calm
  <1> DEFINE s == [job[j] EXCEPT !.pc = pc]
  <1>1. job[j] \in Job /\ thread' \in [Jobs -> Thread]
    BY DEF Steady, TypeOK
  <1>2. /\ s \in Job /\ s.pc = pc /\ s.branch = job[j].branch /\ s.moved = job[j].moved
    BY <1>1, Fields
  <1>3. Go(j, s) /\ LockMoves(j, s)
    BY DEF GoTo
  <1> HIDE DEF s
  <1>4. s.pc \in Marked => s.branch # Own
    BY <1>2 DEF Steady, Apart
  <1>5. QED
    BY <1>1, <1>2, <1>3, <1>4, SteadyStay

\* What git makes of a well-formed repository.
LEMMA EffectTyped ==
  ASSUME RepoTyped, NEW c \in Command, Accepts(c), Effect(c), c.cmd # "land",
         c.cmd \in {"create", "delete"} => c.arg # Own
  PROVE  /\ RepoTyped'
         /\ (c.cmd = "commit" => head # Own) => tip'[Own] = tip[Own]
         /\ head' = IF c.cmd \in {"create", "checkout"} THEN c.arg ELSE head
  <1>1. tip[head] \in Tree /\ NoCommit \notin Tree /\ Own \in Branches
    BY TreesKnown, BranchesKnown DEF RepoTyped, Exists
  <1>2. CASE c.cmd = "create"
    <2>1. /\ tip' = [tip EXCEPT ![c.arg] = tip[head]] /\ head' = c.arg
          /\ index' = index /\ work' = work
      BY <1>2 DEF Effect
    <2>2. c.arg \in Branches
      BY <1>2 DEF Command
    <2>3. QED
      BY <1>1, <1>2, <2>1, <2>2 DEF RepoTyped, Exists
  <1>3. CASE c.cmd = "checkout"
    <2>1. /\ head' = c.arg /\ tip' = tip
          /\ index' = [f \in Files |-> IF Kept(c.arg, f) THEN index[f] ELSE tip[c.arg][f]]
          /\ work' = [f \in Files |-> IF Kept(c.arg, f) THEN work[f] ELSE tip[c.arg][f]]
      BY <1>3 DEF Effect
    <2>2. c.arg \in Branches /\ Exists(c.arg)
      BY <1>3 DEF Command, Accepts, Switchable
    <2>3. tip[c.arg] \in Tree
      BY <2>2 DEF RepoTyped, Exists
    <2>4. index' \in Tree /\ work' \in Tree
      BY <2>1, <2>3 DEF RepoTyped, Tree
    <2>5. QED
      BY <1>1, <1>3, <2>1, <2>2, <2>4 DEF RepoTyped, Exists
  <1>4. CASE c.cmd = "add"
    <2>1. /\ tip' = tip /\ head' = head /\ work' = work
          /\ index' = [f \in Files |-> IF f \in c.arg THEN work[f] ELSE index[f]]
      BY <1>4 DEF Effect
    <2>2. index' \in Tree
      BY <2>1 DEF RepoTyped, Tree
    <2>3. QED
      BY <1>4, <2>1, <2>2 DEF RepoTyped, Exists
  <1>5. CASE c.cmd = "commit"
    <2>1. tip' = [tip EXCEPT ![head] = index] /\ head' = head /\ index' = index /\ work' = work
      BY <1>5 DEF Effect
    <2>2. QED
      BY <1>1, <1>5, <2>1 DEF RepoTyped, Exists
  <1>6. CASE c.cmd = "reset"
    <2>1. /\ tip' = tip /\ head' = head /\ work' = work
          /\ index' = [f \in Files |-> IF f \in c.arg THEN tip[head][f] ELSE index[f]]
      BY <1>6 DEF Effect
    <2>2. index' \in Tree
      BY <1>1, <2>1 DEF RepoTyped, Tree
    <2>3. QED
      BY <1>6, <2>1, <2>2 DEF RepoTyped, Exists
  <1>7. CASE c.cmd = "delete"
    <2>1. tip' = [tip EXCEPT ![c.arg] = NoCommit] /\ head' = head /\ index' = index /\ work' = work
      BY <1>7 DEF Effect
    <2>2. c.arg \in Branches /\ c.arg # head
      BY <1>7 DEF Command, Accepts
    <2>3. QED
      BY <1>1, <1>7, <2>1, <2>2 DEF RepoTyped, Exists
  <1>8. QED
    BY <1>2, <1>3, <1>4, <1>5, <1>6, <1>7 DEF Command

\* A git command of the job that holds the lock.
LEMMA SteadyGit ==
  ASSUME Steady, NEW j \in Jobs, NEW s \in Job, Go(j, s), LockMoves(j, s),
         NEW c \in Command, c.cmd # "land", Accepts(c), Effect(c),
         strays' = strays, edited' = edited, thread' \in [Jobs -> Thread],
         s.moved = job[j].moved,
         job[j].pc \in Holding, c.cmd \in {"create", "delete"} => c.arg # Own,
         s.pc \in Marked => s.branch # Own,
         s.pc \in OnBranch =>
           \/ c.cmd \in Local /\ job[j].pc \in OnBranch /\ s.branch = job[j].branch
           \/ c.cmd = "create" /\ c.arg = s.branch
  PROVE  Near /\ ((c.cmd = "commit" => head # Own) => Calm)
  <1>1. RepoTyped
    BY DEF Steady, TypeOK, RepoTyped
  <1>2. /\ RepoTyped'
        /\ (c.cmd = "commit" => head # Own) => tip'[Own] = tip[Own]
        /\ head' = IF c.cmd \in {"create", "checkout"} THEN c.arg ELSE head
    BY <1>1, EffectTyped
  <1>3. s.pc \in OnBranch => s.moved \/ head' = s.branch
    BY <1>2 DEF Steady, Apart, Local
  <1>4. Near
    BY <1>2, <1>3, SteadyMove
  <1>5. QED
    BY <1>2, <1>4 DEF Calm

LEMMA SteadyGitGoTo ==
  ASSUME Steady, NEW j \in Jobs, NEW pc \in Pcs, GoTo(j, pc),
         LockMoves(j, [job[j] EXCEPT !.pc = pc]),
         NEW c \in Command, c.cmd # "land", Accepts(c), Effect(c),
         strays' = strays, edited' = edited, thread' \in [Jobs -> Thread],
         job[j].pc \in Holding, c.cmd \in {"create", "delete"} => c.arg # Own,
         pc \in Marked => job[j].branch # Own,
         pc \in OnBranch =>
           \/ c.cmd \in Local /\ job[j].pc \in OnBranch
           \/ c.cmd = "create" /\ c.arg = job[j].branch
  PROVE  Near /\ ((c.cmd = "commit" => head # Own) => Calm)
  <1> DEFINE s == [job[j] EXCEPT !.pc = pc]
  <1>1. job[j] \in Job
    BY DEF Steady, TypeOK
  <1>2. s \in Job /\ s.pc = pc /\ s.branch = job[j].branch /\ s.moved = job[j].moved
    BY <1>1, Fields
  <1>3. Go(j, s) /\ LockMoves(j, s)
    BY DEF GoTo
  <1> HIDE DEF s
  <1>4. QED
    BY <1>2, <1>3, SteadyGit

LEMMA SteadyJob ==
  ASSUME Steady, NEW j \in Jobs
  PROVE  /\ job[j] \in Job /\ thread[j] \in Thread /\ strays = {}
         /\ thread' = thread => thread' \in [Jobs -> Thread]
         /\ job[j].branch \in Branches /\ job[j].final \in SUBSET Files
         /\ job[j].todo \in SUBSET Files /\ thread[j].written \in SUBSET Files
         /\ job[j].cancels \in 0 .. MaxCancels /\ MaxCancels \in Nat
         /\ job[j].pc \in Marked => job[j].branch # Own
         /\ job[j].pc \in OnBranch => job[j].moved \/ (head = job[j].branch /\ head # Own)
  BY EnvironmentAssumption DEF Steady, TypeOK, Job, Thread, Apart, Marked

LEMMA StartCalm ==
  ASSUME Steady, NEW j \in Jobs, Start(j)
  PROVE  Calm
  <1> DEFINE s == job[j]
  <1>1. s \in Job /\ UNCHANGED <<repo, lock, thread, strays, edited>>
    BY SteadyJob DEF Start
  <1>2. thread' \in [Jobs -> Thread]
    BY <1>1, SteadyJob
  <1>3. ASSUME NEW pc \in {"head0", "plan"}, s.pc = "clean0", GoTo(j, pc)
        PROVE  Calm
    <2>1. [s EXCEPT !.pc = pc].pc = pc /\ pc \in Pcs
      BY <1>1 DEF Job, Pcs, Terminal
    <2>2. LockMoves(j, [s EXCEPT !.pc = pc])
      BY <1>1, <1>3, <2>1 DEF LockMoves, Holding, Rechecking, OnBranch
    <2>3. pc \notin Marked /\ pc \notin OnBranch
      BY DEF Marked, OnBranch
    <2>4. QED
      BY <1>1, <1>3, <2>1, <2>2, <2>3, SteadyGoTo
  <1>4. ASSUME s.pc = "head0", Go(j, [s EXCEPT !.pc = "branch0", !.sha = tip[head]])
        PROVE  Calm
    <2> DEFINE s2 == [s EXCEPT !.pc = "branch0", !.sha = tip[head]]
    <2>1. tip[head] \in {NoCommit} \union Tree
      BY DEF Steady, TypeOK
    <2>2. s2 \in Job /\ s2.pc = "branch0" /\ s2.moved = s.moved
      BY <1>1, <2>1 DEF Job
    <2>3. LockMoves(j, s2) /\ s2.pc \notin Marked /\ s2.pc \notin OnBranch
      BY <1>1, <1>4, <2>2 DEF LockMoves, Holding, Rechecking, OnBranch, Marked
    <2>4. QED
      BY <1>1, <1>2, <1>4, <2>2, <2>3, SteadyStay
  <1>5. ASSUME s.pc = "branch0", Go(j, [s EXCEPT !.pc = "read", !.from = head])
        PROVE  Calm
    <2> DEFINE s2 == [s EXCEPT !.pc = "read", !.from = head]
    <2>1. head \in Branches
      BY DEF Steady, TypeOK
    <2>2. s2 \in Job /\ s2.pc = "read" /\ s2.moved = s.moved
      BY <1>1, <2>1 DEF Job
    <2>3. LockMoves(j, s2) /\ s2.pc \notin Marked /\ s2.pc \notin OnBranch
      BY <1>1, <1>5, <2>2 DEF LockMoves, Holding, Rechecking, OnBranch, Marked
    <2>4. QED
      BY <1>1, <1>2, <1>5, <2>2, <2>3, SteadyStay
  <1>6. QED
    BY <1>3, <1>4, <1>5 DEF Start

\* A step before the branch that changes what a job knows.
LEMMA EarlyCalm ==
  ASSUME Steady, NEW j \in Jobs, NEW s \in Job, Go(j, s),
         UNCHANGED <<repo, lock, thread, strays, edited>>,
         s.moved = job[j].moved,
         job[j].pc \in Early, s.pc \in Early \union {"plan", "nothing", "cancelled"}
  PROVE  Calm
  <1>1. LockMoves(j, s) /\ s.pc \notin Marked /\ s.pc \notin OnBranch
    BY DEF LockMoves, Early, Holding, Rechecking, OnBranch, Marked
  <1>2. thread' \in [Jobs -> Thread]
    BY SteadyJob
  <1>3. QED
    BY <1>1, <1>2, SteadyStay

LEMMA ReadCalm ==
  ASSUME Steady, NEW j \in Jobs, Read(j)
  PROVE  Calm
  <1> DEFINE s == job[j]
  <1>1. s \in Job /\ s.pc = "read" /\ UNCHANGED <<repo, lock, thread, strays, edited>>
    BY SteadyJob DEF Read
  <1>2. PICK f \in s.todo :
          \/ Go(j, [s EXCEPT !.todo = s.todo \ {f}, !.read[f] = work[f],
                             !.final = s.final \union {f}])
          \/ Go(j, [s EXCEPT !.todo = s.todo \ {f}])
    BY DEF Read
  <1> DEFINE read2 == [s.read EXCEPT ![f] = work[f]]
             todo2 == s.todo \ {f}
             final2 == s.final \union {f}
  <1>3. read2 \in [Files -> Content] /\ todo2 \in SUBSET Files /\ final2 \in SUBSET Files
    BY <1>1, <1>2 DEF Steady, TypeOK, Job, Tree
  <1>4. \/ Go(j, [s EXCEPT !.todo = todo2, !.read = read2, !.final = final2])
        \/ Go(j, [s EXCEPT !.todo = todo2])
    BY <1>2
  <1> HIDE DEF read2, todo2, final2
  <1>5. /\ [s EXCEPT !.todo = todo2, !.read = read2, !.final = final2] \in Job
        /\ [s EXCEPT !.todo = todo2, !.read = read2, !.final = final2].pc = s.pc
        /\ [s EXCEPT !.todo = todo2, !.read = read2, !.final = final2].moved = s.moved
        /\ [s EXCEPT !.todo = todo2] \in Job /\ [s EXCEPT !.todo = todo2].pc = s.pc
        /\ [s EXCEPT !.todo = todo2].moved = s.moved
    BY <1>1, <1>3 DEF Job
  <1>6. s.pc \in Early
    BY <1>1 DEF Early
  <1>7. QED
    BY <1>1, <1>4, <1>5, <1>6, EarlyCalm

LEMMA GenerateCalm ==
  ASSUME Steady, NEW j \in Jobs, Generate(j)
  PROVE  Calm
  <1> DEFINE s == job[j]
  <1>1. /\ s \in Job /\ s.pc \in {"read", "generate"} /\ s.pc \in Early
        /\ UNCHANGED <<repo, lock, thread, strays, edited>>
    BY SteadyJob DEF Generate, Early
  <1>2. ASSUME NEW pc \in {"generate", "nothing"}, GoTo(j, pc)
        PROVE  Calm
    <2>1. /\ [s EXCEPT !.pc = pc] \in Job /\ [s EXCEPT !.pc = pc].pc = pc
          /\ [s EXCEPT !.pc = pc].moved = s.moved
      BY <1>1 DEF Job, Terminal
    <2>2. QED
      BY <1>1, <1>2, <2>1, EarlyCalm DEF GoTo, Early
  <1>3. ASSUME NEW F \in (SUBSET s.final) \ {{}}, Go(j, [s EXCEPT !.pc = "net", !.final = F])
        PROVE  Calm
    <2>1. F \in SUBSET Files
      BY <1>1 DEF Job
    <2>2. /\ [s EXCEPT !.pc = "net", !.final = F] \in Job
          /\ [s EXCEPT !.pc = "net", !.final = F].pc = "net"
          /\ [s EXCEPT !.pc = "net", !.final = F].moved = s.moved
      BY <1>1, <2>1 DEF Job
    <2>3. QED
      BY <1>1, <1>3, <2>2, EarlyCalm DEF Early
  <1>4. QED
    BY <1>2, <1>3 DEF Generate

LEMMA SafetyNetCalm ==
  ASSUME Steady, NEW j \in Jobs, SafetyNet(j)
  PROVE  Calm
  <1> DEFINE s == job[j]
  <1>1. /\ s \in Job /\ s.pc = "net" /\ s.pc \in Early
        /\ UNCHANGED <<repo, lock, thread, strays, edited>>
    BY SteadyJob DEF SafetyNet, Early
  <1>2. PICK pc \in {"lock", "nothing"} : GoTo(j, pc)
    BY DEF SafetyNet
  <1>3. /\ [s EXCEPT !.pc = pc] \in Job /\ [s EXCEPT !.pc = pc].pc = pc
        /\ [s EXCEPT !.pc = pc].moved = s.moved
    BY <1>1 DEF Job, Terminal
  <1>4. QED
    BY <1>1, <1>2, <1>3, EarlyCalm DEF GoTo, Early

LEMMA AcquireCalm ==
  ASSUME Steady, NEW j \in Jobs, Acquire(j)
  PROVE  Calm
  <1>1. /\ job[j].pc = "lock" /\ lock = NoJob /\ lock' = j /\ GoTo(j, "clean")
        /\ UNCHANGED <<repo, thread, strays, edited>>
    BY DEF Acquire
  <1>2. "clean" \in Pcs /\ "clean" \notin OnBranch /\ "clean" \notin Marked /\ "clean" \in Holding
    BY DEF Pcs, OnBranch, Marked, Holding, Rechecking
  <1>3. [job[j] EXCEPT !.pc = "clean"].pc = "clean"
    BY SteadyJob DEF Job
  <1>4. QED
    BY <1>1, <1>2, <1>3, SteadyGoTo DEF LockMoves

\* A step that ends a job, or moves it on with the lock.
LEMMA MoveCalm ==
  ASSUME Steady, NEW j \in Jobs, NEW pc \in Pcs,
         UNCHANGED <<repo, thread, strays, edited>>,
         job[j].pc \in Holding,
         \/ GoTo(j, pc) /\ UNCHANGED lock /\ pc \in Holding
         \/ End(j, pc) /\ pc \notin Holding,
         pc \in OnBranch => job[j].pc \in OnBranch,
         pc \in Marked => job[j].pc \in Marked
  PROVE  Calm
  <1>1. [job[j] EXCEPT !.pc = pc].pc = pc
    BY SteadyJob DEF Job
  <1>2. LockMoves(j, [job[j] EXCEPT !.pc = pc]) /\ GoTo(j, pc)
    BY <1>1 DEF LockMoves, End
  <1>3. QED
    BY <1>2, SteadyGoTo

LEMMA RecheckCalm ==
  ASSUME Steady, NEW j \in Jobs, Recheck(j)
  PROVE  Calm
  <1>1. /\ job[j].pc \in {"clean", "head", "branch"} /\ job[j].pc \in Holding
        /\ UNCHANGED <<repo, thread, strays, edited>>
    BY DEF Recheck, After, Holding, Rechecking
  <1>2. PICK pc \in {"head", "branch", "pick", "plan"} :
          \/ GoTo(j, pc) /\ UNCHANGED lock /\ pc \in Holding
          \/ End(j, pc) /\ pc \notin Holding
    <2>1. After[job[j].pc] \in {"head", "branch", "pick"} /\ "plan" \notin Holding
      BY <1>1 DEF After, Holding, Rechecking, OnBranch
    <2>2. After[job[j].pc] \in Holding
      BY <2>1 DEF Holding, Rechecking
    <2>3. CASE GoTo(j, After[job[j].pc]) /\ UNCHANGED lock
      BY <2>1, <2>2, <2>3
    <2>4. CASE End(j, "plan")
      BY <2>1, <2>4
    <2>5. QED
      BY <2>3, <2>4 DEF Recheck
  <1>3. pc \in Pcs /\ pc \notin OnBranch /\ pc \notin Marked
    BY DEF Pcs, Terminal, OnBranch, Marked
  <1>4. QED
    BY <1>1, <1>2, <1>3, MoveCalm

LEMMA PickNameCalm ==
  ASSUME Steady, NEW j \in Jobs, PickName(j)
  PROVE  Calm
  <1> DEFINE s == job[j]
  <1>1. s \in Job /\ s.pc = "pick" /\ UNCHANGED <<repo, lock, thread, strays, edited>>
    BY SteadyJob DEF PickName
  <1>2. PICK b \in Branches \ {Own} : Go(j, [s EXCEPT !.pc = "create", !.branch = b])
    BY DEF PickName
  <1> DEFINE s2 == [s EXCEPT !.pc = "create", !.branch = b]
  <1>3. s2 \in Job /\ s2.pc = "create" /\ s2.branch = b /\ s2.moved = s.moved
    BY <1>1, <1>2 DEF Job
  <1>4. LockMoves(j, s2) /\ s2.pc \notin OnBranch /\ thread' \in [Jobs -> Thread]
    BY <1>1, <1>3, SteadyJob DEF LockMoves, Holding, Rechecking, OnBranch
  <1>5. QED
    BY <1>1, <1>2, <1>3, <1>4, SteadyStay

LEMMA CreateCalm ==
  ASSUME Steady, NEW j \in Jobs, Create(j)
  PROVE  Calm
  <1> DEFINE s == job[j]
             c == Git("create", s.branch)
  <1>1. /\ s \in Job /\ s.pc = "create" /\ UNCHANGED <<strays, edited>>
        /\ s.branch \in Branches /\ s.branch # Own /\ s.pc \in Holding /\ s.pc \in Marked
    BY SteadyJob DEF Create, Marked, Holding, Rechecking
  <1>2. ASSUME Accepts(c), Effect(c), GoTo(j, "apply"), UNCHANGED lock,
               SetThread(j, Writer(s.final))
        PROVE  Calm
    <2>1. c \in Command /\ c.cmd = "create" /\ c.arg = s.branch
      BY <1>1 DEF Command, Git
    <2>2. thread' \in [Jobs -> Thread]
      <3>1. Writer(s.final) \in Thread
        BY SteadyJob DEF Thread, Writer
      <3>2. QED
        BY <1>2, <3>1 DEF SetThread, Steady, TypeOK
    <2>3. "apply" \in Pcs /\ "apply" \in Holding
      BY DEF Pcs, Holding, OnBranch
    <2>4. LockMoves(j, [s EXCEPT !.pc = "apply"])
      <3>1. [s EXCEPT !.pc = "apply"].pc = "apply"
        BY <1>1 DEF Job
      <3>2. QED
        BY <1>1, <1>2, <2>3, <3>1 DEF LockMoves
    <2> HIDE DEF c
    <2>5. QED
      BY <1>1, <1>2, <2>1, <2>2, <2>3, <2>4, SteadyGitGoTo
  <1>3. ASSUME UNCHANGED repo, End(j, "failed"), UNCHANGED thread
        PROVE  Calm
    <2>1. "failed" \in Pcs /\ "failed" \notin Holding /\ "failed" \notin Marked
          /\ "failed" \notin OnBranch
      BY DEF Pcs, Terminal, Holding, Rechecking, OnBranch, Marked
    <2>2. QED
      BY <1>1, <1>3, <2>1, MoveCalm
  <1>4. QED
    BY <1>2, <1>3 DEF Create, RunGit

\* The threads only touch the tree on disk.
LEMMA ThreadCalm ==
  ASSUME Steady, NEW j \in Jobs, NEW t \in Thread, thread' = [thread EXCEPT ![j] = t],
         work' \in Tree, UNCHANGED <<tip, head, index, lock, job, strays, edited>>
  PROVE  Calm
  <1>1. TypeOK'
    BY DEF Steady, TypeOK, Exists
  <1>2. LockHeld' /\ Apart'
    BY DEF Steady, LockHeld, Apart
  <1>3. QED
    BY <1>1, <1>2 DEF Calm, Near, Steady

LEMMA CheckCalm ==
  ASSUME Steady, NEW j \in Jobs, Check(j)
  PROVE  Calm
  <1> DEFINE t == thread[j]
             same == {f \in t.todo : work[f] = job[j].read[f]}
             ok == same = t.todo
             t2 == [t EXCEPT !.pc = "write", !.todo = same, !.ok = ok]
  <1>1. SetThread(j, t2) /\ UNCHANGED <<repo, lock, job, strays, edited>> /\ t \in Thread
    BY SteadyJob DEF Check
  <1>2. same \in SUBSET Files /\ ok \in BOOLEAN
    BY <1>1 DEF Thread
  <1> HIDE DEF same, ok
  <1>3. t2 \in Thread
    BY <1>1, <1>2 DEF Thread
  <1>4. work' \in Tree /\ UNCHANGED <<tip, head, index>>
    BY <1>1 DEF repo, Steady, TypeOK
  <1>5. QED
    BY <1>1, <1>3, <1>4, ThreadCalm DEF SetThread

\* What a thread writes is a content: what was read, or that with the fix.
LEMMA WrittenTyped ==
  ASSUME Steady, NEW j \in Jobs, NEW f \in Files
  PROVE  /\ [work EXCEPT ![f] = Fixed(j, f)] \in Tree
         /\ [work EXCEPT ![f] = job[j].read[f]] \in Tree
  <1>1. work \in Tree /\ job[j].read[f] \in Content
    BY DEF Steady, TypeOK, Job
  <1>2. Fixed(j, f) \in Content
    BY <1>1 DEF Fixed, Content
  <1>3. QED
    BY <1>1, <1>2 DEF Tree

LEMMA WriteCalm ==
  ASSUME Steady, NEW j \in Jobs, Write(j)
  PROVE  Calm
  <1> DEFINE t == thread[j]
  <1>1. t \in Thread /\ work \in Tree /\ UNCHANGED <<tip, head, index, lock, job, strays, edited>>
    BY SteadyJob DEF Write, Steady, TypeOK
  <1>2. ASSUME NEW f \in t.todo, work' = [work EXCEPT ![f] = Fixed(j, f)],
               SetThread(j, [t EXCEPT !.todo = t.todo \ {f}, !.written = t.written \union {f}])
        PROVE  Calm
    <2>1. f \in Files /\ t.todo \ {f} \in SUBSET Files /\ t.written \union {f} \in SUBSET Files
      BY <1>1, <1>2 DEF Thread
    <2>2. [t EXCEPT !.todo = t.todo \ {f}, !.written = t.written \union {f}] \in Thread
      BY <1>1, <2>1 DEF Thread
    <2>3. QED
      BY <1>1, <1>2, <2>1, <2>2, WrittenTyped, ThreadCalm DEF SetThread
  <1>3. ASSUME SetThread(j, [t EXCEPT !.pc = "undo", !.todo = t.written, !.ok = FALSE]),
               UNCHANGED work
        PROVE  Calm
    <2>1. [t EXCEPT !.pc = "undo", !.todo = t.written, !.ok = FALSE] \in Thread
      BY <1>1 DEF Thread
    <2>2. QED
      BY <1>1, <1>3, <2>1, ThreadCalm DEF SetThread
  <1>4. ASSUME SetThread(j, [t EXCEPT !.pc = "done"]), UNCHANGED work
        PROVE  Calm
    <2>1. [t EXCEPT !.pc = "done"] \in Thread
      BY <1>1 DEF Thread
    <2>2. QED
      BY <1>1, <1>4, <2>1, ThreadCalm DEF SetThread
  <1>5. QED
    BY <1>2, <1>3, <1>4 DEF Write

LEMMA UndoCalm ==
  ASSUME Steady, NEW j \in Jobs, Undo(j)
  PROVE  Calm
  <1> DEFINE t == thread[j]
  <1>1. /\ t \in Thread /\ work' \in Tree
        /\ UNCHANGED <<tip, head, index, lock, job, strays, edited>>
    BY SteadyJob DEF Undo, repo, Steady, TypeOK
  <1>2. ASSUME NEW f \in t.todo, NEW G \in SUBSET {f},
               SetThread(j, [t EXCEPT !.todo = t.todo \ {f}, !.due = t.due \union G])
        PROVE  Calm
    <2>1. t.todo \ {f} \in SUBSET Files /\ t.due \union G \in SUBSET Files
      BY <1>1, <1>2 DEF Thread
    <2>2. [t EXCEPT !.todo = t.todo \ {f}, !.due = t.due \union G] \in Thread
      BY <1>1, <2>1 DEF Thread
    <2>3. QED
      BY <1>1, <1>2, <2>2, ThreadCalm DEF SetThread
  <1>3. ASSUME SetThread(j, [t EXCEPT !.pc = "done"])
        PROVE  Calm
    <2>1. [t EXCEPT !.pc = "done"] \in Thread
      BY <1>1 DEF Thread
    <2>2. QED
      BY <1>1, <1>3, <2>1, ThreadCalm DEF SetThread
  <1>4. ASSUME NEW f \in t.todo,
               SetThread(j, [t EXCEPT !.todo = t.todo \ {f},
                                      !.due = t.due \union {g \in {f} : work[g] = Fixed(j, g)}])
        PROVE  Calm
    <2>1. {g \in {f} : work[g] = Fixed(j, g)} \in SUBSET {f}
      OBVIOUS
    <2>2. QED
      BY <1>2, <1>4, <2>1
  <1>5. QED
    BY <1>3, <1>4 DEF Undo

LEMMA PutBackCalm ==
  ASSUME Steady, NEW j \in Jobs, PutBack(j)
  PROVE  Calm
  <1> DEFINE t == thread[j]
  <1>1. /\ t \in Thread /\ work \in Tree
        /\ UNCHANGED <<tip, head, index, lock, job, strays, edited>>
    BY SteadyJob DEF PutBack, Steady, TypeOK
  <1>2. PICK f \in t.due :
          \/ /\ work' = [work EXCEPT ![f] = job[j].read[f]]
             /\ SetThread(j, [t EXCEPT !.due = t.due \ {f}, !.written = t.written \ {f}])
          \/ SetThread(j, [t EXCEPT !.due = t.due \ {f}]) /\ UNCHANGED work
    BY DEF PutBack
  <1>3. f \in Files /\ t.due \ {f} \in SUBSET Files /\ t.written \ {f} \in SUBSET Files
    BY <1>1, <1>2 DEF Thread
  <1>4. /\ [t EXCEPT !.due = t.due \ {f}, !.written = t.written \ {f}] \in Thread
        /\ [t EXCEPT !.due = t.due \ {f}] \in Thread
    BY <1>1, <1>3 DEF Thread
  <1>5. work' \in Tree
    BY <1>1, <1>2, <1>3, WrittenTyped
  <1>6. QED
    BY <1>1, <1>2, <1>4, <1>5, ThreadCalm DEF SetThread

\* A step of the job on its branch.
LEMMA BranchCalm ==
  ASSUME Steady, NEW j \in Jobs, NEW s \in Job, Go(j, s),
         UNCHANGED <<repo, lock, strays, edited>>, thread' \in [Jobs -> Thread],
         job[j].pc \in OnBranch, s.pc \in OnBranch,
         s.branch = job[j].branch, s.moved = job[j].moved
  PROVE  Calm
  <1>1. job[j].pc \in Holding /\ s.pc \in Holding /\ LockMoves(j, s) /\ job[j].pc \in Marked
    BY DEF Holding, LockMoves, Marked
  <1>2. QED
    BY <1>1, SteadyJob, SteadyStay

LEMMA HandleCalm ==
  ASSUME Steady, NEW j \in Jobs, NEW s \in Job, Handle(j, s),
         UNCHANGED <<repo, lock, strays, edited>>,
         job[j].pc \in OnBranch, s.branch = job[j].branch, s.moved = job[j].moved
  PROVE  Calm
  <1>1. ASSUME NEW pc \in {"undo", "restore"}, Go(j, [s EXCEPT !.pc = pc]),
               thread' \in [Jobs -> Thread]
        PROVE  Calm
    <2> DEFINE s2 == [s EXCEPT !.pc = pc]
    <2>1. s2 \in Job /\ s2.pc = pc /\ s2.branch = s.branch /\ s2.moved = s.moved
      BY <1>1, Fields DEF Pcs
    <2>2. s2.pc \in OnBranch
      BY <2>1 DEF OnBranch
    <2>3. Go(j, s2)
      BY <1>1
    <2> HIDE DEF s2
    <2>4. QED
      BY <1>1, <2>1, <2>2, <2>3, BranchCalm
  <1>2. CASE thread[j].written = {}
    BY <1>1, <1>2, SteadyJob DEF Handle
  <1>3. CASE thread[j].written # {}
    <2>1. [thread[j] EXCEPT !.pc = "undo", !.todo = thread[j].written] \in Thread
      BY SteadyJob DEF Thread
    <2>2. thread' \in [Jobs -> Thread]
      BY <1>3, <2>1 DEF Handle, SetThread, Steady, TypeOK
    <2>3. QED
      BY <1>1, <1>3, <2>2 DEF Handle
  <1>4. QED
    BY <1>2, <1>3

LEMMA FailCalm ==
  ASSUME Steady, NEW j \in Jobs, Fail(j), UNCHANGED <<repo, lock, strays, edited>>,
         job[j].pc \in OnBranch
  PROVE  Calm
  <1> DEFINE s == [job[j] EXCEPT !.ends = "failed"]
  <1>1. s \in Job /\ s.branch = job[j].branch /\ s.moved = job[j].moved
    BY SteadyJob DEF Job, Terminal
  <1>2. Handle(j, s)
    BY DEF Fail
  <1> HIDE DEF s
  <1>3. QED
    BY <1>1, <1>2, HandleCalm

LEMMA AppliedCalm ==
  ASSUME Steady, NEW j \in Jobs, Applied(j)
  PROVE  Calm
  <1> DEFINE s == job[j]
             t == thread[j]
  <1>1. /\ s \in Job /\ t \in Thread /\ s.pc \in OnBranch
        /\ UNCHANGED <<repo, lock, strays, edited>>
    <2>1. s.pc \in OnBranch /\ UNCHANGED <<repo, lock, strays, edited>>
      BY DEF Applied, OnBranch
    <2>2. QED
      BY <2>1, SteadyJob
  <1>2. ASSUME Go(j, [s EXCEPT !.pc = "add", !.todo = t.written]), UNCHANGED thread
        PROVE  Calm
    <2> DEFINE s2 == [s EXCEPT !.pc = "add", !.todo = t.written]
    <2>1. s2 \in Job /\ s2.pc = "add" /\ s2.branch = s.branch /\ s2.moved = s.moved
      BY <1>1 DEF Job, Thread
    <2>2. s2.pc \in OnBranch /\ thread' \in [Jobs -> Thread] /\ Go(j, s2)
      BY <1>2, <2>1, SteadyJob DEF OnBranch
    <2> HIDE DEF s2
    <2>3. QED
      BY <1>1, <2>1, <2>2, BranchCalm
  <1>3. ASSUME GoTo(j, "rollback"), SetThread(j, [t EXCEPT !.pc = "undo", !.todo = t.written])
        PROVE  Calm
    <2> DEFINE s2 == [s EXCEPT !.pc = "rollback"]
    <2>1. s2 \in Job /\ s2.pc = "rollback" /\ s2.branch = s.branch /\ s2.moved = s.moved
      BY <1>1, Fields DEF Pcs
    <2>2. [t EXCEPT !.pc = "undo", !.todo = t.written] \in Thread
      BY <1>1 DEF Thread
    <2>3. thread' \in [Jobs -> Thread]
      BY <1>3, <2>2 DEF SetThread, Steady, TypeOK
    <2>4. s2.pc \in OnBranch /\ Go(j, s2)
      BY <1>3, <2>1 DEF OnBranch, GoTo
    <2> HIDE DEF s2
    <2>5. QED
      BY <1>1, <2>1, <2>3, <2>4, BranchCalm
  <1>4. ASSUME Fail(j)
        PROVE  Calm
    BY <1>1, <1>4, FailCalm
  <1>5. QED
    BY <1>2, <1>3, <1>4 DEF Applied

LEMMA AddCalm ==
  ASSUME Steady, NEW j \in Jobs, Add(j)
  PROVE  Calm
  <1> DEFINE s == job[j]
  <1>1. /\ s \in Job /\ s.pc = "add" /\ s.pc \in OnBranch /\ s.pc \in Holding
        /\ UNCHANGED <<lock, strays, edited>>
    <2>1. s.pc = "add" /\ s.pc \in OnBranch /\ s.pc \in Holding /\ UNCHANGED <<lock, strays, edited>>
      BY DEF Add, OnBranch, Holding
    <2>2. QED
      BY <2>1, SteadyJob
  <1>2. ASSUME NEW f \in s.todo, Accepts(Git("add", {f})), Effect(Git("add", {f})),
               Go(j, [s EXCEPT !.todo = s.todo \ {f}]), UNCHANGED thread
        PROVE  Calm
    <2> DEFINE c == Git("add", {f})
               left == s.todo \ {f}
               s2 == [s EXCEPT !.todo = left]
    <2>1. c \in Command /\ c.cmd = "add"
      BY <1>1 DEF Command, Git, Job
    <2>2. left \in SUBSET Files /\ Go(j, s2)
      BY <1>1, <1>2 DEF Job
    <2> HIDE DEF left
    <2>3. s2 \in Job /\ s2.pc = "add" /\ s2.branch = s.branch /\ s2.moved = s.moved
      BY <1>1, <2>2 DEF Job
    <2>4. /\ s2.pc \in OnBranch /\ s2.pc \in Holding /\ LockMoves(j, s2)
          /\ thread' \in [Jobs -> Thread]
      BY <1>1, <1>2, <2>3, SteadyJob DEF OnBranch, Holding, LockMoves
    <2>5. Accepts(c) /\ Effect(c) /\ c.cmd \in Local /\ s.branch # Own
      BY <1>1, <1>2, <2>1, SteadyJob DEF Local, Marked
    <2> HIDE DEF c, s2
    <2>6. QED
      BY <1>1, <1>2, <2>1, <2>2, <2>3, <2>4, <2>5, SteadyGit
  <1>3. ASSUME UNCHANGED repo, Fail(j)
        PROVE  Calm
    BY <1>1, <1>3, FailCalm
  <1>4. ASSUME GoTo(j, "commit"), UNCHANGED <<repo, thread>>
        PROVE  Calm
    <2>1. "commit" \in Pcs /\ "commit" \in Holding /\ s.pc \in Marked
      BY <1>1 DEF Pcs, Holding, OnBranch, Marked
    <2>2. QED
      BY <1>1, <1>4, <2>1, MoveCalm
  <1>5. QED
    BY <1>2, <1>3, <1>4 DEF Add, RunGit

\* The commit goes to the user's branch only if the user switched there.
LEMMA CommitFixesCalm ==
  ASSUME Steady, NEW j \in Jobs, CommitFixes(j)
  PROVE  Near /\ (job[j].moved \/ Calm)
  <1> DEFINE s == job[j]
             c == Git("commit", {})
  <1>1. /\ s \in Job /\ s.pc = "commit" /\ s.pc \in OnBranch /\ s.pc \in Holding
        /\ UNCHANGED <<lock, strays, edited>>
    <2>1. /\ s.pc = "commit" /\ s.pc \in OnBranch /\ s.pc \in Holding
          /\ UNCHANGED <<lock, strays, edited>>
      BY DEF CommitFixes, OnBranch, Holding
    <2>2. QED
      BY <2>1, SteadyJob
  <1>2. ASSUME Accepts(c), Effect(c), GoTo(j, "verify"), UNCHANGED thread
        PROVE  Near /\ (job[j].moved \/ Calm)
    <2>1. c \in Command /\ c.cmd = "commit"
      BY DEF Command, Git
    <2>2. /\ "verify" \in Pcs /\ "verify" \in Holding /\ [s EXCEPT !.pc = "verify"].pc = "verify"
          /\ thread' \in [Jobs -> Thread] /\ c.cmd \in Local
      BY <1>1, <1>2, <2>1, SteadyJob DEF Pcs, Holding, OnBranch, Job, Local
    <2>3. LockMoves(j, [s EXCEPT !.pc = "verify"]) /\ s.branch # Own
      BY <1>1, <2>2, SteadyJob DEF LockMoves, Marked
    <2> HIDE DEF c
    <2>4. Near /\ (head # Own => Calm)
      BY <1>1, <1>2, <2>1, <2>2, <2>3, SteadyGitGoTo
    <2>5. QED
      BY <1>1, <2>4, SteadyJob
  <1>3. ASSUME UNCHANGED repo, Fail(j)
        PROVE  Calm
    BY <1>1, <1>3, FailCalm
  <1>4. QED
    BY <1>2, <1>3 DEF CommitFixes, RunGit, Calm

LEMMA VerifyCalm ==
  ASSUME Steady, NEW j \in Jobs, Verify(j)
  PROVE  Calm
  <1>1. /\ job[j].pc \in OnBranch /\ job[j].pc \in Holding /\ job[j].pc \in Marked
        /\ GoTo(j, "restore") /\ UNCHANGED <<repo, lock, thread, strays, edited>>
    BY DEF Verify, OnBranch, Holding, Marked
  <1>2. "restore" \in Pcs /\ "restore" \in Holding
    BY DEF Pcs, Holding, OnBranch
  <1>3. QED
    BY <1>1, <1>2, MoveCalm

LEMMA UnstageCalm ==
  ASSUME Steady, NEW j \in Jobs, Unstage(j)
  PROVE  Calm
  <1> DEFINE s == job[j]
             c == Git("reset", s.final)
  <1>1. /\ s \in Job /\ s.pc \in OnBranch /\ s.pc \in Holding /\ s.pc \in Marked
        /\ UNCHANGED <<lock, thread, strays, edited>>
    <2>1. /\ s.pc \in OnBranch /\ s.pc \in Holding /\ s.pc \in Marked
          /\ UNCHANGED <<lock, thread, strays, edited>>
      BY DEF Unstage, OnBranch, Holding, Marked
    <2>2. QED
      BY <2>1, SteadyJob
  <1>2. ASSUME NEW pc \in {"reset", "restore"}, GoTo(j, pc), UNCHANGED repo
        PROVE  Calm
    <2>1. pc \in Pcs /\ pc \in Holding
      BY DEF Pcs, Holding, OnBranch
    <2>2. QED
      BY <1>1, <1>2, <2>1, MoveCalm
  <1>3. ASSUME Accepts(c), Effect(c), GoTo(j, "restore")
        PROVE  Calm
    <2>1. c \in Command /\ c.cmd = "reset"
      BY <1>1 DEF Command, Git, Job
    <2>2. /\ "restore" \in Pcs /\ "restore" \in Holding
          /\ [s EXCEPT !.pc = "restore"].pc = "restore" /\ thread' \in [Jobs -> Thread]
      BY <1>1, SteadyJob DEF Pcs, Holding, OnBranch, Job
    <2>3. LockMoves(j, [s EXCEPT !.pc = "restore"]) /\ c.cmd \in Local /\ s.branch # Own
      BY <1>1, <2>1, <2>2, SteadyJob DEF LockMoves, Local
    <2> HIDE DEF c
    <2>4. QED
      BY <1>1, <1>3, <2>1, <2>2, <2>3, SteadyGitGoTo
  <1>4. QED
    BY <1>2, <1>3 DEF Unstage, RunGit

LEMMA RestoreBaseCalm ==
  ASSUME Steady, NEW j \in Jobs, RestoreBase(j)
  PROVE  Calm
  <1> DEFINE s == job[j]
             c == Git("checkout", s.from)
             end == Ending(s)
  <1>1. /\ s \in Job /\ s.pc = "restore" /\ s.pc \in OnBranch /\ s.pc \in Holding
        /\ s.branch # Own /\ UNCHANGED <<thread, strays, edited>>
        /\ thread' \in [Jobs -> Thread]
    <2>1. /\ s.pc = "restore" /\ s.pc \in OnBranch /\ s.pc \in Holding
          /\ UNCHANGED <<thread, strays, edited>>
      BY DEF RestoreBase, OnBranch, Holding
    <2>2. QED
      BY <2>1, SteadyJob DEF Marked
  <1>2. /\ end \in Terminal /\ end \in Pcs /\ end \notin Holding
        /\ end \notin Marked /\ end \notin OnBranch
    BY <1>1 DEF Ending, Job, Pcs, Terminal, Holding, Rechecking, OnBranch, Marked
  <1>3. /\ "delete" \in Pcs /\ "delete" \in Holding /\ "delete" \notin OnBranch
        /\ [s EXCEPT !.pc = "delete"].pc = "delete"
        /\ [s EXCEPT !.pc = end].pc = end
    BY <1>1 DEF Pcs, Holding, OnBranch, Job
  <1>4. ASSUME Accepts(c), Effect(c), GoTo(j, "delete"), UNCHANGED lock
        PROVE  Calm
    <2>1. c \in Command /\ c.cmd = "checkout"
      BY <1>1 DEF Command, Git, Job
    <2>2. LockMoves(j, [s EXCEPT !.pc = "delete"])
      BY <1>1, <1>3, <1>4 DEF LockMoves
    <2> HIDE DEF c
    <2>3. QED
      BY <1>1, <1>3, <1>4, <2>1, <2>2, SteadyGitGoTo
  <1>5. ASSUME Accepts(c), Effect(c), End(j, end)
        PROVE  Calm
    <2>1. c \in Command /\ c.cmd = "checkout"
      BY <1>1 DEF Command, Git, Job
    <2>2. LockMoves(j, [s EXCEPT !.pc = end]) /\ GoTo(j, end)
      BY <1>2, <1>3, <1>5 DEF LockMoves, End
    <2> HIDE DEF c
    <2>3. QED
      BY <1>1, <1>2, <1>5, <2>1, <2>2, SteadyGitGoTo
  <1>6. ASSUME UNCHANGED repo, End(j, end)
        PROVE  Calm
    BY <1>1, <1>2, <1>6, MoveCalm
  <1>7. QED
    BY <1>4, <1>5, <1>6 DEF RestoreBase, RunGit

LEMMA DeleteBranchCalm ==
  ASSUME Steady, NEW j \in Jobs, DeleteBranch(j)
  PROVE  Calm
  <1> DEFINE s == job[j]
             c == Git("delete", s.branch)
             end == Ending(s)
  <1>1. /\ s \in Job /\ s.pc \in Holding /\ s.branch # Own /\ s.branch \in Branches
        /\ UNCHANGED <<thread, strays, edited>> /\ thread' \in [Jobs -> Thread]
    <2>1. /\ s.pc \in Marked /\ s.pc \in Holding /\ UNCHANGED <<thread, strays, edited>>
      BY DEF DeleteBranch, Marked, Holding
    <2>2. QED
      BY <2>1, SteadyJob
  <1>2. /\ end \in Terminal /\ end \in Pcs /\ end \notin Holding
        /\ end \notin Marked /\ end \notin OnBranch
        /\ [s EXCEPT !.pc = end].pc = end
    BY <1>1 DEF Ending, Job, Pcs, Terminal, Holding, Rechecking, OnBranch, Marked
  <1>3. ASSUME Accepts(c), Effect(c), End(j, end)
        PROVE  Calm
    <2>1. c \in Command /\ c.cmd = "delete" /\ c.arg = s.branch
      BY <1>1 DEF Command, Git
    <2>2. LockMoves(j, [s EXCEPT !.pc = end]) /\ GoTo(j, end)
      BY <1>2, <1>3 DEF LockMoves, End
    <2> HIDE DEF c
    <2>3. QED
      BY <1>1, <1>2, <1>3, <2>1, <2>2, SteadyGitGoTo
  <1>4. ASSUME UNCHANGED repo, End(j, end)
        PROVE  Calm
    BY <1>1, <1>2, <1>4, MoveCalm
  <1>5. QED
    BY <1>3, <1>4 DEF DeleteBranch, RunGit

LEMMA CancelCalm ==
  ASSUME Steady, Once, NEW j \in Jobs, Cancel(j)
  PROVE  Calm
  <1> DEFINE s == job[j]
             n == s.cancels + 1
             s1 == [s EXCEPT !.cancels = n]
  <1>1. /\ s \in Job /\ s.pc \notin Terminal /\ s.cancels < MaxCancels
        /\ UNCHANGED <<repo, edited>> /\ MaxCancels \in Nat /\ s.cancels \in 0 .. MaxCancels
    BY SteadyJob DEF Cancel
  <1>2. n \in 0 .. MaxCancels /\ n = 1
    BY <1>1 DEF Once
  <1>3. /\ s1 \in Job /\ s1.cancels = n /\ s1.pc = s.pc /\ s1.branch = s.branch
        /\ s1.moved = s.moved
    BY <1>1, <1>2 DEF Job
  <1> HIDE DEF n
  <1>4. ASSUME s.pc \in Unshielded, Go(j, [s1 EXCEPT !.pc = "cancelled"]),
               UNCHANGED <<lock, thread, strays>>
        PROVE  Calm
    <2>1. s.pc \in Early
      BY <1>4 DEF Unshielded, Early
    <2> DEFINE s2 == [s1 EXCEPT !.pc = "cancelled"]
    <2>2. s2 \in Job /\ s2.pc = "cancelled" /\ s2.moved = s.moved
      <3> HIDE DEF s1
      <3>1. QED
        BY <1>3, Fields DEF Pcs, Terminal
    <2>3. Go(j, s2)
      BY <1>4
    <2> HIDE DEF s2
    <2>4. QED
      BY <1>1, <1>4, <2>1, <2>2, <2>3, EarlyCalm
  <1>5. ASSUME Go(j, s1), UNCHANGED <<lock, thread, strays>>
        PROVE  Calm
    <2> HIDE DEF s1
    <2>1. LockMoves(j, s1) /\ thread' \in [Jobs -> Thread]
      BY <1>3, <1>5, SteadyJob DEF LockMoves
    <2>2. s1.pc \in Marked => s1.branch # Own
      BY <1>3, SteadyJob
    <2>3. s1.pc \in OnBranch => job[j].pc \in OnBranch /\ s1.branch = job[j].branch
      BY <1>3
    <2>4. QED
      BY <1>1, <1>3, <1>5, <2>1, <2>2, <2>3, SteadyStay
  <1>6. ~ (s1.cancels > 1)
    BY <1>2, <1>3
  <1>7. QED
    BY <1>3, <1>4, <1>5, <1>6 DEF Cancel, n

\* A step of the user that stays on the branch.
LEMMA UserMove ==
  ASSUME Steady, RepoTyped', UNCHANGED <<lock, job, thread, strays, head>>,
         edited' \in UNION {[U -> [file : Files, inWindow : BOOLEAN]] : U \in SUBSET Edits}
  PROVE  Near
  <1>1. TypeOK'
    BY DEF Steady, TypeOK, RepoTyped
  <1>2. LockHeld' /\ Apart'
    BY DEF Steady, LockHeld, Apart
  <1>3. QED
    BY <1>1, <1>2 DEF Near, Steady

LEMMA UserEditNear ==
  ASSUME Steady, NEW u \in Edits, NEW f \in Files, UserEdit(u, f)
  PROVE  Calm
  <1>1. /\ RepoTyped
        /\ edited \in UNION {[U -> [file : Files, inWindow : BOOLEAN]] : U \in SUBSET Edits}
    BY DEF Steady, TypeOK, RepoTyped
  <1>2. work' \in Tree
    <2>1. work[f] \union {u} \in Content
      BY <1>1 DEF RepoTyped, Tree, Content
    <2>2. work' = [work EXCEPT ![f] = work[f] \union {u}]
      BY DEF UserEdit
    <2>3. QED
      BY <1>1, <2>1, <2>2 DEF RepoTyped, Tree
  <1>3. /\ UNCHANGED <<tip, head, index, lock, job, thread, strays>>
        /\ edited' = [v \in DOMAIN edited \union {u} |->
             IF v = u THEN [file |-> f, inWindow |-> InWindow(f)] ELSE edited[v]]
    BY DEF UserEdit
  <1>4. RepoTyped'
    BY <1>1, <1>2, <1>3 DEF RepoTyped, Exists
  <1>5. PICK U \in SUBSET Edits : edited \in [U -> [file : Files, inWindow : BOOLEAN]]
    BY <1>1
  <1>6. edited' \in [U \union {u} -> [file : Files, inWindow : BOOLEAN]]
    <2>1. InWindow(f) \in BOOLEAN
      BY DEF InWindow
    <2> DEFINE e == [file |-> f, inWindow |-> InWindow(f)]
    <2>2. e \in [file : Files, inWindow : BOOLEAN]
      BY <2>1
    <2>3. edited' = [v \in U \union {u} |-> IF v = u THEN e ELSE edited[v]]
      BY <1>3, <1>5
    <2> HIDE DEF e
    <2>4. QED
      BY <1>5, <2>2, <2>3
  <1>7. U \union {u} \in SUBSET Edits
    BY <1>5
  <1>8. edited' \in UNION {[V -> [file : Files, inWindow : BOOLEAN]] : V \in SUBSET Edits}
    BY <1>6, <1>7
  <1>9. QED
    BY <1>3, <1>4, <1>8, UserMove DEF Calm

LEMMA UserStageNear ==
  ASSUME Steady, NEW f \in Files, UserStage(f)
  PROVE  Calm
  <1> DEFINE c == Git("add", {f})
  <1>1. RepoTyped /\ edited' \in UNION {[U -> [file : Files, inWindow : BOOLEAN]] : U \in SUBSET Edits}
    BY DEF Steady, TypeOK, RepoTyped, UserStage
  <1>2. /\ UNCHANGED <<lock, job, thread, strays, edited>> /\ Effect(c)
    BY DEF UserStage
  <1>3. c \in Command /\ c.cmd = "add" /\ Accepts(c)
    BY DEF Command, Git, Accepts
  <1>4. tip' = tip
    BY <1>2 DEF Effect, Git
  <1> HIDE DEF c
  <1>5. RepoTyped' /\ head' = head
    BY <1>1, <1>2, <1>3, EffectTyped
  <1>6. QED
    BY <1>1, <1>2, <1>4, <1>5, UserMove DEF Calm

LEMMA UserCommitNear ==
  ASSUME Steady, UserCommit
  PROVE  Near /\ tip' = [tip EXCEPT ![head] = work]
  <1>1. /\ index' = work /\ tip' = [tip EXCEPT ![head] = work] /\ head' = head /\ work' = work
        /\ UNCHANGED <<lock, job, thread, strays, edited>>
    BY DEF UserCommit
  <1>2. RepoTyped'
    BY <1>1, TreesKnown DEF Steady, TypeOK, RepoTyped, Exists
  <1>3. edited' \in UNION {[U -> [file : Files, inWindow : BOOLEAN]] : U \in SUBSET Edits}
    BY <1>1 DEF Steady, TypeOK
  <1>4. QED
    BY <1>1, <1>2, <1>3, UserMove

\* The user switches: the job that holds the lock is moved.
LEMMA UserSwitchSteady ==
  ASSUME Steady, NEW b \in Branches, UserSwitch(b)
  PROVE  /\ Steady' /\ tip' = tip
         /\ \A k \in Jobs : job[k].moved => job'[k].moved
  <1> DEFINE c == Git("checkout", b)
             Next1(k) == IF AtWork(k) THEN [job[k] EXCEPT !.moved = TRUE] ELSE job[k]
  <1>1. /\ UNCHANGED <<lock, thread, strays, edited>> /\ Effect(c) /\ Switchable(b)
        /\ job' = [k \in Jobs |-> Next1(k)]
    BY DEF UserSwitch
  <1>2. c \in Command /\ c.cmd = "checkout" /\ Accepts(c)
    BY <1>1 DEF Command, Git, Accepts
  <1>3. tip' = tip
    BY <1>1 DEF Effect, Git
  <1> HIDE DEF c
  <1>4. RepoTyped'
    <2>1. RepoTyped
      BY DEF Steady, TypeOK, RepoTyped
    <2>2. QED
      BY <1>1, <1>2, <2>1, EffectTyped
  <1>5. ASSUME NEW k \in Jobs
        PROVE  /\ Next1(k) \in Job /\ Next1(k).pc = job[k].pc /\ Next1(k).branch = job[k].branch
               /\ job[k].moved \/ lock = k => Next1(k).moved
    <2>1. job[k] \in Job
      BY DEF Steady, TypeOK
    <2>2. CASE AtWork(k)
      <3>1. /\ [job[k] EXCEPT !.moved = TRUE] \in Job
            /\ [job[k] EXCEPT !.moved = TRUE].pc = job[k].pc
            /\ [job[k] EXCEPT !.moved = TRUE].branch = job[k].branch
            /\ [job[k] EXCEPT !.moved = TRUE].moved = TRUE
        BY <2>1 DEF Job
      <3>2. QED
        BY <2>2, <3>1
    <2>3. CASE ~ AtWork(k)
      BY <2>1, <2>3 DEF AtWork
    <2>4. QED
      BY <2>2, <2>3
  <1> HIDE DEF Next1
  <1>6. /\ job' \in [Jobs -> Job]
        /\ \A k \in Jobs : /\ job'[k].pc = job[k].pc /\ job'[k].branch = job[k].branch
                           /\ job[k].moved \/ lock = k => job'[k].moved
    BY <1>1, <1>5
  <1>7. TypeOK'
    BY <1>1, <1>4, <1>6 DEF Steady, TypeOK, RepoTyped
  <1>8. LockHeld'
    <2>1. \A k \in Jobs : job'[k].pc \in Holding <=> lock' = k
      BY <1>1, <1>6 DEF Steady, LockHeld
    <2>2. QED
      BY <2>1 DEF LockHeld
  <1>9. Apart'
    <2>1. ASSUME NEW k \in Jobs, job'[k].pc \in OnBranch
          PROVE  job'[k].moved
      <3>1. lock = k
        BY <1>6, <2>1 DEF Steady, LockHeld, Holding
      <3>2. QED
        BY <1>6, <3>1
    <2>2. \A k \in Jobs : job'[k].pc \in Marked => job'[k].branch # Own
      BY <1>6 DEF Steady, Apart
    <2>3. QED
      BY <1>1, <2>1, <2>2 DEF Steady, Apart
  <1>10. QED
    BY <1>3, <1>6, <1>7, <1>8, <1>9 DEF Steady

LEMMA SteadyInit ==
  ASSUME Init
  PROVE  Steady
  <1>1. IInv
    BY InitInv
  <1>2. strays = {} /\ \A j \in Jobs : job[j].pc = "clean0"
    BY DEF Init, NewJob
  <1>3. Apart
    BY <1>2 DEF Apart, Marked, OnBranch, Init
  <1>4. QED
    BY <1>1, <1>3 DEF IInv, Steady

LEMMA SteadyStutter ==
  ASSUME Steady, UNCHANGED vars
  PROVE  Calm
  <1>1. /\ tip' = tip /\ head' = head /\ index' = index /\ work' = work /\ lock' = lock
        /\ job' = job /\ thread' = thread /\ strays' = strays /\ edited' = edited
    BY DEF vars, repo
  <1>2. TypeOK'
    BY <1>1 DEF Steady, TypeOK, Exists
  <1>3. LockHeld' /\ Apart'
    BY <1>1 DEF Steady, LockHeld, Apart
  <1>4. QED
    BY <1>1, <1>2, <1>3 DEF Calm, Near, Steady

\* A step that moves the user's branch, which only the user's own commit may, and that
\* of a job under which the user switched.
Allowed == (head = Own /\ UserCommit) \/ \E j \in Jobs : job[j].moved /\ CommitFixes(j)

LEMMA NextSteady ==
  ASSUME Once, Steady, [Next]_vars
  PROVE  /\ Steady'
         /\ tip'[Own] # tip[Own] => Allowed
         /\ \A k \in Jobs : job[k].moved => job'[k].moved
  <1>1. ASSUME NEW j \in Jobs, CommitFixes(j)
        PROVE  Near /\ (Calm \/ Allowed)
    BY <1>1, CommitFixesCalm DEF Allowed
  <1>2. ASSUME NEW j \in Jobs, JobStep(j), ~ CommitFixes(j)
        PROVE  Calm
    BY <1>2, StartCalm, ReadCalm, GenerateCalm, SafetyNetCalm, AcquireCalm, RecheckCalm,
       PickNameCalm, CreateCalm, AppliedCalm, AddCalm, VerifyCalm,
       UnstageCalm, RestoreBaseCalm, DeleteBranchCalm DEF JobStep
  <1>3. ASSUME NEW j \in Jobs, ThreadStep(j)
        PROVE  Calm
    BY <1>3, CheckCalm, WriteCalm, UndoCalm, PutBackCalm DEF ThreadStep
  <1>4. ASSUME NEW j \in Jobs, Cancel(j)
        PROVE  Calm
    BY <1>4, CancelCalm
  <1>5. ASSUME UserCommit
        PROVE  Near /\ (tip'[Own] # tip[Own] => Allowed)
    <2>1. Near /\ tip' = [tip EXCEPT ![head] = work] /\ Own \in Branches
      BY <1>5, UserCommitNear, BranchesKnown
    <2>2. tip'[Own] # tip[Own] => head = Own
      BY <2>1 DEF Steady, TypeOK
    <2>3. QED
      BY <1>5, <2>1, <2>2 DEF Allowed
  <1>6. ~ Stray
    BY DEF Stray, Steady, Apart
  <1>7. \/ Near /\ (tip'[Own] # tip[Own] => Allowed)
        \/ \E b \in Branches : UserSwitch(b)
    BY <1>1, <1>2, <1>3, <1>4, <1>5, <1>6, UserEditNear, UserStageNear, SteadyStutter
       DEF Next, UserStep, Calm
  <1>8. QED
    BY <1>7, UserSwitchSteady DEF Near

\* The user's branch moves only when the user commits on it, however jobs, their
\* failures and the first cancellation of each interleave with what the user does; but
\* a job commits there if the user switches to it while the job is at work.
THEOREM UserBranchIsUntouched ==
  ASSUME Once
  PROVE  Spec => UserBranchUntouched
  <1> DEFINE Moves == \/ head = Own /\ UserCommit
                      \/ \E j \in Jobs : job[j].moved /\ CommitFixes(j)
                      \/ Stray
                      \/ \E j, k \in Jobs : j # k /\ job[j].cancels > 1 /\ CommitFixes(k)
  <1>1. Init => Steady
    BY SteadyInit
  <1>2. Steady /\ [Next]_vars => Steady'
    BY NextSteady
  <1>3. Steady /\ [Next]_vars => [tip'[Own] # tip[Own] => Moves]_vars
    BY NextSteady DEF Allowed
  <1>4. QED
    BY <1>1, <1>2, <1>3, PTL DEF Spec, UserBranchUntouched

-----------------------------------------------------------------------------
(* What a step of a job that is cancelled at most once makes of its record   *)
(* s and its thread t: it looks at the repository before it has a branch, it *)
(* stays on its branch, it gives a git command there, or it makes, leaves or *)
(* deletes the branch.                                                       *)

Writing == {"apply", "rollback", "undo"}
Busy == {"check", "write", "undo"}

\* The job has committed its fixes and will end "applied", or has.
Signed(s) == s.pc \in {"verify", "applied"} \/ (s.pc = "restore" /\ s.ends = "applied")

\* Where a job and its thread are: the thread is at work only while the job waits for
\* it, and a job that cleans up after a failure does not end "applied".
Seated(s, t) ==
  /\ t.pc \in Busy => s.pc \in Writing
  /\ s.pc \in Early \union Rechecking => t.pc = "none"
  /\ t.pc # "undo" => t.due = {}
  /\ s.pc \in {"undo", "reset", "delete"} => s.ends # "applied"
Seating == Steady /\ \A j \in Jobs : Seated(job[j], thread[j])

Alike(s, s2) ==
  /\ s2.read = s.read /\ s2.sha = s.sha /\ s2.from = s.from /\ s2.branch = s.branch
  /\ s2.final = s.final
Others(j) ==
  /\ \A k \in Jobs \ {j} : job'[k] = job[k] /\ thread'[k] = thread[k]
  /\ strays' = strays /\ edited' = edited

LooksAt(s, s2) ==
  /\ s.pc \in Early \union Rechecking
  /\ s2.pc \in Early \union Rechecking \union (Terminal \ {"applied"})
  /\ s2.read = s.read \/ \E f \in Files : s2.read = [s.read EXCEPT ![f] = work[f]]
  /\ s2.sha = s.sha \/ s2.sha = tip[head]
  /\ s2.pc \in {"branch", "pick", "create"} =>
       /\ s2.sha = s.sha /\ s2.from = s.from
       /\ \/ s2.pc = s.pc /\ s2.branch = s.branch
          \/ s2.pc = "branch" /\ tip[head] = s.sha
          \/ s2.pc = "pick" /\ s.pc = "branch" /\ head = s.from
          \/ s2.pc = "create" /\ s.pc = "pick" /\ ~ Exists(s2.branch)
Looking(j) ==
  /\ Others(j) /\ thread'[j] = thread[j] /\ UNCHANGED repo
  /\ LooksAt(job[j], job'[j])

Restoring(t) == [t EXCEPT !.pc = "undo", !.todo = t.written]
StaysOn(s, t, s2, t2) ==
  /\ Alike(s, s2)
  /\ s.pc \in OnBranch \union {"delete"} /\ s2.pc \in OnBranch \union {"delete"} \union Terminal
  /\ s2.pc \in OnBranch => s.pc \in OnBranch
  /\ s2.pc = "delete" => s.pc = "delete"
  /\ \/ t2 = t /\ (s2.pc = s.pc \/ s.pc \notin Writing \/ t.pc = "done")
     \/ t2 = Restoring(t) /\ s2.pc \in {"rollback", "undo"}
  /\ s2.pc \in {"undo", "reset", "delete"} => s2.ends # "applied"
  /\ Signed(s2) => Signed(s)
  /\ s2.pc = "apply" => s.pc = "apply" /\ t2 = t
  /\ s2.pc = "add" => \/ s.pc = "add" /\ s2.todo = s.todo
                      \/ s.pc = "apply" /\ t.pc = "done" /\ t.ok /\ s2.todo = t.written
  /\ s2.pc = "commit" => s.pc = "commit" \/ (s.pc = "add" /\ s.todo = {})
Staying(j) ==
  /\ Others(j) /\ UNCHANGED repo
  /\ StaysOn(job[j], thread[j], job'[j], thread'[j])

Gives(s, c, s2) ==
  \/ /\ s.pc = "add" /\ s2.pc = "add"
     /\ \E f \in s.todo : c = Git("add", {f}) /\ s2.todo = s.todo \ {f}
  \/ s.pc = "commit" /\ s2.pc = "verify" /\ c = Git("commit", {})
  \/ s.pc = "reset" /\ s2.pc = "restore" /\ s2.ends = s.ends /\ c = Git("reset", s.final)
Giving(j, c) ==
  /\ Others(j) /\ thread'[j] = thread[j] /\ Effect(c)
  /\ Alike(job[j], job'[j]) /\ Gives(job[j], c, job'[j])

Creating(j) ==
  /\ Others(j) /\ thread'[j] = Writer(job[j].final)
  /\ ~ Exists(job[j].branch) /\ Effect(Git("create", job[j].branch))
  /\ job[j].pc = "create" /\ job'[j].pc = "apply" /\ Alike(job[j], job'[j])

Leaving(j) ==
  /\ Others(j) /\ thread'[j] = thread[j]
  /\ Switchable(job[j].from) /\ Effect(Git("checkout", job[j].from))
  /\ Alike(job[j], job'[j]) /\ job[j].pc = "restore" /\ job'[j].ends = job[j].ends
  /\ \/ job'[j].pc = "delete" /\ tip[job[j].branch] = job[j].sha /\ job[j].ends = "failed"
     \/ job'[j].pc \in Terminal /\ job'[j].pc = job[j].ends

Deleting(j) ==
  /\ Others(j) /\ thread'[j] = thread[j] /\ Effect(Git("delete", job[j].branch))
  /\ head # job[j].branch
  /\ Alike(job[j], job'[j]) /\ job[j].pc = "delete" /\ job'[j].pc \in Terminal
  /\ job'[j].pc = job[j].ends

Turning(j) ==
  \/ Looking(j) \/ Staying(j) \/ Creating(j) \/ Leaving(j) \/ Deleting(j)
  \/ \E c \in Command : Giving(j, c)

LEMMA Went ==
  ASSUME Steady, NEW j \in Jobs, NEW s, Go(j, s), UNCHANGED <<strays, edited>>
  PROVE  /\ job'[j] = s /\ \A k \in Jobs \ {j} : job'[k] = job[k]
         /\ thread' = thread => Others(j) /\ thread'[j] = thread[j]
         /\ \A t : SetThread(j, t) => Others(j) /\ thread'[j] = t
  BY DEF Steady, TypeOK, Go, SetThread, Others

\* A job that only moves on.
LEMMA WentTo ==
  ASSUME Steady, NEW j \in Jobs, NEW pc \in Pcs, GoTo(j, pc), UNCHANGED <<strays, edited>>
  PROVE  /\ job'[j].pc = pc /\ Alike(job[j], job'[j])
         /\ job'[j].ends = job[j].ends /\ job'[j].todo = job[j].todo
         /\ \A k \in Jobs \ {j} : job'[k] = job[k]
         /\ thread' = thread => Others(j) /\ thread'[j] = thread[j]
         /\ \A t : SetThread(j, t) => Others(j) /\ thread'[j] = t
  <1>1. job[j] \in Job
    BY SteadyJob
  <1> DEFINE s == [job[j] EXCEPT !.pc = pc]
  <1>2. Go(j, s)
    BY DEF GoTo
  <1>3. s.pc = pc /\ Alike(job[j], s) /\ s.ends = job[j].ends /\ s.todo = job[j].todo
    BY <1>1 DEF Job, Alike
  <1> HIDE DEF s
  <1>4. QED
    BY <1>2, <1>3, Went

\* A job that has no branch yet, and goes on or ends.
LEMMA LookTo ==
  ASSUME Steady, NEW j \in Jobs, NEW pc \in Pcs, GoTo(j, pc),
         UNCHANGED <<repo, thread, strays, edited>>,
         job[j].pc \in Early \union Rechecking,
         pc \in Early \union Rechecking \union (Terminal \ {"applied"}),
         pc \in {"branch", "pick", "create"} =>
           \/ pc = "branch" /\ tip[head] = job[j].sha
           \/ pc = "pick" /\ job[j].pc = "branch" /\ head = job[j].from
  PROVE  Looking(j)
  <1>1. /\ job'[j].pc = pc /\ Alike(job[j], job'[j]) /\ Others(j) /\ thread'[j] = thread[j]
    BY WentTo
  <1>2. LooksAt(job[j], job'[j])
    BY <1>1 DEF LooksAt, Alike
  <1>3. QED
    BY <1>1, <1>2 DEF Looking

LEMMA LookOn ==
  ASSUME Steady, NEW j \in Jobs, NEW s, Go(j, s),
         UNCHANGED <<repo, thread, strays, edited>>, LooksAt(job[j], s)
  PROVE  Looking(j)
  BY Went DEF Looking

LEMMA StartTurn ==
  ASSUME Steady, NEW j \in Jobs, Start(j)
  PROVE  Looking(j)
  <1> DEFINE s == job[j]
  <1>1. s \in Job /\ UNCHANGED <<repo, thread, strays, edited>>
    BY SteadyJob DEF Start
  <1>2. ASSUME NEW pc \in {"head0", "plan"}, s.pc = "clean0", GoTo(j, pc)
        PROVE  Looking(j)
    BY <1>1, <1>2, LookTo DEF Pcs, Terminal, Early, Rechecking
  <1>3. ASSUME s.pc = "head0", Go(j, [s EXCEPT !.pc = "branch0", !.sha = tip[head]])
        PROVE  Looking(j)
    <2> DEFINE s2 == [s EXCEPT !.pc = "branch0", !.sha = tip[head]]
    <2>1. s2.pc = "branch0" /\ s2.sha = tip[head] /\ s2.read = s.read
      BY <1>1 DEF Job
    <2>2. Go(j, s2)
      BY <1>3
    <2> HIDE DEF s2
    <2>3. LooksAt(s, s2)
      BY <1>3, <2>1 DEF LooksAt, Early
    <2>4. QED
      BY <1>1, <2>2, <2>3, LookOn
  <1>4. ASSUME s.pc = "branch0", Go(j, [s EXCEPT !.pc = "read", !.from = head])
        PROVE  Looking(j)
    <2> DEFINE s2 == [s EXCEPT !.pc = "read", !.from = head]
    <2>1. s2.pc = "read" /\ s2.sha = s.sha /\ s2.read = s.read
      BY <1>1 DEF Job
    <2>2. Go(j, s2)
      BY <1>4
    <2> HIDE DEF s2
    <2>3. LooksAt(s, s2)
      BY <1>4, <2>1 DEF LooksAt, Early
    <2>4. QED
      BY <1>1, <2>2, <2>3, LookOn
  <1>5. QED
    BY <1>2, <1>3, <1>4 DEF Start

LEMMA ReadTurn ==
  ASSUME Steady, NEW j \in Jobs, Read(j)
  PROVE  Looking(j)
  <1> DEFINE s == job[j]
  <1>1. s \in Job /\ s.pc = "read" /\ UNCHANGED <<repo, thread, strays, edited>>
    BY SteadyJob DEF Read
  <1>2. PICK f \in s.todo :
          \/ Go(j, [s EXCEPT !.todo = s.todo \ {f}, !.read[f] = work[f],
                             !.final = s.final \union {f}])
          \/ Go(j, [s EXCEPT !.todo = s.todo \ {f}])
    BY DEF Read
  <1>3. f \in Files
    BY <1>1, <1>2 DEF Job
  <1> DEFINE read2 == [s.read EXCEPT ![f] = work[f]]
             s2 == [s EXCEPT !.todo = s.todo \ {f}, !.read = read2,
                             !.final = s.final \union {f}]
             s3 == [s EXCEPT !.todo = s.todo \ {f}]
  <1>4. Go(j, s2) \/ Go(j, s3)
    BY <1>2
  <1>5. /\ s2.pc = "read" /\ s2.sha = s.sha /\ s2.read = read2
        /\ s3.pc = "read" /\ s3.sha = s.sha /\ s3.read = s.read
    <2> HIDE DEF read2
    <2>1. QED
      BY <1>1 DEF Job
  <1> HIDE DEF s2, s3
  <1>6. LooksAt(s, s2) /\ LooksAt(s, s3)
    BY <1>1, <1>3, <1>5 DEF LooksAt, Early
  <1>7. QED
    BY <1>1, <1>4, <1>6, LookOn

LEMMA GenerateTurn ==
  ASSUME Steady, NEW j \in Jobs, Generate(j)
  PROVE  Looking(j)
  <1> DEFINE s == job[j]
  <1>1. /\ s \in Job /\ s.pc \in {"read", "generate"}
        /\ UNCHANGED <<repo, thread, strays, edited>>
    BY SteadyJob DEF Generate
  <1>2. ASSUME NEW pc \in {"generate", "nothing"}, GoTo(j, pc)
        PROVE  Looking(j)
    BY <1>1, <1>2, LookTo DEF Pcs, Terminal, Early, Rechecking
  <1>3. ASSUME NEW F, Go(j, [s EXCEPT !.pc = "net", !.final = F])
        PROVE  Looking(j)
    <2> DEFINE s2 == [s EXCEPT !.pc = "net", !.final = F]
    <2>1. s2.pc = "net" /\ s2.sha = s.sha /\ s2.read = s.read
      BY <1>1 DEF Job
    <2>2. Go(j, s2)
      BY <1>3
    <2> HIDE DEF s2
    <2>3. LooksAt(s, s2)
      BY <1>1, <2>1 DEF LooksAt, Early
    <2>4. QED
      BY <1>1, <2>2, <2>3, LookOn
  <1>4. QED
    BY <1>2, <1>3 DEF Generate

LEMMA SafetyNetTurn ==
  ASSUME Steady, NEW j \in Jobs, SafetyNet(j)
  PROVE  Looking(j)
  <1>1. PICK pc \in {"lock", "nothing"} : GoTo(j, pc)
    BY DEF SafetyNet
  <1>2. job[j].pc = "net" /\ UNCHANGED <<repo, thread, strays, edited>>
    BY DEF SafetyNet
  <1>3. QED
    BY <1>1, <1>2, LookTo DEF Pcs, Terminal, Early, Rechecking

LEMMA AcquireTurn ==
  ASSUME Steady, NEW j \in Jobs, Acquire(j)
  PROVE  Looking(j)
  <1>1. job[j].pc = "lock" /\ GoTo(j, "clean") /\ UNCHANGED <<repo, thread, strays, edited>>
    BY DEF Acquire
  <1>2. QED
    BY <1>1, LookTo DEF Pcs, Early, Rechecking

LEMMA RecheckTurn ==
  ASSUME Steady, NEW j \in Jobs, Recheck(j)
  PROVE  Looking(j)
  <1> DEFINE s == job[j]
  <1>1. s.pc \in {"clean", "head", "branch"} /\ UNCHANGED <<repo, thread, strays, edited>>
    BY DEF Recheck, After
  <1>2. s.pc \in Rechecking
    BY <1>1 DEF Rechecking
  <1>3. CASE End(j, "plan")
    <2>1. "plan" \in Pcs /\ "plan" \in Terminal \ {"applied"} /\ GoTo(j, "plan")
      BY <1>3 DEF Pcs, Terminal, End
    <2>2. QED
      BY <1>1, <1>2, <2>1, LookTo
  <1>4. CASE Unchanged(j, s.pc) /\ GoTo(j, After[s.pc])
    <2>1. \/ s.pc = "clean" /\ After[s.pc] = "head"
          \/ s.pc = "head" /\ After[s.pc] = "branch" /\ tip[head] = s.sha
          \/ s.pc = "branch" /\ After[s.pc] = "pick" /\ head = s.from
      <3>1. After["clean"] = "head" /\ After["head"] = "branch" /\ After["branch"] = "pick"
        BY DEF After
      <3>2. Unchanged(j, "head") => tip[head] = s.sha
        BY DEF Unchanged
      <3>3. Unchanged(j, "branch") => head = s.from
        BY DEF Unchanged
      <3>4. QED
        BY <1>1, <1>4, <3>1, <3>2, <3>3
    <2>2. After[s.pc] \in Pcs /\ After[s.pc] \in Rechecking
      BY <2>1 DEF Pcs, Rechecking
    <2>3. QED
      BY <1>1, <1>2, <1>4, <2>1, <2>2, LookTo
  <1>5. QED
    BY <1>3, <1>4 DEF Recheck

LEMMA PickNameTurn ==
  ASSUME Steady, NEW j \in Jobs, PickName(j)
  PROVE  Looking(j)
  <1> DEFINE s == job[j]
  <1>1. s \in Job /\ s.pc = "pick" /\ UNCHANGED <<repo, thread, strays, edited>>
    BY SteadyJob DEF PickName
  <1>2. PICK b \in Branches \ {Own} : ~Exists(b) /\ Go(j, [s EXCEPT !.pc = "create", !.branch = b])
    BY DEF PickName
  <1> DEFINE s2 == [s EXCEPT !.pc = "create", !.branch = b]
  <1>3. /\ s2.pc = "create" /\ s2.branch = b /\ s2.read = s.read /\ s2.sha = s.sha
        /\ s2.from = s.from
    BY <1>1 DEF Job
  <1>4. Go(j, s2)
    BY <1>2
  <1> HIDE DEF s2
  <1>5. LooksAt(s, s2)
    BY <1>1, <1>2, <1>3 DEF LooksAt, Rechecking
  <1>6. QED
    BY <1>1, <1>4, <1>5, LookOn

LEMMA CreateTurn ==
  ASSUME Seating, NEW j \in Jobs, Create(j)
  PROVE  Looking(j) \/ Creating(j)
  <1> DEFINE s == job[j]
             c == Git("create", s.branch)
  <1>1. s.pc = "create" /\ UNCHANGED <<strays, edited>> /\ Steady
    BY DEF Create, Seating
  <1>2. CASE Accepts(c) /\ Effect(c) /\ GoTo(j, "apply") /\ SetThread(j, Writer(s.final))
    <2>1. "apply" \in Pcs
      BY DEF Pcs
    <2>2. /\ job'[j].pc = "apply" /\ Alike(s, job'[j])
          /\ Others(j) /\ thread'[j] = Writer(s.final)
      BY <1>1, <1>2, <2>1, WentTo
    <2>3. ~ Exists(s.branch)
      BY <1>2 DEF Accepts, Git
    <2>4. QED
      BY <1>1, <1>2, <2>2, <2>3 DEF Creating
  <1>3. CASE UNCHANGED repo /\ End(j, "failed") /\ UNCHANGED thread
    BY <1>1, <1>3, LookTo DEF Pcs, Terminal, Rechecking, End
  <1>4. QED
    BY <1>2, <1>3 DEF Create, RunGit

\* The clean-up of a failed apply, from a place where no thread is at work.
LEMMA FailTurn ==
  ASSUME Seating, NEW j \in Jobs, Fail(j), UNCHANGED <<repo, strays, edited>>,
         job[j].pc \in OnBranch, job[j].pc \notin Writing \/ thread[j].pc = "done"
  PROVE  Staying(j)
  <1> DEFINE s1 == [job[j] EXCEPT !.ends = "failed"]
             s == job[j]
             t == thread[j]
  <1>1. Steady /\ s \in Job
    BY SteadyJob DEF Seating
  <1>2. ASSUME NEW pc \in {"undo", "restore"}, Go(j, [s1 EXCEPT !.pc = pc]),
               \/ UNCHANGED thread /\ pc = "restore"
               \/ SetThread(j, Restoring(t)) /\ pc = "undo"
        PROVE  Staying(j)
    <2> DEFINE s2 == [s1 EXCEPT !.pc = pc]
    <2>1. s2.pc = pc /\ s2.ends = "failed" /\ Alike(s, s2)
      BY <1>1 DEF Job, Alike
    <2>2. Go(j, s2)
      BY <1>2
    <2> HIDE DEF s2, s1
    <2>3. /\ job'[j] = s2 /\ Others(j)
          /\ (pc = "restore" /\ thread'[j] = t) \/ (pc = "undo" /\ thread'[j] = Restoring(t))
      BY <1>1, <1>2, <2>2, Went
    <2>4. StaysOn(s, t, job'[j], thread'[j])
      BY <2>1, <2>3 DEF StaysOn, OnBranch, Terminal, Signed, Alike
    <2>5. QED
      BY <2>3, <2>4 DEF Staying
  <1>3. Handle(j, s1)
    BY DEF Fail
  <1>4. CASE t.written = {}
    BY <1>2, <1>3, <1>4 DEF Handle
  <1>5. CASE t.written # {}
    BY <1>2, <1>3, <1>5 DEF Handle, Restoring
  <1>6. QED
    BY <1>4, <1>5

\* A job that only moves on, on its branch or to its end.
LEMMA StayTo ==
  ASSUME Seating, NEW j \in Jobs, NEW pc \in Pcs, GoTo(j, pc),
         UNCHANGED <<repo, thread, strays, edited>>,
         job[j].pc \in OnBranch \union {"delete"},
         pc \in OnBranch \union Terminal, pc \in OnBranch => job[j].pc \in OnBranch,
         job[j].pc \notin Writing \/ thread[j].pc = "done",
         pc \in {"undo", "reset"} => job[j].ends # "applied",
         pc = "verify" => job[j].pc = "verify",
         pc = "applied" => Signed(job[j]),
         pc = "restore" => job[j].ends # "applied" \/ Signed(job[j]),
         pc \notin {"apply", "add"}, pc = "commit" => job[j].pc = "add" /\ job[j].todo = {}
  PROVE  Staying(j)
  <1>1. /\ job'[j].pc = pc /\ Alike(job[j], job'[j]) /\ job'[j].ends = job[j].ends
        /\ Others(j) /\ thread'[j] = thread[j]
    BY WentTo DEF Seating
  <1>2. pc # "delete"
    BY DEF OnBranch, Terminal
  <1>3. Signed(job'[j]) => Signed(job[j])
    BY <1>1 DEF Signed
  <1>4. StaysOn(job[j], thread[j], job'[j], thread'[j])
    BY <1>1, <1>2, <1>3 DEF StaysOn
  <1>5. QED
    BY <1>1, <1>4 DEF Staying

LEMMA AppliedTurn ==
  ASSUME Seating, NEW j \in Jobs, Applied(j)
  PROVE  Staying(j)
  <1> DEFINE s == job[j]
             t == thread[j]
  <1>1. /\ s \in Job /\ s.pc \in {"apply", "rollback"} /\ t.pc = "done" /\ Steady
        /\ UNCHANGED <<repo, strays, edited>>
    BY SteadyJob DEF Applied, Seating
  <1>2. ASSUME s.pc = "apply", t.ok, Go(j, [s EXCEPT !.pc = "add", !.todo = t.written]),
               UNCHANGED thread
        PROVE  Staying(j)
    <2> DEFINE s2 == [s EXCEPT !.pc = "add", !.todo = t.written]
    <2>1. s2.pc = "add" /\ s2.todo = t.written /\ Alike(s, s2)
      BY <1>1 DEF Job, Alike
    <2>2. Go(j, s2)
      BY <1>2
    <2> HIDE DEF s2
    <2>3. job'[j] = s2 /\ Others(j) /\ thread'[j] = t
      BY <1>1, <1>2, <2>2, Went
    <2>4. StaysOn(s, t, job'[j], thread'[j])
      BY <1>1, <1>2, <2>1, <2>3 DEF StaysOn, OnBranch, Signed
    <2>5. QED
      BY <1>1, <2>3, <2>4 DEF Staying
  <1>3. ASSUME s.pc = "apply", GoTo(j, "rollback"), SetThread(j, Restoring(t))
        PROVE  Staying(j)
    <2>1. "rollback" \in Pcs
      BY DEF Pcs
    <2>2. /\ job'[j].pc = "rollback" /\ Alike(s, job'[j])
          /\ Others(j) /\ thread'[j] = Restoring(t)
      BY <1>1, <1>3, <2>1, WentTo
    <2>3. StaysOn(s, t, job'[j], thread'[j])
      BY <1>3, <2>2 DEF StaysOn, OnBranch, Signed
    <2>4. QED
      BY <1>1, <2>2, <2>3 DEF Staying
  <1>4. ASSUME Fail(j)
        PROVE  Staying(j)
    BY <1>1, <1>4, FailTurn DEF OnBranch
  <1>5. QED
    BY <1>2, <1>3, <1>4 DEF Applied, Restoring

\* The job's own git command, from a place where no thread is at work.
LEMMA GiveTo ==
  ASSUME Seating, NEW j \in Jobs, NEW pc \in Pcs, GoTo(j, pc),
         UNCHANGED <<thread, strays, edited>>, NEW c \in Command, Effect(c),
         \/ job[j].pc = "commit" /\ pc = "verify" /\ c = Git("commit", {})
         \/ job[j].pc = "reset" /\ pc = "restore" /\ c = Git("reset", job[j].final)
  PROVE  Giving(j, c)
  <1>1. /\ job'[j].pc = pc /\ Alike(job[j], job'[j]) /\ job'[j].ends = job[j].ends
        /\ Others(j) /\ thread'[j] = thread[j]
    BY WentTo DEF Seating
  <1>2. QED
    BY <1>1 DEF Giving, Gives

LEMMA AddTurn ==
  ASSUME Seating, NEW j \in Jobs, Add(j)
  PROVE  Staying(j) \/ \E c \in Command : Giving(j, c)
  <1> DEFINE s == job[j]
  <1>1. s \in Job /\ s.pc = "add" /\ UNCHANGED <<strays, edited>> /\ Steady
    BY SteadyJob DEF Add, Seating
  <1>2. ASSUME NEW f \in s.todo, Effect(Git("add", {f})),
               Go(j, [s EXCEPT !.todo = s.todo \ {f}]), UNCHANGED thread
        PROVE  \E c \in Command : Giving(j, c)
    <2> DEFINE c == Git("add", {f})
               s2 == [s EXCEPT !.todo = s.todo \ {f}]
    <2>1. c \in Command
      BY <1>1, <1>2 DEF Command, Git, Job
    <2>2. s2.pc = "add" /\ s2.todo = s.todo \ {f} /\ Alike(s, s2)
      BY <1>1 DEF Job, Alike
    <2>3. Go(j, s2)
      BY <1>2
    <2> HIDE DEF s2
    <2>4. job'[j] = s2 /\ Others(j) /\ thread'[j] = thread[j]
      BY <1>1, <1>2, <2>3, Went
    <2>5. Giving(j, c)
      BY <1>1, <1>2, <2>2, <2>4 DEF Giving, Gives
    <2>6. QED
      BY <2>1, <2>5
  <1>3. ASSUME UNCHANGED repo, Fail(j)
        PROVE  Staying(j)
    BY <1>1, <1>3, FailTurn DEF OnBranch, Writing
  <1>4. ASSUME s.todo = {}, GoTo(j, "commit"), UNCHANGED <<repo, thread>>
        PROVE  Staying(j)
    BY <1>1, <1>4, StayTo DEF Pcs, OnBranch, Writing, Terminal
  <1>5. QED
    BY <1>2, <1>3, <1>4 DEF Add, RunGit

LEMMA CommitFixesTurn ==
  ASSUME Seating, NEW j \in Jobs, CommitFixes(j)
  PROVE  Staying(j) \/ \E c \in Command : Giving(j, c)
  <1> DEFINE c == Git("commit", {})
  <1>1. job[j].pc = "commit" /\ UNCHANGED <<strays, edited>>
    BY DEF CommitFixes
  <1>2. ASSUME Effect(c), GoTo(j, "verify"), UNCHANGED thread
        PROVE  \E d \in Command : Giving(j, d)
    <2>1. c \in Command /\ "verify" \in Pcs
      BY DEF Command, Git, Pcs
    <2>2. Giving(j, c)
      BY <1>1, <1>2, <2>1, GiveTo
    <2>3. QED
      BY <2>1, <2>2
  <1>3. ASSUME UNCHANGED repo, Fail(j)
        PROVE  Staying(j)
    BY <1>1, <1>3, FailTurn DEF OnBranch, Writing
  <1>4. QED
    BY <1>2, <1>3 DEF CommitFixes, RunGit

LEMMA VerifyTurn ==
  ASSUME Seating, NEW j \in Jobs, Verify(j)
  PROVE  Staying(j)
  <1>1. job[j].pc = "verify" /\ GoTo(j, "restore") /\ UNCHANGED <<repo, thread, strays, edited>>
    BY DEF Verify
  <1>2. QED
    BY <1>1, StayTo DEF Pcs, OnBranch, Writing, Signed

LEMMA UnstageTurn ==
  ASSUME Seating, NEW j \in Jobs, Unstage(j)
  PROVE  Staying(j) \/ \E c \in Command : Giving(j, c)
  <1> DEFINE c == Git("reset", job[j].final)
  <1>1. job[j].pc \in {"undo", "reset"} /\ UNCHANGED <<thread, strays, edited>>
        /\ job[j].ends # "applied"
    BY DEF Unstage, Seating, Seated
  <1>2. ASSUME job[j].pc = "undo", thread[j].pc = "done", GoTo(j, "reset"), UNCHANGED repo
        PROVE  Staying(j)
    BY <1>1, <1>2, StayTo DEF Pcs, OnBranch, Writing
  <1>3. ASSUME job[j].pc = "reset", GoTo(j, "restore"), UNCHANGED repo
        PROVE  Staying(j)
    BY <1>1, <1>3, StayTo DEF Pcs, OnBranch, Writing
  <1>4. ASSUME Effect(c), GoTo(j, "restore"), job[j].pc = "reset"
        PROVE  \E d \in Command : Giving(j, d)
    <2>1. c \in Command /\ "restore" \in Pcs
      BY SteadyJob DEF Command, Git, Pcs, Seating
    <2>2. Giving(j, c)
      BY <1>1, <1>4, <2>1, GiveTo
    <2>3. QED
      BY <2>1, <2>2
  <1>5. QED
    BY <1>2, <1>3, <1>4 DEF Unstage, RunGit

LEMMA RestoreBaseTurn ==
  ASSUME Seating, Once, NEW j \in Jobs, RestoreBase(j)
  PROVE  Staying(j) \/ Leaving(j)
  <1> DEFINE s == job[j]
             c == Git("checkout", s.from)
  <1>1. /\ s.pc = "restore" /\ UNCHANGED <<thread, strays, edited>> /\ Steady
        /\ s.ends \in Terminal /\ s.ends \in Pcs /\ Ending(s) = s.ends
    <2>1. s.ends \in Terminal
      BY SteadyJob DEF Seating, Job
    <2>2. Ending(s) = s.ends
      BY CancelledOnce DEF Seating, Steady, Once
    <2>3. QED
      BY <2>1, <2>2 DEF RestoreBase, Seating, Pcs, Terminal
  <1>2. ASSUME NEW pc \in Pcs, Accepts(c), Effect(c), GoTo(j, pc),
               \/ pc = "delete" /\ tip[s.branch] = s.sha /\ s.ends = "failed"
               \/ pc = s.ends
        PROVE  Leaving(j)
    <2>1. /\ job'[j].pc = pc /\ Alike(s, job'[j]) /\ job'[j].ends = s.ends
          /\ Others(j) /\ thread'[j] = thread[j]
      BY <1>1, <1>2, WentTo
    <2>2. Switchable(s.from)
      BY <1>2 DEF Accepts, Git
    <2>3. QED
      BY <1>1, <1>2, <2>1, <2>2 DEF Leaving
  <1>3. ASSUME UNCHANGED repo, End(j, Ending(s))
        PROVE  Staying(j)
    <2>1. GoTo(j, s.ends) /\ s.ends \notin OnBranch
      BY <1>1, <1>3 DEF End, Terminal, OnBranch
    <2>2. QED
      BY <1>1, <1>3, <2>1, StayTo DEF OnBranch, Writing, Signed, Terminal
  <1>4. "delete" \in Pcs
    BY DEF Pcs
  <1>5. ASSUME Accepts(c), Effect(c),
               IF s.ends = "failed" /\ tip[s.branch] = s.sha
               THEN GoTo(j, "delete") /\ UNCHANGED lock ELSE End(j, Ending(s))
        PROVE  Leaving(j)
    <2>1. CASE s.ends = "failed" /\ tip[s.branch] = s.sha
      BY <1>2, <1>4, <1>5, <2>1
    <2>2. CASE ~(s.ends = "failed" /\ tip[s.branch] = s.sha)
      BY <1>1, <1>2, <1>5, <2>2 DEF End
    <2>3. QED
      BY <2>1, <2>2
  <1>6. QED
    BY <1>3, <1>5 DEF RestoreBase, RunGit

LEMMA DeleteBranchTurn ==
  ASSUME Seating, Once, NEW j \in Jobs, DeleteBranch(j)
  PROVE  Staying(j) \/ Deleting(j)
  <1> DEFINE s == job[j]
             c == Git("delete", s.branch)
  <1>1. /\ s.pc = "delete" /\ UNCHANGED <<thread, strays, edited>> /\ Steady
        /\ s.ends \in Terminal /\ s.ends \in Pcs /\ Ending(s) = s.ends /\ s.ends # "applied"
    <2>1. s.ends \in Terminal
      BY SteadyJob DEF Seating, Job
    <2>2. Ending(s) = s.ends
      BY CancelledOnce DEF Seating, Steady, Once
    <2>3. QED
      BY <2>1, <2>2 DEF DeleteBranch, Seating, Seated, Pcs, Terminal
  <1>2. ASSUME Accepts(c), Effect(c), End(j, Ending(s))
        PROVE  Deleting(j)
    <2>1. GoTo(j, s.ends) /\ head # s.branch
      BY <1>1, <1>2 DEF End, Accepts, Git
    <2>2. /\ job'[j].pc = s.ends /\ Alike(s, job'[j])
          /\ Others(j) /\ thread'[j] = thread[j]
      BY <1>1, <2>1, WentTo
    <2>3. QED
      BY <1>1, <1>2, <2>1, <2>2 DEF Deleting
  <1>3. ASSUME UNCHANGED repo, End(j, Ending(s))
        PROVE  Staying(j)
    <2>1. GoTo(j, s.ends) /\ s.ends \notin OnBranch
      BY <1>1, <1>3 DEF End, Terminal, OnBranch
    <2>2. QED
      BY <1>1, <1>3, <2>1, StayTo DEF OnBranch, Writing, Signed, Terminal
  <1>4. QED
    BY <1>2, <1>3 DEF DeleteBranch, RunGit

LEMMA CancelTurn ==
  ASSUME Seating, Once, NEW j \in Jobs, Cancel(j)
  PROVE  Looking(j) \/ Staying(j)
  <1> DEFINE s == job[j]
             n == s.cancels + 1
             s1 == [s EXCEPT !.cancels = n]
  <1>1. /\ s \in Job /\ s.pc \notin Terminal /\ s.cancels < MaxCancels /\ Steady
        /\ UNCHANGED <<repo, edited>> /\ MaxCancels \in Nat /\ s.cancels \in 0 .. MaxCancels
    BY SteadyJob DEF Cancel, Seating
  <1>2. n = 1
    BY <1>1 DEF Once
  <1>3. /\ s1.cancels = n /\ s1.pc = s.pc /\ Alike(s, s1) /\ s1.ends = s.ends
        /\ s1.todo = s.todo /\ DOMAIN s1 = DOMAIN s
    BY <1>1 DEF Job, Alike
  <1> HIDE DEF n
  <1>4. ASSUME s.pc \in Unshielded, Go(j, [s1 EXCEPT !.pc = "cancelled"]),
               UNCHANGED <<thread, strays>>
        PROVE  Looking(j)
    <2> DEFINE s2 == [s1 EXCEPT !.pc = "cancelled"]
    <2>1. s2.pc = "cancelled" /\ s2.sha = s.sha /\ s2.read = s.read
      BY <1>1 DEF Job
    <2>2. Go(j, s2)
      BY <1>4
    <2> HIDE DEF s2
    <2>3. LooksAt(s, s2)
      BY <1>4, <2>1 DEF LooksAt, Unshielded, Early, Terminal
    <2>4. QED
      BY <1>1, <1>4, <2>2, <2>3, LookOn
  <1>5. ASSUME Go(j, s1), UNCHANGED <<thread, strays>>
        PROVE  Looking(j) \/ Staying(j)
    <2> HIDE DEF s1
    <2>1. job'[j] = s1 /\ Others(j) /\ thread'[j] = thread[j]
      BY <1>1, <1>5, Went
    <2>2. CASE s.pc \in Early \union Rechecking
      <3>1. LooksAt(s, s1)
        BY <1>3, <2>2 DEF LooksAt, Alike
      <3>2. QED
        BY <1>1, <1>5, <3>1, LookOn
    <2>3. CASE s.pc \in OnBranch \union {"delete"}
      <3>1. StaysOn(s, thread[j], job'[j], thread'[j])
        BY <1>3, <2>1, <2>3 DEF StaysOn, Signed, Seating, Seated
      <3>2. QED
        BY <1>1, <2>1, <3>1 DEF Staying
    <2>4. QED
      BY <1>1, <2>2, <2>3 DEF Job, Early, Rechecking, OnBranch
  <1>6. ~ (s1.cancels > 1)
    BY <1>2, <1>3
  <1>7. QED
    BY <1>3, <1>4, <1>5, <1>6 DEF Cancel, n

\* A step of a job is one of those.
LEMMA JobTurn ==
  ASSUME Seating, Once, NEW j \in Jobs, JobStep(j) \/ Cancel(j)
  PROVE  Turning(j)
  <1>1. Steady
    BY DEF Seating
  <1>2. QED
    BY <1>1, StartTurn, ReadTurn, GenerateTurn, SafetyNetTurn, AcquireTurn, RecheckTurn,
       PickNameTurn, CreateTurn, AppliedTurn, AddTurn, CommitFixesTurn, VerifyTurn, UnstageTurn,
       RestoreBaseTurn, DeleteBranchTurn, CancelTurn DEF JobStep, Turning

\* What a step of its thread does: it compares all files, writes one, goes on to the
\* rollback or to its end, compares a written file again, or puts one back.
Checks(j, t, t2) ==
  /\ t.pc = "check" /\ t2.pc = "write" /\ t2.written = t.written /\ t2.due = t.due
  /\ t2.todo = {f \in t.todo : work[f] = job[j].read[f]}
  /\ t2.ok => t2.todo = t.todo
  /\ work' = work
Writes(j, t, t2) ==
  /\ t.pc = "write" /\ t2.pc = "write" /\ t2.due = t.due /\ t2.ok = t.ok
  /\ \E f \in t.todo :
       /\ work' = [work EXCEPT ![f] = Fixed(j, f)]
       /\ t2.todo = t.todo \ {f} /\ t2.written = t.written \union {f}
Ceases(t, t2) ==
  /\ t.pc \in {"write", "undo"} /\ t2.due = t.due
  /\ \/ t2.pc = "undo" /\ t.pc = "write" /\ ~ t2.ok
     \/ t2.pc = "done" /\ t.todo = {} /\ t2.ok = t.ok /\ t2.written = t.written /\ t2.due = {}
  /\ work' = work
Compares(j, t, t2) ==
  /\ t.pc = "undo" /\ t2.pc = "undo" /\ t2.ok = t.ok /\ work' = work
  /\ \E f \in t.todo :
       t2.due = t.due \union {g \in {f} : work[g] = Fixed(j, g)}
PutsBack(j, t, t2) ==
  /\ t.pc = "undo" /\ t2.pc = "undo" /\ t2.ok = t.ok
  /\ \E f \in t.due :
       /\ t2.due = t.due \ {f}
       /\ work' = work \/ work' = [work EXCEPT ![f] = job[j].read[f]]
Threading(j) ==
  /\ UNCHANGED <<tip, head, index, strays, edited, job>>
  /\ \A k \in Jobs \ {j} : thread'[k] = thread[k]
  /\ \/ Checks(j, thread[j], thread'[j]) \/ Writes(j, thread[j], thread'[j])
     \/ Ceases(thread[j], thread'[j]) \/ Compares(j, thread[j], thread'[j])
     \/ PutsBack(j, thread[j], thread'[j])

LEMMA Threaded2 ==
  ASSUME Steady, NEW j \in Jobs, NEW t, SetThread(j, t)
  PROVE  thread'[j] = t /\ \A k \in Jobs \ {j} : thread'[k] = thread[k]
  BY DEF Steady, TypeOK, SetThread

LEMMA CheckTurn ==
  ASSUME Seating, NEW j \in Jobs, Check(j)
  PROVE  Threading(j)
  <1> DEFINE t == thread[j]
             same == {f \in t.todo : work[f] = job[j].read[f]}
             ok == same = t.todo
             t2 == [t EXCEPT !.pc = "write", !.todo = same, !.ok = ok]
  <1>1. /\ t \in Thread /\ t.pc = "check" /\ UNCHANGED <<repo, job, strays, edited>> /\ Steady
        /\ SetThread(j, t2)
    BY SteadyJob DEF Check, Seating
  <1>2. /\ t2.pc = "write" /\ t2.written = t.written /\ t2.due = t.due /\ t2.todo = same
        /\ t2.ok = ok
    <2> HIDE DEF same, ok
    <2>1. QED
      BY <1>1 DEF Thread
  <1>3. t2.ok => t2.todo = t.todo
    BY <1>2
  <1> HIDE DEF t2
  <1>4. thread'[j] = t2 /\ \A k \in Jobs \ {j} : thread'[k] = thread[k]
    BY <1>1, Threaded2
  <1>5. Checks(j, t, t2)
    BY <1>1, <1>2, <1>3 DEF Checks, repo
  <1>6. QED
    BY <1>1, <1>4, <1>5 DEF Threading, repo

LEMMA WriteTurn ==
  ASSUME Seating, NEW j \in Jobs, Write(j)
  PROVE  Threading(j)
  <1> DEFINE t == thread[j]
  <1>1. /\ t \in Thread /\ t.pc = "write" /\ Steady /\ t.due = {}
        /\ UNCHANGED <<tip, head, index, job, strays, edited>>
    BY SteadyJob DEF Write, Seating, Seated
  <1>2. ASSUME NEW f \in t.todo, work' = [work EXCEPT ![f] = Fixed(j, f)],
               SetThread(j, [t EXCEPT !.todo = t.todo \ {f}, !.written = t.written \union {f}])
        PROVE  Threading(j)
    <2> DEFINE t2 == [t EXCEPT !.todo = t.todo \ {f}, !.written = t.written \union {f}]
    <2>1. /\ t2.pc = "write" /\ t2.due = t.due /\ t2.ok = t.ok
          /\ t2.todo = t.todo \ {f} /\ t2.written = t.written \union {f}
      BY <1>1 DEF Thread
    <2>2. SetThread(j, t2)
      BY <1>2
    <2> HIDE DEF t2
    <2>3. thread'[j] = t2 /\ \A k \in Jobs \ {j} : thread'[k] = thread[k]
      BY <1>1, <2>2, Threaded2
    <2>4. Writes(j, t, t2)
      BY <1>1, <1>2, <2>1 DEF Writes
    <2>5. QED
      BY <1>1, <2>3, <2>4 DEF Threading
  <1>3. ASSUME NEW t2, SetThread(j, t2), UNCHANGED work, t2.due = t.due,
               \/ t2.pc = "undo" /\ ~ t2.ok
               \/ t2.pc = "done" /\ t.todo = {} /\ t2.ok = t.ok /\ t2.written = t.written
        PROVE  Threading(j)
    <2>1. thread'[j] = t2 /\ \A k \in Jobs \ {j} : thread'[k] = thread[k]
      BY <1>1, <1>3, Threaded2
    <2>2. Ceases(t, t2)
      BY <1>1, <1>3 DEF Ceases
    <2>3. QED
      BY <1>1, <2>1, <2>2 DEF Threading
  <1>4. /\ [t EXCEPT !.pc = "undo", !.todo = t.written, !.ok = FALSE].pc = "undo"
        /\ [t EXCEPT !.pc = "undo", !.todo = t.written, !.ok = FALSE].due = t.due
        /\ ~ [t EXCEPT !.pc = "undo", !.todo = t.written, !.ok = FALSE].ok
        /\ [t EXCEPT !.pc = "done"].pc = "done" /\ [t EXCEPT !.pc = "done"].due = t.due
        /\ [t EXCEPT !.pc = "done"].ok = t.ok /\ [t EXCEPT !.pc = "done"].written = t.written
    BY <1>1 DEF Thread
  <1>5. QED
    BY <1>2, <1>3, <1>4 DEF Write

LEMMA UndoTurn ==
  ASSUME Seating, Once, NEW j \in Jobs, Undo(j)
  PROVE  Threading(j)
  <1> DEFINE t == thread[j]
  <1>1. /\ t \in Thread /\ t.pc = "undo" /\ Steady /\ t.due = {}
        /\ UNCHANGED <<tip, head, index, work, job, strays, edited>>
    BY SteadyJob, CancelledOnce DEF Undo, Seating, Steady, Once, repo
  <1>2. ASSUME NEW f \in t.todo,
               SetThread(j, [t EXCEPT !.todo = t.todo \ {f},
                                      !.due = t.due \union {g \in {f} : work[g] = Fixed(j, g)}])
        PROVE  Threading(j)
    <2> DEFINE G == t.due \union {g \in {f} : work[g] = Fixed(j, g)}
               t2 == [t EXCEPT !.todo = t.todo \ {f}, !.due = G]
    <2>1. SetThread(j, t2)
      BY <1>2
    <2>2. t2.pc = "undo" /\ t2.due = G /\ t2.ok = t.ok
      <3> HIDE DEF G
      <3>1. QED
        BY <1>1 DEF Thread
    <2> HIDE DEF t2
    <2>3. thread'[j] = t2 /\ \A k \in Jobs \ {j} : thread'[k] = thread[k]
      BY <1>1, <2>1, Threaded2
    <2>4. Compares(j, t, t2)
      BY <1>1, <1>2, <2>2 DEF Compares
    <2>5. QED
      BY <1>1, <2>3, <2>4 DEF Threading
  <1>3. ASSUME t.todo = {}, SetThread(j, [t EXCEPT !.pc = "done"])
        PROVE  Threading(j)
    <2> DEFINE t2 == [t EXCEPT !.pc = "done"]
    <2>1. SetThread(j, t2)
      BY <1>3
    <2>2. t2.pc = "done" /\ t2.due = t.due /\ t2.ok = t.ok /\ t2.written = t.written
      BY <1>1 DEF Thread
    <2> HIDE DEF t2
    <2>3. thread'[j] = t2 /\ \A k \in Jobs \ {j} : thread'[k] = thread[k]
      BY <1>1, <2>1, Threaded2
    <2>4. Ceases(t, t2)
      BY <1>1, <1>3, <2>2 DEF Ceases
    <2>5. QED
      BY <1>1, <2>3, <2>4 DEF Threading
  <1>4. QED
    BY <1>2, <1>3 DEF Undo

LEMMA PutBackTurn ==
  ASSUME Seating, NEW j \in Jobs, PutBack(j)
  PROVE  Threading(j)
  <1> DEFINE t == thread[j]
  <1>1. PICK f \in t.due :
          \/ /\ work' = [work EXCEPT ![f] = job[j].read[f]]
             /\ SetThread(j, [t EXCEPT !.due = t.due \ {f}, !.written = t.written \ {f}])
          \/ SetThread(j, [t EXCEPT !.due = t.due \ {f}]) /\ UNCHANGED work
    BY DEF PutBack
  <1>2. /\ t \in Thread /\ t.pc = "undo" /\ Steady
        /\ UNCHANGED <<tip, head, index, job, strays, edited>>
    BY <1>1, SteadyJob DEF PutBack, Seating, Seated
  <1>3. ASSUME NEW t2, SetThread(j, t2), t2.pc = "undo", t2.ok = t.ok, t2.due = t.due \ {f},
               work' = work \/ work' = [work EXCEPT ![f] = job[j].read[f]]
        PROVE  Threading(j)
    <2>1. thread'[j] = t2 /\ \A k \in Jobs \ {j} : thread'[k] = thread[k]
      BY <1>2, <1>3, Threaded2
    <2>2. PutsBack(j, t, t2)
      BY <1>2, <1>3 DEF PutsBack
    <2>3. QED
      BY <1>2, <2>1, <2>2 DEF Threading
  <1>4. /\ [t EXCEPT !.due = t.due \ {f}, !.written = t.written \ {f}].pc = "undo"
        /\ [t EXCEPT !.due = t.due \ {f}, !.written = t.written \ {f}].ok = t.ok
        /\ [t EXCEPT !.due = t.due \ {f}, !.written = t.written \ {f}].due = t.due \ {f}
        /\ [t EXCEPT !.due = t.due \ {f}].pc = "undo" /\ [t EXCEPT !.due = t.due \ {f}].ok = t.ok
        /\ [t EXCEPT !.due = t.due \ {f}].due = t.due \ {f}
    BY <1>2 DEF Thread
  <1>5. QED
    BY <1>1, <1>3, <1>4

LEMMA ThreadTurn ==
  ASSUME Seating, Once, NEW j \in Jobs, ThreadStep(j)
  PROVE  Threading(j)
  BY CheckTurn, WriteTurn, UndoTurn, PutBackTurn DEF ThreadStep

-----------------------------------------------------------------------------
(* One apply at a time. *)

LEMMA SeatingTurn ==
  ASSUME Seating, NEW j \in Jobs, Turning(j)
  PROVE  \A k \in Jobs : Seated(job'[k], thread'[k])
  <1> DEFINE s == job[j]
             t == thread[j]
  <1>1. Others(j) /\ Seated(s, t) /\ t \in Thread /\ s \in Job
    BY SteadyJob DEF Turning, Looking, Staying, Creating, Leaving, Deleting, Giving, Seating
  <1>2. Seated(job'[j], thread'[j])
    <2>1. CASE Looking(j)
      BY <1>1, <2>1 DEF Looking, LooksAt, Seated, Writing, Early, Rechecking, Busy, Terminal
    <2>2. CASE Staying(j)
      <3>1. StaysOn(s, t, job'[j], thread'[j])
        BY <2>2 DEF Staying
      <3>2. job'[j].pc \notin Early \union Rechecking
        BY <3>1 DEF StaysOn, OnBranch, Terminal, Early, Rechecking
      <3>3. CASE thread'[j] = t /\ (job'[j].pc = s.pc \/ s.pc \notin Writing \/ t.pc = "done")
        <4>1. t.pc \in Busy => job'[j].pc \in Writing
          BY <1>1, <3>3 DEF Seated, Busy
        <4>2. QED
          BY <1>1, <3>1, <3>2, <3>3, <4>1 DEF StaysOn, Seated
      <3>4. CASE thread'[j] = Restoring(t) /\ job'[j].pc \in {"rollback", "undo"}
        <4>1. Restoring(t).pc = "undo"
          BY <1>1 DEF Restoring, Thread
        <4>2. QED
          BY <3>1, <3>2, <3>4, <4>1 DEF StaysOn, Seated, Writing
      <3>5. QED
        BY <3>1, <3>3, <3>4 DEF StaysOn
    <2>3. CASE Creating(j)
      BY <2>3 DEF Creating, Seated, Writer, Early, Rechecking, Writing
    <2>4. CASE Leaving(j)
      BY <1>1, <2>4 DEF Leaving, Seated, Writing, Early, Rechecking, Busy, Terminal
    <2>5. CASE Deleting(j)
      BY <1>1, <2>5 DEF Deleting, Seated, Writing, Early, Rechecking, Busy, Terminal
    <2>6. CASE \E c \in Command : Giving(j, c)
      BY <1>1, <2>6 DEF Giving, Gives, Seated, Writing, Early, Rechecking, Busy
    <2>7. QED
      BY <2>1, <2>2, <2>3, <2>4, <2>5, <2>6 DEF Turning
  <1>3. QED
    BY <1>1, <1>2 DEF Others, Seating

LEMMA SeatingThread ==
  ASSUME Seating, NEW j \in Jobs, Threading(j)
  PROVE  \A k \in Jobs : Seated(job'[k], thread'[k])
  <1>1. Seated(job[j], thread[j]) /\ thread[j].pc \in Busy
    BY DEF Seating, Threading, Checks, Writes, Ceases, Compares, PutsBack, Busy
  <1>2. Seated(job'[j], thread'[j])
    BY <1>1 DEF Threading, Checks, Writes, Ceases, Compares, PutsBack, Seated, Busy, Writing,
       Early, Rechecking
  <1>3. QED
    BY <1>2 DEF Threading, Seating

\* A switch of the user moves no job and no thread on.
LEMMA SwitchTurn ==
  ASSUME Steady, NEW b \in Branches, UserSwitch(b)
  PROVE  /\ thread' = thread /\ edited' = edited
         /\ \A k \in Jobs :
              /\ job'[k].pc = job[k].pc /\ job'[k].ends = job[k].ends
              /\ AtWork(k) => job'[k].moved
              /\ ~ AtWork(k) => job'[k] = job[k]
  <1> DEFINE Next1(k) == IF AtWork(k) THEN [job[k] EXCEPT !.moved = TRUE] ELSE job[k]
  <1>1. UNCHANGED <<thread, edited>> /\ job' = [k \in Jobs |-> Next1(k)]
    BY DEF UserSwitch
  <1>2. ASSUME NEW k \in Jobs
        PROVE  /\ Next1(k).pc = job[k].pc /\ Next1(k).ends = job[k].ends
               /\ AtWork(k) => Next1(k).moved
               /\ ~ AtWork(k) => Next1(k) = job[k]
    <2>1. /\ [job[k] EXCEPT !.moved = TRUE].pc = job[k].pc
          /\ [job[k] EXCEPT !.moved = TRUE].ends = job[k].ends
          /\ [job[k] EXCEPT !.moved = TRUE].moved = TRUE
      BY SteadyJob DEF Job
    <2>2. QED
      BY <2>1
  <1> HIDE DEF Next1
  <1>3. QED
    BY <1>1, <1>2

LEMMA NextSeating ==
  ASSUME Once, Seating, [Next]_vars
  PROVE  Seating'
  <1>1. Steady' /\ Steady /\ ~ Stray
    BY NextSteady DEF Seating, Steady, Apart, Stray
  <1>2. ASSUME NEW j \in Jobs, JobStep(j) \/ Cancel(j) \/ ThreadStep(j)
        PROVE  \A k \in Jobs : Seated(job'[k], thread'[k])
    BY <1>2, JobTurn, ThreadTurn, SeatingTurn, SeatingThread
  <1>3. ASSUME UNCHANGED <<job, thread>>
        PROVE  \A k \in Jobs : Seated(job'[k], thread'[k])
    BY <1>3 DEF Seating
  <1>4. ASSUME NEW b \in Branches, UserSwitch(b)
        PROVE  \A k \in Jobs : Seated(job'[k], thread'[k])
    BY <1>1, <1>4, SwitchTurn DEF Seating, Seated
  <1>5. \A k \in Jobs : Seated(job'[k], thread'[k])
    BY <1>1, <1>2, <1>3, <1>4
       DEF Next, UserStep, UserEdit, UserStage, UserCommit, vars
  <1>6. QED
    BY <1>1, <1>5 DEF Seating

LEMMA SeatingInit ==
  ASSUME Init
  PROVE  Seating
  <1>1. \A j \in Jobs : job[j] = NewJob /\ thread[j] = NoThread
    BY DEF Init
  <1>2. \A j \in Jobs : Seated(job[j], thread[j])
    BY <1>1 DEF Seated, NewJob, NoThread, Busy
  <1>3. QED
    BY <1>2, SteadyInit DEF Seating

\* While a job has the lock no other job's thread touches a file.  The bound on
\* cancellations is needed: the thread of a job cancelled a second time goes on
\* (fix_service.py:417) while another job takes the lock that the first released.
THEOREM OneAppliesAtATime ==
  ASSUME Once
  PROVE  Spec => []OneApplyAtATime
  <1>1. Init => Seating
    BY SeatingInit
  <1>2. Seating /\ [Next]_vars => Seating'
    BY NextSeating
  <1>3. Seating => OneApplyAtATime
    <2>1. SUFFICES ASSUME Seating, NEW j \in Jobs, NEW k \in Jobs, lock = j, thread[k].pc \in Busy
                   PROVE  k = j
      BY DEF OneApplyAtATime, Busy
    <2>2. job[k].pc \in Holding
      BY <2>1 DEF Seating, Seated, Writing, Holding, OnBranch
    <2>3. QED
      BY <2>1, <2>2 DEF Seating, Steady, LockHeld
  <1>4. QED
    BY <1>1, <1>2, <1>3, PTL DEF Spec

-----------------------------------------------------------------------------
(* What is in the index or in the commit checked out stays on disk: no write *)
(* and no rollback takes it off, as long as no user switches under a job.    *)

Unmoved == \A j \in Jobs : ~ job[j].moved
Placid == Seating /\ Unmoved

\* The files a thread has compared and is about to replace.
Windowed(t) == t.due \union (IF t.pc = "write" THEN t.todo ELSE {})

\* An edit made, or the fix of a job whose thread is not at work.
Settled(x) == x \in DOMAIN edited \/ (x \in Jobs /\ thread[x].pc \notin Busy)
Steadfast(x, f) ==
  /\ x \in index[f] \/ x \in tip[head][f] => x \in work[f]
  /\ \A j \in Jobs : f \in Windowed(thread[j]) /\ x \in work[f] => x \in job[j].read[f]

LEMMA Unwindowed ==
  ASSUME Seating, NEW j \in Jobs, thread[j].pc \notin Busy
  PROVE  Windowed(thread[j]) = {}
  BY DEF Windowed, Seating, Seated, Busy

\* The thread at work is that of the job with the lock.
LEMMA BusyHolder ==
  ASSUME Seating, NEW j \in Jobs, NEW k \in Jobs, job[j].pc \in Holding, thread[k].pc \in Busy
  PROVE  k = j
  <1>1. job[k].pc \in Holding
    BY DEF Seating, Seated, Writing, Holding, OnBranch
  <1>2. QED
    BY <1>1 DEF Seating, Steady, LockHeld

LEMMA Trees ==
  ASSUME Seating
  PROVE  /\ index \in Tree /\ work \in Tree /\ head \in Branches /\ tip[head] \in Tree
         /\ tip \in [Branches -> Tree \union {NoCommit}]
         /\ DOMAIN edited \subseteq Edits /\ DOMAIN edited \intersect Jobs = {}
  BY EnvironmentAssumption DEF Seating, Steady, TypeOK, Exists

\* What a checkout of branch b takes off the disk is in the branch it leaves, and what
\* it leaves staged or on disk is what was there, or what b has.
LEMMA Checkout ==
  ASSUME Seating, NEW b \in Branches, Switchable(b), Effect(Git("checkout", b)), NEW f \in Files
  PROVE  /\ tip' = tip /\ head' = b /\ tip[b] \in Tree
         /\ \/ Kept(b, f) /\ index'[f] = index[f] /\ work'[f] = work[f]
            \/ /\ index'[f] = tip[b][f] /\ work'[f] = tip[b][f] /\ work[f] = tip[head][f]
               /\ ~ Kept(b, f)
  <1>1. /\ tip' = tip /\ head' = b
        /\ index' = [g \in Files |-> IF Kept(b, g) THEN index[g] ELSE tip[b][g]]
        /\ work' = [g \in Files |-> IF Kept(b, g) THEN work[g] ELSE tip[b][g]]
    BY DEF Effect, Git
  <1>2. tip[b] \in Tree
    BY Trees DEF Switchable, Exists
  <1>3. QED
    BY <1>1, <1>2 DEF Switchable

LEMMA CheckoutHolds ==
  ASSUME Seating, NEW b \in Branches, Switchable(b), Effect(Git("checkout", b)), NEW f \in Files,
         NEW x, x \in index[f] \/ x \in tip[head][f] => x \in work[f]
  PROVE  x \in index'[f] \/ x \in tip'[head'][f] => x \in work'[f]
  <1>1. /\ tip' = tip /\ head' = b
        /\ \/ Kept(b, f) /\ index'[f] = index[f] /\ work'[f] = work[f]
           \/ index'[f] = tip[b][f] /\ work'[f] = tip[b][f]
    BY Checkout
  <1>2. QED
    BY <1>1 DEF Kept

LEMMA HoldsAt ==
  ASSUME NEW x, NEW f \in Files,
         x \in index'[f] \/ x \in tip'[head'][f] => x \in work'[f],
         \A k \in Jobs : f \in Windowed(thread'[k]) /\ x \in work'[f] => x \in job'[k].read[f]
  PROVE  Steadfast(x, f)'
  BY DEF Steadfast

LEMMA HoldTurn ==
  ASSUME Seating, NEW j \in Jobs, Turning(j), NEW x, NEW f \in Files, Steadfast(x, f)
  PROVE  Steadfast(x, f)'
  <1> DEFINE s == job[j]
             t == thread[j]
  <1>1. /\ Others(j) /\ index \in Tree /\ work \in Tree /\ head \in Branches
        /\ tip[head] \in Tree /\ tip \in [Branches -> Tree \union {NoCommit}]
        /\ s \in Job /\ t \in Thread
    BY Trees, SteadyJob
       DEF Turning, Looking, Staying, Creating, Leaving, Deleting, Giving, Seating
  <1>2. ASSUME work' = work,
               x \in index'[f] \/ x \in tip'[head'][f] => x \in work'[f],
               f \in Windowed(thread'[j]) => f \in Windowed(t) /\ job'[j].read = s.read
        PROVE  Steadfast(x, f)'
    <2>1. ASSUME NEW k \in Jobs, f \in Windowed(thread'[k]), x \in work'[f]
          PROVE  x \in job'[k].read[f]
      BY <1>1, <1>2, <2>1 DEF Others, Steadfast
    <2>2. QED
      BY <1>2, <2>1, HoldsAt
  <1>3. CASE Looking(j)
    <2>1. Windowed(thread'[j]) = {}
      BY <1>3, Unwindowed DEF Looking, LooksAt, Seating, Seated, Busy
    <2>2. QED
      BY <1>2, <1>3, <2>1 DEF Looking, repo, Steadfast
  <1>4. CASE Staying(j)
    <2>1. Windowed(thread'[j]) \subseteq Windowed(t)
      <3>1. Restoring(t).pc = "undo" /\ Restoring(t).due = t.due
        BY <1>1 DEF Restoring, Thread
      <3>2. QED
        BY <1>4, <3>1 DEF Staying, StaysOn, Windowed
    <2>2. QED
      BY <1>2, <1>4, <2>1 DEF Staying, StaysOn, Alike, repo, Steadfast
  <1>5. CASE \E c \in Command : Giving(j, c)
    <2>1. PICK c \in Command : Giving(j, c)
      BY <1>5
    <2>2. /\ head' = head /\ work' = work
          /\ index'[f] \in {index[f], work[f], tip[head][f]}
          /\ tip'[head][f] \in {tip[head][f], index[f]}
      <3>1. Effect(c)
        BY <2>1 DEF Giving
      <3>2. CASE c.cmd = "add"
        <4>1. /\ index' = [g \in Files |-> IF g \in c.arg THEN work[g] ELSE index[g]]
              /\ UNCHANGED <<tip, head, work>>
          BY <3>1, <3>2 DEF Effect
        <4>2. QED
          BY <4>1
      <3>3. CASE c.cmd = "commit"
        <4>1. tip' = [tip EXCEPT ![head] = index] /\ UNCHANGED <<head, index, work>>
          BY <3>1, <3>3 DEF Effect
        <4>2. QED
          BY <1>1, <4>1
      <3>4. CASE c.cmd = "reset"
        <4>1. /\ index' = [g \in Files |-> IF g \in c.arg THEN tip[head][g] ELSE index[g]]
              /\ UNCHANGED <<tip, head, work>>
          BY <3>1, <3>4 DEF Effect
        <4>2. QED
          BY <4>1
      <3>5. c.cmd \in {"add", "commit", "reset"}
        BY <2>1 DEF Giving, Gives, Git
      <3>6. QED
        BY <3>2, <3>3, <3>4, <3>5
    <2>3. QED
      BY <1>2, <2>1, <2>2 DEF Giving, Alike, Steadfast
  <1>6. CASE Creating(j)
    <2>1. Windowed(thread'[j]) = {}
      BY <1>6 DEF Creating, Windowed, Writer
    <2>2. /\ tip' = [tip EXCEPT ![s.branch] = tip[head]] /\ head' = s.branch
          /\ index' = index /\ work' = work
      BY <1>6 DEF Creating, Effect, Git
    <2>3. tip'[head'] = tip[head]
      BY <1>1, <2>2 DEF Job
    <2>4. QED
      BY <1>2, <2>1, <2>2, <2>3 DEF Steadfast
  <1>7. CASE Leaving(j)
    <2>1. s.from \in Branches /\ Switchable(s.from) /\ Effect(Git("checkout", s.from))
      BY <1>1, <1>7 DEF Leaving, Job
    <2>2. x \in index'[f] \/ x \in tip'[head'][f] => x \in work'[f]
      BY <2>1, CheckoutHolds DEF Steadfast
    <2>3. ASSUME NEW k \in Jobs
          PROVE  Windowed(thread'[k]) = {}
      <3>1. thread'[k] = thread[k] /\ s.pc = "restore" /\ s.pc \in Holding
        BY <1>1, <1>7 DEF Leaving, Others, Holding, OnBranch
      <3>2. thread[k].pc \notin Busy
        BY <3>1, BusyHolder DEF Seating, Seated, Writing
      <3>3. QED
        BY <3>1, <3>2, Unwindowed
    <2>4. QED
      BY <2>2, <2>3, HoldsAt
  <1>8. CASE Deleting(j)
    <2>1. /\ tip' = [tip EXCEPT ![s.branch] = NoCommit] /\ head' = head /\ index' = index
          /\ work' = work /\ head # s.branch
      BY <1>8 DEF Deleting, Effect, Git
    <2>2. tip'[head'] = tip[head]
      BY <1>1, <2>1
    <2>3. QED
      BY <1>2, <1>8, <2>1, <2>2 DEF Deleting, Alike, Steadfast
  <1>9. QED
    BY <1>3, <1>4, <1>5, <1>6, <1>7, <1>8 DEF Turning

LEMMA HoldThread ==
  ASSUME Seating, NEW j \in Jobs, Threading(j), NEW x, NEW f \in Files, Settled(x), Steadfast(x, f)
  PROVE  Steadfast(x, f)'
  <1> DEFINE t == thread[j]
             t2 == thread'[j]
  <1>1. /\ t.pc \in Busy /\ x # j /\ index \in Tree /\ work \in Tree /\ Seated(job[j], t)
        /\ UNCHANGED <<tip, head, index, job>>
        /\ \A k \in Jobs \ {j} : thread'[k] = thread[k]
    <2>1. t.pc \in Busy
      BY DEF Threading, Checks, Writes, Ceases, Compares, PutsBack, Busy
    <2>2. QED
      BY <2>1, Trees DEF Settled, Seating, Threading
  <1>2. ASSUME NEW k \in Jobs \ {j}
        PROVE  Windowed(thread'[k]) = {}
    <2>1. thread[k].pc \notin Busy
      <3>1. job[j].pc \in Holding
        BY <1>1 DEF Seated, Writing, Holding, OnBranch
      <3>2. QED
        BY <3>1, BusyHolder
    <2>2. QED
      BY <1>1, <2>1, Unwindowed
  <1>3. ASSUME x \in work[f] => x \in work'[f],
               f \in Windowed(t2) /\ x \in work'[f] => x \in job[j].read[f]
        PROVE  Steadfast(x, f)'
    <2>1. x \in index'[f] \/ x \in tip'[head'][f] => x \in work'[f]
      BY <1>1, <1>3 DEF Steadfast
    <2>2. \A k \in Jobs : f \in Windowed(thread'[k]) /\ x \in work'[f] => x \in job'[k].read[f]
      BY <1>1, <1>2, <1>3
    <2>3. QED
      BY <2>1, <2>2, HoldsAt
  <1>4. f \in Windowed(t) /\ x \in work[f] => x \in job[j].read[f]
    BY DEF Steadfast
  <1>5. CASE Checks(j, t, t2)
    <2>1. t2.due = {} /\ t2.pc = "write" /\ work' = work
      BY <1>1, <1>5 DEF Checks, Seated
    <2>2. f \in Windowed(t2) => work[f] = job[j].read[f]
      BY <1>5, <2>1 DEF Checks, Windowed
    <2>3. QED
      BY <1>3, <2>1, <2>2
  <1>6. CASE Writes(j, t, t2)
    <2>1. PICK g \in t.todo : work' = [work EXCEPT ![g] = Fixed(j, g)] /\ t2.todo = t.todo \ {g}
      BY <1>6 DEF Writes
    <2>2. /\ Windowed(t) = t.todo /\ Windowed(t2) = t.todo \ {g}
      BY <1>1, <1>6, <2>1 DEF Writes, Windowed, Seated
    <2>3. CASE f = g
      <3>1. work'[f] = job[j].read[f] \union {j}
        BY <1>1, <2>1, <2>3 DEF Fixed, Tree
      <3>2. QED
        BY <1>1, <1>3, <1>4, <2>1, <2>2, <2>3, <3>1
    <2>4. CASE f # g
      <3>1. work'[f] = work[f]
        BY <1>1, <2>1, <2>4 DEF Tree
      <3>2. QED
        BY <1>3, <1>4, <2>2, <3>1
    <2>5. QED
      BY <2>3, <2>4
  <1>7. CASE Ceases(t, t2)
    <2>1. Windowed(t2) \subseteq Windowed(t) /\ work' = work
      BY <1>7 DEF Ceases, Windowed
    <2>2. QED
      BY <1>3, <1>4, <2>1
  <1>8. CASE Compares(j, t, t2)
    <2>1. f \in Windowed(t2) => f \in Windowed(t) \/ work[f] = Fixed(j, f)
      BY <1>8 DEF Compares, Windowed
    <2>2. work' = work
      BY <1>8 DEF Compares
    <2>3. x \in Fixed(j, f) => x \in job[j].read[f]
      BY <1>1 DEF Fixed
    <2>4. QED
      BY <1>3, <1>4, <2>1, <2>2, <2>3
  <1>9. CASE PutsBack(j, t, t2)
    <2>1. PICK g \in t.due : /\ t2.due = t.due \ {g}
                             /\ work' = work \/ work' = [work EXCEPT ![g] = job[j].read[g]]
      BY <1>9 DEF PutsBack
    <2>2. Windowed(t2) = t.due \ {g} /\ Windowed(t) = t.due
      BY <1>9, <2>1 DEF PutsBack, Windowed
    <2>3. CASE f = g /\ work' # work
      <3>1. work'[f] = job[j].read[f]
        BY <1>1, <2>1, <2>3 DEF Tree
      <3>2. QED
        BY <1>3, <1>4, <2>1, <2>2, <2>3, <3>1
    <2>4. CASE f # g \/ work' = work
      <3>1. work'[f] = work[f]
        BY <1>1, <2>1, <2>4 DEF Tree
      <3>2. QED
        BY <1>3, <1>4, <2>2, <3>1
    <2>5. QED
      BY <2>3, <2>4
  <1>10. QED
    BY <1>5, <1>6, <1>7, <1>8, <1>9 DEF Threading

\* The user switches only while no job is at work.
LEMMA CalmSwitch ==
  ASSUME Placid, Unmoved', NEW b \in Branches, UserSwitch(b)
  PROVE  /\ UNCHANGED <<thread, edited>> /\ \A k \in Jobs : job'[k] = job[k]
         /\ \A k \in Jobs : job[k].pc \notin Holding /\ Windowed(thread[k]) = {}
         /\ Switchable(b) /\ Effect(Git("checkout", b)) /\ b # head
  <1>1. /\ UNCHANGED <<thread, edited>>
        /\ \A k \in Jobs : /\ AtWork(k) => job'[k].moved
                           /\ ~ AtWork(k) => job'[k] = job[k]
    BY SwitchTurn DEF Placid, Seating
  <1>2. \A k \in Jobs : ~ AtWork(k) /\ job'[k] = job[k]
    BY <1>1 DEF Unmoved
  <1>3. \A k \in Jobs : job[k].pc \notin Holding /\ Windowed(thread[k]) = {}
    BY <1>2 DEF AtWork, Placid, Seating, Steady, LockHeld, Windowed
  <1>4. QED
    BY <1>1, <1>2, <1>3 DEF UserSwitch

LEMMA HoldUser ==
  ASSUME Placid, Unmoved', UserStep, NEW x, NEW f \in Files, Settled(x), Steadfast(x, f)
  PROVE  Steadfast(x, f)'
  <1>1. /\ index \in Tree /\ work \in Tree /\ head \in Branches /\ tip[head] \in Tree
        /\ tip \in [Branches -> Tree \union {NoCommit}] /\ Seating
        /\ DOMAIN edited \subseteq Edits /\ DOMAIN edited \intersect Jobs = {}
    BY Trees DEF Placid
  <1>2. ASSUME x \in index'[f] \/ x \in tip'[head'][f] => x \in work'[f],
               UNCHANGED <<job, thread>>, x \in work'[f] => x \in work[f]
        PROVE  Steadfast(x, f)'
    <2>1. \A k \in Jobs : f \in Windowed(thread'[k]) /\ x \in work'[f] => x \in job'[k].read[f]
      BY <1>2 DEF Steadfast
    <2>2. QED
      BY <1>2, <2>1, HoldsAt
  <1>3. ASSUME NEW u \in Edits, NEW g \in Files, UserEdit(u, g)
        PROVE  Steadfast(x, f)'
    <2>1. /\ x # u /\ work' = [work EXCEPT ![g] = work[g] \union {u}]
          /\ UNCHANGED <<tip, head, index, job, thread>>
      BY <1>1, <1>3, EnvironmentAssumption DEF UserEdit, Settled
    <2>2. x \in work'[f] <=> x \in work[f]
      BY <1>1, <2>1 DEF Tree
    <2>3. QED
      BY <1>2, <2>1, <2>2 DEF Steadfast
  <1>4. ASSUME NEW g \in Files, UserStage(g)
        PROVE  Steadfast(x, f)'
    <2>1. /\ index' = [h \in Files |-> IF h \in {g} THEN work[h] ELSE index[h]]
          /\ UNCHANGED <<tip, head, work, job, thread>>
      BY <1>4 DEF UserStage, Effect, Git
    <2>2. QED
      BY <1>2, <2>1 DEF Steadfast
  <1>5. ASSUME UserCommit
        PROVE  Steadfast(x, f)'
    <2>1. /\ index' = work /\ tip' = [tip EXCEPT ![head] = work]
          /\ UNCHANGED <<head, work, job, thread>>
      BY <1>5 DEF UserCommit
    <2>2. tip'[head'] = work
      BY <1>1, <2>1
    <2>3. QED
      BY <1>2, <2>1, <2>2
  <1>6. ASSUME NEW b \in Branches, UserSwitch(b)
        PROVE  Steadfast(x, f)'
    <2>1. /\ UNCHANGED <<thread, edited>> /\ \A k \in Jobs : Windowed(thread[k]) = {}
          /\ Switchable(b) /\ Effect(Git("checkout", b))
      BY <1>6, CalmSwitch
    <2>2. x \in index'[f] \/ x \in tip'[head'][f] => x \in work'[f]
      BY <1>1, <2>1, CheckoutHolds DEF Steadfast
    <2>3. \A k \in Jobs : Windowed(thread'[k]) = {}
      BY <2>1
    <2>4. QED
      BY <2>2, <2>3, HoldsAt
  <1>7. QED
    BY <1>3, <1>4, <1>5, <1>6 DEF UserStep

LEMMA HoldFast ==
  ASSUME Once, Placid, Unmoved', [Next]_vars,
         NEW x, NEW f \in Files, Settled(x), Steadfast(x, f)
  PROVE  Steadfast(x, f)'
  <1>1. Seating /\ ~ Stray
    BY DEF Placid, Seating, Steady, Apart, Stray
  <1>2. ASSUME NEW j \in Jobs, JobStep(j) \/ Cancel(j)
        PROVE  Steadfast(x, f)'
    BY <1>1, <1>2, JobTurn, HoldTurn
  <1>3. ASSUME NEW j \in Jobs, ThreadStep(j)
        PROVE  Steadfast(x, f)'
    BY <1>1, <1>3, ThreadTurn, HoldThread
  <1>4. CASE UNCHANGED vars
    BY <1>4 DEF vars, repo, Steadfast
  <1>5. QED
    BY <1>1, <1>2, <1>3, <1>4, HoldUser DEF Next

-----------------------------------------------------------------------------
(* What the user edits.  A branch that no job is about to leave or to delete *)
(* keeps its commit, and a job that deletes its branch goes back to one that *)
(* has what the fix branch started from.                                     *)

Returning == {"pick", "create"} \union OnBranch
Mentions(s, b) ==
  \/ s.pc \in Returning /\ s.from = b
  \/ s.pc \in Marked /\ s.branch = b
Frozen(b) ==
  /\ b # head /\ Exists(b)
  /\ \A j \in Jobs : ~ Mentions(job[j], b)
Shelved(u, f) == \E b \in Branches : Frozen(b) /\ u \in tip[b][f]

\* The base of a job that has looked at HEAD: what it goes back to.
Rooted == {"branch", "pick", "create"} \union OnBranch
BaseOf(s) == IF s.pc \in OnBranch THEN s.from ELSE head
Backed(u, f, s) ==
  s.pc \in Rooted /\ s.sha # NoCommit /\ u \in s.sha[f] =>
    u \in tip[BaseOf(s)][f] \/ Shelved(u, f)
Guarded(u, f) ==
  /\ Steadfast(u, f)
  /\ u \in work[f] \/ Shelved(u, f)
  /\ \A j \in Jobs : Backed(u, f, job[j])

\* An edit not made is nowhere.
Absent(u, f) ==
  /\ u \notin work[f] /\ u \notin index[f]
  /\ \A b \in Branches : Exists(b) => u \notin tip[b][f]
  /\ \A j \in Jobs :
       u \notin job[j].read[f] /\ (job[j].sha # NoCommit => u \notin job[j].sha[f])

Minded(u) ==
  IF u \in DOMAIN edited THEN edited[u].inWindow \/ Guarded(u, edited[u].file)
  ELSE \A f \in Files : Absent(u, f)
Located ==
  \A j \in Jobs :
    /\ job[j].pc \in {"pick", "create"} => head = job[j].from
    /\ job[j].pc \in OnBranch => job[j].from # job[j].branch
Retaining == Located /\ \A u \in Edits : Minded(u)

\* The job that works in the tree is alone, and on its branch.
LEMMA OnlyHolder ==
  ASSUME Placid, NEW j \in Jobs, job[j].pc \in Holding
  PROVE  /\ \A k \in Jobs \ {j} : job[k].pc \notin Holding
         /\ job[j].pc \in OnBranch => head = job[j].branch
         /\ job[j].pc \in Marked => job[j].branch \in Branches
  BY SteadyJob DEF Placid, Unmoved, Seating, Steady, LockHeld, Apart, Job

LEMMA Unmentioned ==
  ASSUME NEW s, s.pc \notin Holding, NEW b
  PROVE  ~ Mentions(s, b)
  BY DEF Mentions, Returning, Marked, Holding, Rechecking

LEMMA FrozenTurn ==
  ASSUME Placid, NEW j \in Jobs, Turning(j), NEW b \in Branches, Frozen(b)
  PROVE  Frozen(b)' /\ tip'[b] = tip[b]
  <1> DEFINE s == job[j]
             s2 == job'[j]
  <1>1. /\ Others(j) /\ b # head /\ Exists(b) /\ ~ Mentions(s, b) /\ s \in Job
        /\ \A k \in Jobs \ {j} : ~ Mentions(job[k], b)
        /\ tip \in [Branches -> Tree \union {NoCommit}]
    BY Trees, SteadyJob
       DEF Turning, Looking, Staying, Creating, Leaving, Deleting, Giving, Frozen, Placid, Seating
  <1>2. ASSUME tip'[b] = tip[b], b # head', ~ Mentions(s2, b)
        PROVE  Frozen(b)'
    <2>1. \A k \in Jobs : ~ Mentions(job'[k], b)
      BY <1>1, <1>2 DEF Others
    <2>2. QED
      BY <1>1, <1>2, <2>1 DEF Frozen, Exists, Mentions
  <1>3. CASE Looking(j)
    <2>1. ~ Mentions(s2, b)
      BY <1>1, <1>3 DEF Looking, LooksAt, Mentions, Returning, Marked, OnBranch, Early, Rechecking,
         Terminal
    <2>2. QED
      BY <1>1, <1>2, <1>3, <2>1 DEF Looking, repo
  <1>4. CASE Staying(j)
    <2>1. ~ Mentions(s2, b)
      BY <1>1, <1>4 DEF Staying, StaysOn, Alike, Mentions, Returning, Marked, Terminal
    <2>2. QED
      BY <1>1, <1>2, <1>4, <2>1 DEF Staying, repo
  <1>5. CASE \E c \in Command : Giving(j, c)
    <2>1. PICK c \in Command : Giving(j, c)
      BY <1>5
    <2>2. ~ Mentions(s2, b)
      BY <1>1, <2>1 DEF Giving, Gives, Alike, Mentions, Returning, Marked, OnBranch
    <2>3. c.cmd \in {"add", "commit", "reset"}
      BY <2>1 DEF Giving, Gives, Git
    <2>4. head' = head /\ (tip' = tip \/ tip' = [tip EXCEPT ![head] = index])
      BY <2>1, <2>3 DEF Giving, Effect
    <2>5. QED
      BY <1>1, <1>2, <2>2, <2>4
  <1>6. CASE Creating(j)
    <2>1. tip' = [tip EXCEPT ![s.branch] = tip[head]] /\ head' = s.branch /\ ~ Exists(s.branch)
      BY <1>6 DEF Creating, Effect, Git
    <2>2. ~ Mentions(s2, b)
      BY <1>1, <1>6 DEF Creating, Alike, Mentions, Returning, Marked
    <2>3. QED
      BY <1>1, <1>2, <2>1, <2>2
  <1>7. CASE Leaving(j)
    <2>1. tip' = tip /\ head' = s.from
      BY <1>7 DEF Leaving, Effect, Git
    <2>2. ~ Mentions(s2, b) /\ b # s.from
      BY <1>1, <1>7 DEF Leaving, Alike, Mentions, Returning, Marked, OnBranch, Terminal
    <2>3. QED
      BY <1>1, <1>2, <2>1, <2>2
  <1>8. CASE Deleting(j)
    <2>1. tip' = [tip EXCEPT ![s.branch] = NoCommit] /\ head' = head
      BY <1>8 DEF Deleting, Effect, Git
    <2>2. ~ Mentions(s2, b) /\ b # s.branch
      BY <1>1, <1>8 DEF Deleting, Mentions, Returning, Marked, OnBranch, Terminal
    <2>3. QED
      BY <1>1, <1>2, <2>1, <2>2
  <1>9. QED
    BY <1>2, <1>3, <1>4, <1>5, <1>6, <1>7, <1>8 DEF Turning

LEMMA ShelvedTurn ==
  ASSUME Placid, NEW j \in Jobs, Turning(j), NEW u, NEW f, Shelved(u, f)
  PROVE  Shelved(u, f)'
  BY FrozenTurn DEF Shelved

LEMMA LocatedTurn ==
  ASSUME Placid, Located, NEW j \in Jobs, Turning(j)
  PROVE  Located'
  <1> DEFINE s == job[j]
             s2 == job'[j]
  <1>1. /\ Others(j) /\ Exists(head) /\ (s.pc \in {"pick", "create"} => head = s.from)
        /\ (s.pc \in OnBranch => s.from # s.branch)
    BY DEF Turning, Looking, Staying, Creating, Leaving, Deleting, Giving, Placid, Seating,
       Steady, TypeOK, Located
  <1>2. /\ s2.pc \in {"pick", "create"} => head' = s2.from
        /\ s2.pc \in OnBranch => s2.from # s2.branch
    <2>1. CASE Looking(j)
      <3>1. s2.pc \notin OnBranch /\ head' = head
        BY <2>1 DEF Looking, LooksAt, repo, Early, Rechecking, OnBranch, Terminal
      <3>2. QED
        BY <1>1, <2>1, <3>1 DEF Looking, LooksAt
    <2>2. CASE Staying(j)
      BY <1>1, <2>2 DEF Staying, StaysOn, Alike, OnBranch, Terminal
    <2>3. CASE \E c \in Command : Giving(j, c)
      BY <1>1, <2>3 DEF Giving, Gives, Alike, OnBranch
    <2>4. CASE Creating(j)
      BY <1>1, <2>4 DEF Creating, Alike
    <2>5. CASE Leaving(j)
      BY <2>5 DEF Leaving, OnBranch, Terminal
    <2>6. CASE Deleting(j)
      BY <2>6 DEF Deleting, OnBranch, Terminal
    <2>7. QED
      BY <2>1, <2>2, <2>3, <2>4, <2>5, <2>6 DEF Turning
  <1>3. ASSUME NEW k \in Jobs \ {j}
        PROVE  /\ job'[k].pc \in {"pick", "create"} => head' = job'[k].from
               /\ job'[k].pc \in OnBranch => job'[k].from # job'[k].branch
    <2>1. ASSUME job[k].pc \in {"pick", "create"}
          PROVE  head' = head
      <3>1. s.pc \notin Holding
        BY <1>3, <2>1, OnlyHolder DEF Holding, Rechecking
      <3>2. Looking(j)
        BY <3>1 DEF Turning, Staying, StaysOn, Creating, Leaving, Deleting, Giving, Gives, Holding,
           OnBranch, Rechecking
      <3>3. QED
        BY <3>2 DEF Looking, repo
    <2>2. QED
      BY <1>1, <2>1 DEF Others, Located
  <1>4. QED
    BY <1>2, <1>3 DEF Located

\* An edit that is not made is nowhere, and no step of a job or thread brings it.
LEMMA AbsentTurn ==
  ASSUME Placid, NEW j \in Jobs, Turning(j), NEW u, NEW f \in Files, Absent(u, f)
  PROVE  Absent(u, f)'
  <1> DEFINE s == job[j]
             s2 == job'[j]
  <1>1. /\ Others(j) /\ s \in Job /\ index \in Tree /\ work \in Tree /\ head \in Branches
        /\ tip[head] \in Tree /\ tip \in [Branches -> Tree \union {NoCommit}] /\ Exists(head)
        /\ u \notin tip[head][f]
    BY Trees, SteadyJob DEF Turning, Looking, Staying, Creating, Leaving, Deleting, Giving, Placid,
       Seating, Absent, Exists, Steady, TypeOK
  <1>2. u \notin s2.read[f] /\ (s2.sha # NoCommit => u \notin s2.sha[f])
    <2>1. CASE Alike(s, s2)
      BY <2>1 DEF Alike, Absent
    <2>2. CASE Looking(j)
      <3>1. s2.read = s.read \/ \E g \in Files : s2.read = [s.read EXCEPT ![g] = work[g]]
        BY <2>2 DEF Looking, LooksAt
      <3>2. s.read \in [Files -> Content]
        BY <1>1 DEF Job
      <3>3. s2.read[f] \in {s.read[f], work[f]}
        BY <3>1, <3>2
      <3>4. s2.sha = s.sha \/ s2.sha = tip[head]
        BY <2>2 DEF Looking, LooksAt
      <3>5. QED
        BY <1>1, <3>3, <3>4 DEF Absent
    <2>3. QED
      BY <2>1, <2>2 DEF Turning, Staying, StaysOn, Creating, Leaving, Deleting, Giving
  <1>3. ASSUME NEW k \in Jobs
        PROVE  u \notin job'[k].read[f] /\ (job'[k].sha # NoCommit => u \notin job'[k].sha[f])
    BY <1>1, <1>2 DEF Others, Absent
  <1>4. SUFFICES /\ u \notin work'[f] /\ u \notin index'[f]
                 /\ \A b \in Branches : tip'[b] # NoCommit => u \notin tip'[b][f]
    BY <1>3 DEF Absent, Exists
  <1>5. CASE UNCHANGED repo
    BY <1>5 DEF repo, Absent, Exists
  <1>6. CASE \E b \in Branches : Switchable(b) /\ Effect(Git("checkout", b))
    <2>1. PICK b \in Branches : Switchable(b) /\ Effect(Git("checkout", b))
      BY <1>6
    <2>2. /\ tip' = tip /\ tip[b] \in Tree /\ Exists(b)
          /\ index'[f] \in {index[f], tip[b][f]} /\ work'[f] \in {work[f], tip[b][f]}
      BY <2>1, Checkout DEF Placid, Switchable
    <2>3. QED
      BY <2>2 DEF Absent, Exists
  <1>7. CASE \E c \in Command : Giving(j, c)
    <2>1. PICK c \in Command : Giving(j, c)
      BY <1>7
    <2>2. c.cmd \in {"add", "commit", "reset"} /\ Effect(c)
      BY <2>1 DEF Giving, Gives, Git
    <2>3. CASE c.cmd = "add"
      <3>1. /\ index' = [g \in Files |-> IF g \in c.arg THEN work[g] ELSE index[g]]
            /\ UNCHANGED <<tip, head, work>>
        BY <2>2, <2>3 DEF Effect
      <3>2. QED
        BY <3>1 DEF Absent, Exists
    <2>4. CASE c.cmd = "commit"
      <3>1. tip' = [tip EXCEPT ![head] = index] /\ UNCHANGED <<head, index, work>>
        BY <2>2, <2>4 DEF Effect
      <3>2. QED
        BY <1>1, <3>1 DEF Absent, Exists
    <2>5. CASE c.cmd = "reset"
      <3>1. /\ index' = [g \in Files |-> IF g \in c.arg THEN tip[head][g] ELSE index[g]]
            /\ UNCHANGED <<tip, head, work>>
        BY <2>2, <2>5 DEF Effect
      <3>2. QED
        BY <1>1, <3>1 DEF Absent, Exists
    <2>6. QED
      BY <2>2, <2>3, <2>4, <2>5
  <1>8. CASE Creating(j)
    <2>1. tip' = [tip EXCEPT ![s.branch] = tip[head]] /\ index' = index /\ work' = work
      BY <1>8 DEF Creating, Effect, Git
    <2>2. QED
      BY <1>1, <2>1 DEF Absent, Exists
  <1>9. CASE Deleting(j)
    <2>1. tip' = [tip EXCEPT ![s.branch] = NoCommit] /\ index' = index /\ work' = work
      BY <1>9 DEF Deleting, Effect, Git
    <2>2. QED
      BY <1>1, <2>1 DEF Absent, Exists
  <1>10. CASE Leaving(j)
    BY <1>1, <1>6, <1>10 DEF Leaving, Job
  <1>11. QED
    BY <1>5, <1>7, <1>8, <1>9, <1>10 DEF Turning, Looking, Staying

LEMMA AbsentThread ==
  ASSUME Placid, NEW j \in Jobs, Threading(j), NEW u, u # j, NEW f \in Files, Absent(u, f)
  PROVE  Absent(u, f)'
  <1>1. UNCHANGED <<tip, head, index, job>> /\ work \in Tree /\ u \notin Fixed(j, f)
    BY Trees DEF Threading, Fixed, Absent, Placid
  <1>2. \/ work' = work
        \/ \E g \in Files : work' = [work EXCEPT ![g] = Fixed(j, g)]
        \/ \E g \in Files : work' = [work EXCEPT ![g] = job[j].read[g]]
    <2>1. thread[j].todo \subseteq Files /\ thread[j].due \subseteq Files
      BY SteadyJob DEF Thread, Placid, Seating
    <2>2. QED
      BY <2>1 DEF Threading, Checks, Writes, Ceases, Compares, PutsBack
  <1>3. work'[f] \in {work[f], Fixed(j, f), job[j].read[f]}
    BY <1>1, <1>2 DEF Tree
  <1>4. u \notin work'[f]
    BY <1>1, <1>3 DEF Absent
  <1>5. QED
    BY <1>1, <1>4 DEF Absent, Exists

\* What the user does to the repository and to the history of the edits.
LEMMA UserEffects ==
  ASSUME Placid, Unmoved', UserStep
  PROVE  /\ thread' = thread /\ \A k \in Jobs : job'[k] = job[k]
         /\ \/ \E u \in Edits, f \in Files : UserEdit(u, f) /\ UNCHANGED <<tip, head, index, job>>
            \/ /\ edited' = edited
               /\ \/ /\ UNCHANGED <<tip, head, work, job>>
                     /\ \A g \in Files : index'[g] \in {index[g], work[g]}
                  \/ /\ index' = work /\ tip' = [tip EXCEPT ![head] = work]
                     /\ UNCHANGED <<head, work, job>>
                  \/ \E b \in Branches : UserSwitch(b)
  <1>1. ASSUME NEW u \in Edits, NEW f \in Files, UserEdit(u, f)
        PROVE  UNCHANGED <<tip, head, index, job, thread>>
    BY <1>1 DEF UserEdit
  <1>2. ASSUME NEW f \in Files, UserStage(f)
        PROVE  /\ UNCHANGED <<tip, head, work, job, thread, edited>>
               /\ \A g \in Files : index'[g] \in {index[g], work[g]}
    <2>1. /\ index' = [h \in Files |-> IF h \in {f} THEN work[h] ELSE index[h]]
          /\ UNCHANGED <<tip, head, work, job, thread, edited>>
      BY <1>2 DEF UserStage, Effect, Git
    <2>2. QED
      BY <2>1
  <1>3. ASSUME UserCommit
        PROVE  /\ index' = work /\ tip' = [tip EXCEPT ![head] = work]
               /\ UNCHANGED <<head, work, job, thread, edited>>
    BY <1>3 DEF UserCommit
  <1>4. ASSUME NEW b \in Branches, UserSwitch(b)
        PROVE  thread' = thread /\ edited' = edited /\ \A k \in Jobs : job'[k] = job[k]
    BY <1>4, CalmSwitch
  <1>5. QED
    BY <1>1, <1>2, <1>3, <1>4 DEF UserStep

LEMMA LocatedUser ==
  ASSUME Placid, Unmoved', UserStep, Located
  PROVE  Located'
  <1>1. CASE job' = job /\ head' = head
    BY <1>1 DEF Located
  <1>2. ASSUME NEW b \in Branches, UserSwitch(b)
        PROVE  Located'
    <2>1. \A k \in Jobs : job'[k] = job[k] /\ job[k].pc \notin Holding
      BY <1>2, CalmSwitch
    <2>2. QED
      BY <2>1 DEF Located, Holding, Rechecking
  <1>3. QED
    BY <1>1, <1>2, UserEffects

LEMMA AbsentUser ==
  ASSUME Placid, Unmoved', UserStep, NEW u, NEW f \in Files, Absent(u, f), u \notin DOMAIN edited'
  PROVE  Absent(u, f)'
  <1>1. /\ \A k \in Jobs : job'[k] = job[k]
        /\ index \in Tree /\ work \in Tree /\ head \in Branches /\ tip[head] \in Tree
        /\ tip \in [Branches -> Tree \union {NoCommit}]
    BY UserEffects, Trees DEF Placid
  <1>2. SUFFICES /\ u \notin work'[f] /\ u \notin index'[f]
                 /\ \A b \in Branches : tip'[b] # NoCommit => u \notin tip'[b][f]
    BY <1>1 DEF Absent, Exists
  <1>3. CASE \E v \in Edits, g \in Files : UserEdit(v, g) /\ UNCHANGED <<tip, head, index, job>>
    <2>1. PICK v \in Edits, g \in Files : UserEdit(v, g) /\ UNCHANGED <<tip, head, index, job>>
      BY <1>3
    <2>2. work' = [work EXCEPT ![g] = work[g] \union {v}] /\ v \in DOMAIN edited'
      BY <2>1 DEF UserEdit
    <2>3. u # v /\ (u \in work'[f] => u \in work[f])
      BY <1>1, <2>2 DEF Tree
    <2>4. QED
      BY <2>1, <2>3 DEF Absent, Exists
  <1>4. CASE UNCHANGED <<tip, work>> /\ \A g \in Files : index'[g] \in {index[g], work[g]}
    BY <1>4 DEF Absent, Exists
  <1>5. CASE index' = work /\ work' = work /\ tip' = [tip EXCEPT ![head] = work]
    BY <1>1, <1>5 DEF Absent, Exists
  <1>6. CASE \E b \in Branches : UserSwitch(b)
    <2>1. PICK b \in Branches : UserSwitch(b)
      BY <1>6
    <2>2. Switchable(b) /\ Effect(Git("checkout", b)) /\ Exists(b)
      BY <2>1, CalmSwitch DEF Switchable
    <2>3. /\ tip' = tip
          /\ index'[f] \in {index[f], tip[b][f]} /\ work'[f] \in {work[f], tip[b][f]}
      BY <2>2, Checkout DEF Placid
    <2>4. QED
      BY <2>2, <2>3 DEF Absent, Exists
  <1>7. QED
    BY <1>3, <1>4, <1>5, <1>6, UserEffects

\* What git makes of a command given on the branch.
LEMMA Given ==
  ASSUME NEW j \in Jobs, NEW c \in Command, Giving(j, c)
  PROVE  /\ head' = head /\ work' = work
         /\ tip' = tip \/ tip' = [tip EXCEPT ![head] = index]
  <1>1. c.cmd \in {"add", "commit", "reset"} /\ Effect(c)
    BY DEF Giving, Gives, Git
  <1>2. QED
    BY <1>1 DEF Effect

\* An edit that is made, and was not made in a window, stays on disk or in a commit.
LEMMA GuardTurn ==
  ASSUME Placid, Located, NEW j \in Jobs, Turning(j), NEW u, NEW f \in Files, Guarded(u, f)
  PROVE  Guarded(u, f)'
  <1> DEFINE s == job[j]
             s2 == job'[j]
  <1>1. /\ Others(j) /\ s \in Job /\ head \in Branches /\ Exists(head) /\ tip[head] \in Tree
        /\ tip \in [Branches -> Tree \union {NoCommit}] /\ Seating
        /\ s.pc \in {"pick", "create"} => head = s.from
        /\ s.pc \in OnBranch => s.from # s.branch /\ head = s.branch
    BY Trees, SteadyJob, OnlyHolder
       DEF Turning, Looking, Staying, Creating, Leaving, Deleting, Giving, Placid, Seating,
           Steady, TypeOK, Located, Holding
  <1>2. Steadfast(u, f)'
    BY <1>1, HoldTurn DEF Guarded
  <1>3. Shelved(u, f) => Shelved(u, f)'
    BY ShelvedTurn
  <1>4. u \in work'[f] \/ Shelved(u, f)'
    <2>1. CASE work' = work
      BY <1>3, <2>1 DEF Guarded
    <2>2. CASE Leaving(j)
      <3>1. /\ s.from \in Branches /\ Switchable(s.from) /\ Effect(Git("checkout", s.from))
            /\ s.pc = "restore" /\ head = s.branch /\ s.from # head
            /\ s2.pc \in Terminal \/ (s2.pc = "delete" /\ tip[s.branch] = s.sha)
        BY <1>1, <2>2 DEF Leaving, Job, OnBranch
      <3>2. /\ tip' = tip /\ head' = s.from
            /\ work'[f] = work[f] \/ work[f] = tip[head][f]
        BY <1>1, <3>1, Checkout
      <3>3. CASE work'[f] = work[f]
        BY <1>3, <3>3 DEF Guarded
      <3>4. CASE u \in tip[head][f] /\ s2.pc \in Terminal
        <4>1. \A k \in Jobs : ~ Mentions(job'[k], head)
          <5>1. \A k \in Jobs \ {j} : job'[k] = job[k] /\ job[k].pc \notin Holding
            BY <1>1, <3>1, OnlyHolder DEF Others, Holding, OnBranch
          <5>2. s2.pc \notin Holding
            BY <3>4 DEF Terminal, Holding, OnBranch, Rechecking
          <5>3. QED
            BY <5>1, <5>2, Unmentioned
        <4>2. head' # head /\ tip'[head] # NoCommit /\ u \in tip'[head][f]
          BY <1>1, <3>1, <3>2, <3>4 DEF Exists
        <4>3. \E b \in Branches : /\ b # head' /\ tip'[b] # NoCommit /\ u \in tip'[b][f]
                                  /\ \A k \in Jobs : ~ Mentions(job'[k], b)
          BY <1>1, <4>1, <4>2
        <4>4. QED
          BY <4>3 DEF Shelved, Frozen, Exists, Mentions
      <3>5. CASE u \in tip[head][f] /\ s2.pc = "delete"
        <4>1. s.sha # NoCommit /\ u \in s.sha[f]
          BY <1>1, <3>1, <3>5 DEF Exists, Terminal
        <4>2. u \in tip[s.from][f] \/ Shelved(u, f)
          BY <3>1, <4>1 DEF Guarded, Backed, Rooted, BaseOf, OnBranch
        <4>3. QED
          BY <1>2, <1>3, <3>2, <4>2 DEF Steadfast
      <3>6. QED
        BY <1>3, <3>1, <3>2, <3>3, <3>4, <3>5 DEF Guarded
    <2>3. work' = work \/ Leaving(j)
      BY Given DEF Turning, Looking, Staying, Creating, Deleting, Effect, Git, repo
    <2>4. QED
      BY <2>1, <2>2, <2>3
  <1>5. Backed(u, f, job[j])'
    <2> DEFINE base == IF s2.pc \in OnBranch THEN s2.from ELSE head'
    <2>1. SUFFICES ASSUME s2.pc \in Rooted, s2.sha # NoCommit, u \in s2.sha[f], ~ Shelved(u, f)
                   PROVE  u \in tip'[base][f]
      BY <1>3 DEF Backed, BaseOf
    <2>2. Backed(u, f, s)
      BY DEF Guarded
    <2>3. CASE Looking(j)
      <3>1. s2.pc \in {"branch", "pick", "create"} /\ s2.sha = s.sha /\ UNCHANGED <<tip, head>>
        BY <2>1, <2>3 DEF Looking, LooksAt, repo, Rooted, OnBranch, Early, Rechecking, Terminal
      <3>2. s.pc \in {"branch", "pick", "create"} \/ tip[head] = s.sha
        BY <2>3, <3>1 DEF Looking, LooksAt
      <3>3. u \in tip[head][f]
        BY <2>1, <2>2, <3>1, <3>2 DEF Backed, Rooted, BaseOf, OnBranch
      <3>4. base = head
        BY <3>1 DEF OnBranch
      <3>5. QED
        BY <3>1, <3>3, <3>4
    <2>4. CASE Staying(j) \/ \E c \in Command : Giving(j, c)
      <3>1. s.pc \in OnBranch /\ s2.pc \in OnBranch /\ s2.sha = s.sha /\ s2.from = s.from
        BY <2>1, <2>4 DEF Staying, StaysOn, Giving, Gives, Alike, OnBranch, Rooted, Terminal
      <3>2. u \in tip[s.from][f] /\ base = s.from
        BY <2>1, <2>2, <3>1 DEF Backed, Rooted, BaseOf
      <3>3. tip' = tip \/ tip' = [tip EXCEPT ![head] = index]
        <4>1. CASE Staying(j)
          BY <4>1 DEF Staying, repo
        <4>2. CASE \E c \in Command : Giving(j, c)
          BY <4>2, Given
        <4>3. QED
          BY <2>4, <4>1, <4>2
      <3>4. s.from \in Branches
        BY <1>1 DEF Job
      <3>5. QED
        BY <1>1, <3>1, <3>2, <3>3, <3>4
    <2>5. CASE Creating(j)
      <3>1. /\ tip' = [tip EXCEPT ![s.branch] = tip[head]] /\ ~ Exists(s.branch)
            /\ s.pc = "create" /\ s2.pc = "apply" /\ s2.sha = s.sha /\ s2.from = s.from
        BY <2>5 DEF Creating, Effect, Git, Alike
      <3>2. u \in tip[head][f] /\ base = head
        BY <1>1, <2>1, <2>2, <3>1 DEF Backed, Rooted, BaseOf, OnBranch
      <3>3. QED
        BY <1>1, <3>1, <3>2
    <2>6. CASE Leaving(j) \/ Deleting(j)
      BY <2>1, <2>6 DEF Leaving, Deleting, Rooted, OnBranch, Terminal
    <2>7. QED
      BY <2>3, <2>4, <2>5, <2>6 DEF Turning
  <1>6. ASSUME NEW k \in Jobs \ {j}
        PROVE  Backed(u, f, job[k])'
    <2>1. job'[k] = job[k] /\ Backed(u, f, job[k])
      BY <1>1 DEF Others, Guarded
    <2>2. CASE job[k].pc \in Rooted
      <3>1. s.pc \notin Holding
        BY <2>2, OnlyHolder DEF Holding, Rechecking, Rooted
      <3>2. Looking(j)
        BY <3>1 DEF Turning, Staying, StaysOn, Creating, Leaving, Deleting, Giving, Gives, Holding,
           OnBranch, Rechecking
      <3>3. UNCHANGED <<tip, head>>
        BY <3>2 DEF Looking, repo
      <3>4. QED
        BY <1>3, <2>1, <3>3 DEF Backed, BaseOf
    <2>3. CASE job[k].pc \notin Rooted
      BY <2>1, <2>3 DEF Backed
    <2>4. QED
      BY <2>2, <2>3
  <1>7. QED
    BY <1>2, <1>4, <1>5, <1>6 DEF Guarded

\* No thread takes off the disk what is there: what it replaces it has read.
LEMMA ThreadKeeps ==
  ASSUME Seating, NEW j \in Jobs, Threading(j), NEW x, NEW f \in Files, x # j,
         Steadfast(x, f), x \in work[f]
  PROVE  x \in work'[f]
  <1> DEFINE t == thread[j]
             t2 == thread'[j]
  <1>1. work \in Tree /\ (f \in Windowed(t) => x \in job[j].read[f]) /\ Seated(job[j], t)
    BY Trees DEF Steadfast, Seating
  <1>2. CASE Writes(j, t, t2)
    <2>1. PICK g \in t.todo : work' = [work EXCEPT ![g] = Fixed(j, g)]
      BY <1>2 DEF Writes
    <2>2. Windowed(t) = t.todo
      BY <1>1, <1>2 DEF Writes, Windowed, Seated
    <2>3. f = g => work'[f] = job[j].read[f] \union {j}
      BY <1>1, <2>1 DEF Fixed, Tree
    <2>4. f # g => work'[f] = work[f]
      BY <1>1, <2>1 DEF Tree
    <2>5. QED
      BY <1>1, <2>2, <2>3, <2>4
  <1>3. CASE PutsBack(j, t, t2)
    <2>1. PICK g \in t.due : work' = work \/ work' = [work EXCEPT ![g] = job[j].read[g]]
      BY <1>3 DEF PutsBack
    <2>2. Windowed(t) = t.due
      BY <1>3 DEF PutsBack, Windowed
    <2>3. f = g => work'[f] \in {work[f], job[j].read[f]}
      BY <1>1, <2>1 DEF Tree
    <2>4. f # g => work'[f] = work[f]
      BY <1>1, <2>1 DEF Tree
    <2>5. QED
      BY <1>1, <2>2, <2>3, <2>4
  <1>4. QED
    BY <1>2, <1>3 DEF Threading, Checks, Ceases, Compares

LEMMA GuardThread ==
  ASSUME Placid, NEW j \in Jobs, Threading(j), NEW u \in DOMAIN edited, NEW f \in Files,
         Guarded(u, f)
  PROVE  Guarded(u, f)'
  <1>1. Seating /\ u # j /\ Settled(u) /\ Steadfast(u, f) /\ UNCHANGED <<tip, head, job>>
    BY Trees DEF Placid, Settled, Guarded, Threading
  <1>2. Steadfast(u, f)'
    BY <1>1, HoldThread
  <1>3. u \in work[f] => u \in work'[f]
    BY <1>1, ThreadKeeps
  <1>4. QED
    BY <1>1, <1>2, <1>3 DEF Guarded, Shelved, Frozen, Exists, Backed, BaseOf

\* A branch the user leaves is no job's, and keeps what was checked out.
LEMMA GuardUser ==
  ASSUME Placid, Unmoved', UserStep, NEW u \in DOMAIN edited, NEW f \in Files, Guarded(u, f)
  PROVE  Guarded(u, f)'
  <1>1. /\ Steadfast(u, f)' /\ \A k \in Jobs : job'[k] = job[k]
        /\ index \in Tree /\ work \in Tree /\ head \in Branches /\ tip[head] \in Tree
        /\ tip \in [Branches -> Tree \union {NoCommit}] /\ Seating /\ Exists(head)
    BY HoldUser, UserEffects, Trees DEF Placid, Settled, Guarded, Seating, Steady, TypeOK
  <1>2. CASE UNCHANGED <<tip, head>> /\ (u \in work[f] => u \in work'[f])
    BY <1>1, <1>2 DEF Guarded, Shelved, Frozen, Exists, Backed, BaseOf
  <1>3. ASSUME NEW v \in Edits, NEW g \in Files, UserEdit(v, g)
        PROVE  u \in work[f] => u \in work'[f]
    <2>1. work' = [work EXCEPT ![g] = work[g] \union {v}]
      BY <1>3 DEF UserEdit
    <2>2. QED
      BY <1>1, <2>1 DEF Tree
  <1>4. CASE tip' = [tip EXCEPT ![head] = work] /\ UNCHANGED <<head, work, job>>
    <2>1. /\ \A b \in Branches : Frozen(b) => Frozen(b)' /\ tip'[b] = tip[b]
          /\ tip'[head] = work
      BY <1>1, <1>4 DEF Frozen, Exists
    <2>2. Shelved(u, f) => Shelved(u, f)'
      BY <2>1 DEF Shelved
    <2>3. u \in tip[head][f] => u \in work[f]
      BY DEF Guarded, Steadfast
    <2>4. ASSUME NEW k \in Jobs
          PROVE  Backed(u, f, job[k])'
      <3>1. Backed(u, f, job[k]) /\ job[k].from \in Branches
        BY <1>1, SteadyJob DEF Guarded, Job, Seating
      <3>2. \A b \in Branches : u \in tip[b][f] => u \in tip'[b][f]
        BY <1>1, <1>4, <2>1, <2>3
      <3>3. QED
        BY <1>1, <1>4, <2>2, <3>1, <3>2 DEF Backed, BaseOf
    <2>5. QED
      BY <1>1, <1>4, <2>2, <2>4 DEF Guarded
  <1>5. ASSUME NEW b \in Branches, UserSwitch(b)
        PROVE  Guarded(u, f)'
    <2>1. /\ Switchable(b) /\ Effect(Git("checkout", b)) /\ b # head
          /\ \A k \in Jobs : job[k].pc \notin Holding
      BY <1>5, CalmSwitch
    <2>2. /\ tip' = tip /\ head' = b
          /\ \/ Kept(b, f) /\ work'[f] = work[f]
             \/ work'[f] = tip[b][f] /\ work[f] = tip[head][f]
      BY <1>1, <2>1, Checkout
    <2>3. \A a \in Branches : a # b /\ Exists(a) => Frozen(a)'
      <3>1. \A a \in Branches, k \in Jobs : ~ Mentions(job'[k], a)
        BY <1>1, <2>1, Unmentioned
      <3>2. QED
        BY <2>2, <3>1 DEF Frozen, Exists, Mentions
    <2>4. u \in work'[f] \/ Shelved(u, f)'
      <3>1. CASE u \in tip[head][f]
        BY <1>1, <2>1, <2>2, <2>3, <3>1 DEF Shelved
      <3>2. CASE u \in tip[b][f]
        BY <1>1, <2>2, <3>2 DEF Steadfast
      <3>3. CASE \E a \in Branches : a # b /\ Frozen(a) /\ u \in tip[a][f]
        BY <2>2, <2>3, <3>3 DEF Shelved, Frozen
      <3>4. QED
        BY <2>2, <3>1, <3>2, <3>3 DEF Guarded, Shelved
    <2>5. \A k \in Jobs : Backed(u, f, job[k])'
      BY <1>1, <2>1 DEF Backed, Rooted, Holding, Rechecking
    <2>6. QED
      BY <1>1, <2>4, <2>5 DEF Guarded
  <1>6. QED
    BY <1>2, <1>3, <1>4, <1>5, UserEffects

\* A new edit is on disk, and either made in a window or in the hands of no thread.
LEMMA NewEdit ==
  ASSUME Placid, NEW u \in Edits, NEW f \in Files, UserEdit(u, f), \A g \in Files : Absent(u, g)
  PROVE  /\ Minded(u)'
         /\ DOMAIN edited' = DOMAIN edited \union {u}
         /\ \A v \in DOMAIN edited : edited'[v] = edited[v]
  <1>1. /\ work' = [work EXCEPT ![f] = work[f] \union {u}]
        /\ edited' = [v \in DOMAIN edited \union {u} |->
             IF v = u THEN [file |-> f, inWindow |-> InWindow(f)] ELSE edited[v]]
        /\ UNCHANGED <<tip, head, index, job, thread>> /\ work \in Tree /\ u \notin DOMAIN edited
    BY Trees DEF UserEdit, Placid
  <1>2. edited'[u].file = f /\ edited'[u].inWindow = InWindow(f)
    BY <1>1
  <1>3. u \in work'[f]
    BY <1>1 DEF Tree
  <1>4. ASSUME ~ InWindow(f)
        PROVE  Guarded(u, f)'
    <2>1. \A k \in Jobs : f \notin Windowed(thread'[k])
      BY <1>1, <1>4 DEF InWindow, Windowed
    <2>2. Steadfast(u, f)'
      BY <1>3, <2>1 DEF Steadfast
    <2>3. \A k \in Jobs : Backed(u, f, job[k])'
      BY <1>1 DEF Backed, Absent
    <2>4. QED
      BY <1>3, <2>2, <2>3 DEF Guarded
  <1>5. u \in DOMAIN edited'
    BY <1>1
  <1>6. Minded(u)'
    BY <1>2, <1>4, <1>5 DEF Minded
  <1>7. QED
    BY <1>1, <1>6

LEMMA NextRetaining ==
  ASSUME Once, Placid, Retaining, Unmoved', [Next]_vars
  PROVE  Retaining'
  <1>1. Seating /\ Located /\ ~ Stray /\ DOMAIN edited \subseteq Edits
        /\ DOMAIN edited \intersect Jobs = {} /\ \A u \in Edits : Minded(u)
    BY Trees DEF Placid, Seating, Steady, Apart, Stray, Retaining
  <1>2. \A u \in DOMAIN edited : edited[u].file \in Files
    BY DEF Placid, Seating, Steady, TypeOK
  <1>3. ASSUME NEW u \in Edits, edited' = edited,
               u \in DOMAIN edited /\ Guarded(u, edited[u].file) => Guarded(u, edited[u].file)',
               u \notin DOMAIN edited => \A f \in Files : Absent(u, f) => Absent(u, f)'
        PROVE  Minded(u)'
    BY <1>1, <1>3 DEF Minded
  <1>4. ASSUME NEW j \in Jobs, Turning(j)
        PROVE  Retaining'
    <2>1. Located' /\ edited' = edited
      BY <1>1, <1>4, LocatedTurn
         DEF Turning, Looking, Staying, Creating, Leaving, Deleting, Giving, Others
    <2>2. \A u \in Edits : Minded(u)'
      BY <1>1, <1>2, <1>3, <1>4, <2>1, GuardTurn, AbsentTurn
    <2>3. QED
      BY <2>1, <2>2 DEF Retaining
  <1>5. ASSUME NEW j \in Jobs, Threading(j)
        PROVE  Retaining'
    <2>1. Located' /\ edited' = edited
      BY <1>1, <1>5 DEF Threading, Located
    <2>2. \A u \in Edits : u # j
      BY EnvironmentAssumption
    <2>3. \A u \in Edits : Minded(u)'
      BY <1>1, <1>2, <1>3, <1>5, <2>1, <2>2, GuardThread, AbsentThread
    <2>4. QED
      BY <2>1, <2>3 DEF Retaining
  <1>6. ASSUME UserStep
        PROVE  Retaining'
    <2>1. Located'
      BY <1>1, <1>6, LocatedUser
    <2>2. CASE edited' = edited
      <3>1. \A u \in Edits : Minded(u)'
        BY <1>1, <1>2, <1>3, <1>6, <2>2, GuardUser, AbsentUser
      <3>2. QED
        BY <2>1, <3>1 DEF Retaining
    <2>3. CASE \E u \in Edits, f \in Files : UserEdit(u, f)
      <3>1. PICK v \in Edits, f \in Files : UserEdit(v, f)
        BY <2>3
      <3>2. \A g \in Files : Absent(v, g)
        BY <1>1, <3>1 DEF UserEdit, Minded
      <3>3. /\ Minded(v)' /\ DOMAIN edited' = DOMAIN edited \union {v}
            /\ \A u \in DOMAIN edited : edited'[u] = edited[u]
        BY <3>1, <3>2, NewEdit
      <3>4. ASSUME NEW u \in Edits, u # v
            PROVE  Minded(u)'
        <4>1. CASE u \in DOMAIN edited
          <5>1. Guarded(u, edited[u].file) => Guarded(u, edited[u].file)'
            <6>1. edited[u].file \in Files
              BY <1>2, <4>1
            <6>2. \A f2 \in Files : Guarded(u, f2) => Guarded(u, f2)'
              BY <1>6, <4>1, GuardUser
            <6>3. edited'[u].file = edited[u].file
              BY <3>3, <4>1
            <6>4. QED
              BY <6>1, <6>2, <6>3
          <5>2. QED
            BY <1>1, <3>3, <4>1, <5>1 DEF Minded
        <4>2. CASE u \notin DOMAIN edited
          <5>1. u \notin DOMAIN edited' /\ \A g \in Files : Absent(u, g)
            BY <1>1, <3>3, <3>4, <4>2 DEF Minded
          <5>2. \A g \in Files : Absent(u, g)'
            BY <1>6, <5>1, AbsentUser
          <5>3. QED
            BY <5>1, <5>2 DEF Minded
        <4>3. QED
          BY <4>1, <4>2
      <3>5. QED
        BY <2>1, <3>3, <3>4 DEF Retaining
    <2>4. QED
      BY <1>6, <2>2, <2>3, UserEffects
  <1>7. ASSUME UNCHANGED vars
        PROVE  Retaining'
    <2>1. Located'
      BY <1>1, <1>7 DEF vars, repo, Located
    <2>2. ASSUME NEW u, NEW f
          PROVE  (Guarded(u, f) => Guarded(u, f)') /\ (Absent(u, f) => Absent(u, f)')
      BY <1>7 DEF vars, repo, Guarded, Steadfast, Shelved, Frozen, Exists, Backed, BaseOf, Absent
    <2>3. \A u \in Edits : Minded(u)'
      BY <1>1, <1>3, <1>7, <2>2 DEF vars
    <2>4. QED
      BY <2>1, <2>3 DEF Retaining
  <1>8. QED
    BY <1>1, <1>4, <1>5, <1>6, <1>7, JobTurn, ThreadTurn DEF Next

LEMMA RetainingInit ==
  ASSUME Init
  PROVE  Retaining
  <1>1. /\ \A j \in Jobs : job[j] = NewJob
        /\ DOMAIN edited = {} /\ work = tip[Own] /\ index = tip[Own]
        /\ tip = [b \in Branches |-> IF b = Own THEN Base ELSE NoCommit]
    BY DEF Init, Base
  <1>2. tip[Own] = Base
    BY <1>1, BranchesKnown
  <1>3. Located
    BY <1>1 DEF Located, NewJob, OnBranch
  <1>4. \A u \in Edits, f \in Files : Absent(u, f)
    BY <1>1, <1>2 DEF Absent, NewJob, Base, Exists
  <1>5. QED
    BY <1>1, <1>3, <1>4 DEF Retaining, Minded

\* What the user edits while jobs run is in the tree or in a commit, unless the edit
\* fell into a window or the user switched branches while an apply was at work.
THEOREM UserEditsSurvive ==
  ASSUME Once
  PROVE  Spec => []EditsSurvive
  <1> DEFINE Kept2 == Seating /\ (Unmoved => Retaining)
  <1>1. Init => Kept2
    BY SeatingInit, RetainingInit
  <1>2. Kept2 /\ [Next]_vars => Kept2'
    <2>1. SUFFICES ASSUME Kept2, [Next]_vars, Unmoved'
                   PROVE  Retaining'
      BY NextSeating
    <2>2. Unmoved
      BY <2>1, NextSteady DEF Unmoved, Seating
    <2>3. QED
      BY <2>1, <2>2, NextRetaining DEF Placid
  <1>3. Kept2 => EditsSurvive
    <2>1. SUFFICES ASSUME Kept2, Unmoved, NEW u \in DOMAIN edited, ~ edited[u].inWindow
                   PROVE  Kept1(u)
      BY DEF EditsSurvive, Unmoved
    <2>2. u \in Edits
      BY <2>1, Trees
    <2>3. Guarded(u, edited[u].file)
      BY <2>1, <2>2 DEF Retaining, Minded
    <2>4. QED
      BY <2>3 DEF Guarded, Shelved, Frozen, Kept1
  <1>4. QED
    BY <1>1, <1>2, <1>3, PTL DEF Spec

-----------------------------------------------------------------------------
(* What a job reports: its thread has written every file it fixed, the index *)
(* holds them when it commits, and no one takes them off its branch.         *)

\* A job on its way to the commit has its fixes on disk, as far as its thread got, and
\* then in the index.
Prepared(i, s, t) ==
  /\ s.pc = "apply" =>
       /\ t.pc = "check" => t.written = {} /\ s.final \subseteq t.todo
       /\ t.pc = "write" /\ t.ok => s.final \subseteq t.todo \union t.written
       /\ t.pc = "undo" => ~ t.ok
       /\ t.pc = "done" /\ t.ok => s.final \subseteq t.written
       /\ t.ok => \A f \in t.written : i \in work[f]
  /\ s.pc = "add" => \A f \in s.final : i \in work[f] /\ (f \in s.todo \/ i \in index[f])
  /\ s.pc = "commit" => \A f \in s.final : i \in work[f] /\ i \in index[f]

\* A job that has committed has its fixes on its branch, which is no other job's.
Delivered(i) ==
  LET s == job[i] IN
  Signed(s) =>
    /\ Exists(s.branch)
    /\ \A f \in s.final : i \in tip[s.branch][f] /\ Steadfast(i, f)
    /\ \A k \in Jobs \ {i} : job[k].pc \in Marked => job[k].branch # s.branch
Delivering == \A i \in Jobs : Prepared(i, job[i], thread[i]) /\ Delivered(i)

\* A job that is not on its branch, or about to be, only looks.
LEMMA Bystander ==
  ASSUME NEW j \in Jobs, Turning(j), job[j].pc \notin Holding
  PROVE  Looking(j)
  BY DEF Turning, Staying, StaysOn, Creating, Leaving, Deleting, Giving, Gives, Holding,
         OnBranch, Rechecking

LEMMA PreparedTurn ==
  ASSUME Placid, NEW j \in Jobs, Turning(j), NEW i \in Jobs, Prepared(i, job[i], thread[i])
  PROVE  Prepared(i, job[i], thread[i])'
  <1> DEFINE s == job[i]
             t == thread[i]
             s2 == job'[i]
             t2 == thread'[i]
  <1>1. /\ Others(j) /\ s \in Job /\ index \in Tree /\ work \in Tree
    BY Trees, SteadyJob DEF Turning, Looking, Staying, Creating, Leaving, Deleting, Giving, Placid,
       Seating
  <1>2. CASE i # j
    <2>1. s2 = s /\ t2 = t
      BY <1>1, <1>2 DEF Others
    <2>2. CASE s.pc \in Holding
      <3>1. UNCHANGED <<index, work>>
        BY <1>2, <2>2, OnlyHolder, Bystander DEF Looking, repo
      <3>2. QED
        BY <2>1, <3>1 DEF Prepared
    <2>3. CASE s.pc \notin Holding
      BY <2>1, <2>3 DEF Prepared, Holding, OnBranch
    <2>4. QED
      BY <2>2, <2>3
  <1>3. CASE i = j
    <2>1. CASE Looking(j)
      BY <1>3, <2>1 DEF Looking, LooksAt, Prepared, Early, Rechecking, Terminal
    <2>2. CASE Staying(j)
      <3>1. StaysOn(s, t, s2, t2) /\ UNCHANGED <<index, work>> /\ s2.final = s.final
        BY <1>3, <2>2 DEF Staying, repo, StaysOn, Alike
      <3>2. s2.pc = "apply" => s.pc = "apply" /\ t2 = t
        BY <3>1 DEF StaysOn
      <3>3. s2.pc = "add" => \/ s.pc = "add" /\ s2.todo = s.todo
                             \/ s.pc = "apply" /\ t.pc = "done" /\ t.ok /\ s2.todo = t.written
        BY <3>1 DEF StaysOn
      <3>4. s2.pc = "commit" => s.pc = "commit" \/ (s.pc = "add" /\ s.todo = {})
        BY <3>1 DEF StaysOn
      <3>5. QED
        BY <3>1, <3>2, <3>3, <3>4 DEF Prepared
    <2>3. CASE \E c \in Command : Giving(j, c)
      <3>1. PICK c \in Command : Giving(j, c)
        BY <2>3
      <3>2. s2.final = s.final /\ work' = work /\ Effect(c) /\ s2.pc \notin {"apply", "commit"}
        BY <1>3, <3>1, Given DEF Giving, Gives, Alike
      <3>3. ASSUME s2.pc = "add"
            PROVE  \A f \in s.final : i \in work[f] /\ (f \in s2.todo \/ i \in index'[f])
        <4>1. PICK g \in s.todo : s.pc = "add" /\ c = Git("add", {g}) /\ s2.todo = s.todo \ {g}
          BY <1>3, <3>1, <3>3 DEF Giving, Gives
        <4>2. index' = [f \in Files |-> IF f \in {g} THEN work[f] ELSE index[f]]
          BY <3>2, <4>1 DEF Effect, Git
        <4>3. s.final \subseteq Files
          BY <1>1 DEF Job
        <4>4. QED
          BY <4>1, <4>2, <4>3 DEF Prepared
      <3>4. QED
        BY <3>2, <3>3 DEF Prepared
    <2>4. CASE Creating(j)
      BY <1>3, <2>4 DEF Creating, Alike, Prepared, Writer
    <2>5. CASE Leaving(j) \/ Deleting(j)
      BY <1>3, <2>5 DEF Leaving, Deleting, Prepared, Terminal
    <2>6. QED
      BY <2>1, <2>2, <2>3, <2>4, <2>5 DEF Turning
  <1>4. QED
    BY <1>2, <1>3

LEMMA PreparedThread ==
  ASSUME Placid, NEW j \in Jobs, Threading(j), NEW i \in Jobs, Prepared(i, job[i], thread[i])
  PROVE  Prepared(i, job[i], thread[i])'
  <1> DEFINE s == job[i]
             t == thread[i]
             t2 == thread'[i]
  <1>1. /\ thread[j].pc \in Busy /\ job[j].pc \in Writing /\ job' = job /\ index' = index
        /\ work \in Tree /\ s \in Job /\ t \in Thread
    <2>1. thread[j].pc \in Busy
      BY DEF Threading, Checks, Writes, Ceases, Compares, PutsBack, Busy
    <2>2. QED
      BY <2>1, Trees, SteadyJob DEF Placid, Seating, Seated, Threading
  <1>2. CASE i # j
    <2>1. s.pc \notin Holding
      BY <1>1, <1>2, OnlyHolder DEF Writing, Holding, OnBranch
    <2>2. QED
      BY <1>1, <2>1 DEF Prepared, Holding, OnBranch
  <1>3. CASE i = j
    <2>1. SUFFICES ASSUME s.pc = "apply"
                   PROVE  /\ t2.pc # "check"
                          /\ t2.pc = "write" /\ t2.ok => s.final \subseteq t2.todo \union t2.written
                          /\ t2.pc = "undo" => ~ t2.ok
                          /\ t2.pc = "done" /\ t2.ok => s.final \subseteq t2.written
                          /\ t2.ok => \A f \in t2.written : i \in work'[f]
      BY <1>1, <1>3 DEF Prepared, Writing
    <2>2. CASE Checks(j, t, t2)
      BY <1>3, <2>1, <2>2 DEF Checks, Prepared
    <2>3. CASE Writes(j, t, t2)
      <3>1. PICK g \in t.todo : /\ work' = [work EXCEPT ![g] = Fixed(j, g)]
                                /\ t2.todo = t.todo \ {g} /\ t2.written = t.written \union {g}
        BY <2>3 DEF Writes
      <3>2. \A f \in Files : f # g => work'[f] = work[f]
        BY <1>1, <3>1 DEF Tree
      <3>3. g \in Files /\ t.written \subseteq Files
        BY <1>1, <3>1 DEF Thread
      <3>4. i \in work'[g]
        BY <1>1, <1>3, <3>1, <3>3 DEF Tree, Fixed
      <3>5. t2.pc = "write" /\ t2.ok = t.ok /\ t.pc = "write"
        BY <2>3 DEF Writes
      <3>6. QED
        BY <2>1, <3>1, <3>2, <3>3, <3>4, <3>5 DEF Prepared
    <2>4. CASE Ceases(t, t2)
      BY <2>1, <2>4 DEF Ceases, Prepared
    <2>5. CASE Compares(j, t, t2) \/ PutsBack(j, t, t2)
      BY <2>1, <2>5 DEF Compares, PutsBack, Prepared
    <2>6. QED
      BY <1>3, <2>2, <2>3, <2>4, <2>5 DEF Threading
  <1>4. QED
    BY <1>2, <1>3

LEMMA PreparedUser ==
  ASSUME Placid, Unmoved', UserStep, NEW i \in Jobs, Prepared(i, job[i], thread[i])
  PROVE  Prepared(i, job[i], thread[i])'
  <1>1. /\ thread' = thread /\ job'[i] = job[i] /\ index \in Tree /\ work \in Tree
        /\ job[i].final \subseteq Files /\ thread[i].written \subseteq Files
    BY UserEffects, Trees, SteadyJob DEF Placid, Seating, Job, Thread
  <1>2. ASSUME \A f \in Files : i \in work[f] => i \in work'[f],
               \A f \in Files : i \in work[f] /\ i \in index[f] => i \in index'[f]
        PROVE  Prepared(i, job[i], thread[i])'
    BY <1>1, <1>2 DEF Prepared
  <1>3. ASSUME NEW v \in Edits, NEW g \in Files, UserEdit(v, g)
        PROVE  Prepared(i, job[i], thread[i])'
    <2>1. work' = [work EXCEPT ![g] = work[g] \union {v}] /\ index' = index
      BY <1>3 DEF UserEdit
    <2>2. QED
      BY <1>1, <1>2, <2>1 DEF Tree
  <1>4. ASSUME NEW b \in Branches, UserSwitch(b)
        PROVE  Prepared(i, job[i], thread[i])'
    <2>1. job[i].pc \notin Holding
      BY <1>4, CalmSwitch
    <2>2. QED
      BY <1>1, <2>1 DEF Prepared, Holding, OnBranch
  <1>5. CASE work' = work /\ \A f \in Files : index'[f] \in {index[f], work[f]}
    BY <1>2, <1>5
  <1>6. CASE work' = work /\ index' = work
    BY <1>2, <1>6
  <1>7. QED
    BY <1>3, <1>4, <1>5, <1>6, UserEffects

\* The other jobs stay off a branch that exists and is not theirs.
LEMMA StaysOff ==
  ASSUME Placid, NEW j \in Jobs, Turning(j), NEW i \in Jobs, NEW b, Exists(b),
         \A k \in Jobs \ {i} : job[k].pc \in Marked => job[k].branch # b
  PROVE  \A k \in Jobs \ {i} : job'[k].pc \in Marked => job'[k].branch # b
  <1>1. Others(j)
    BY DEF Turning, Looking, Staying, Creating, Leaving, Deleting, Giving
  <1>2. ASSUME j # i, job'[j].pc \in Marked
        PROVE  job'[j].branch # b
    <2>1. CASE Looking(j)
      BY <1>2, <2>1 DEF Looking, LooksAt, Marked, OnBranch, Early, Rechecking, Terminal
    <2>2. CASE ~ Looking(j)
      <3>1. Alike(job[j], job'[j]) /\ job[j].pc \in Marked
        BY <1>2, <2>2 DEF Turning, Staying, StaysOn, Creating, Leaving, Deleting, Giving, Gives,
           Marked, OnBranch, Terminal
      <3>2. QED
        BY <1>2, <3>1 DEF Alike
    <2>3. QED
      BY <2>1, <2>2
  <1>3. QED
    BY <1>1, <1>2 DEF Others

LEMMA DeliveredTurn ==
  ASSUME Placid, NEW j \in Jobs, Turning(j), NEW i \in Jobs,
         Delivered(i), Prepared(i, job[i], thread[i])
  PROVE  Delivered(i)'
  <1> DEFINE s == job[i]
             s2 == job'[i]
  <1>1. /\ Others(j) /\ Seating /\ s \in Job /\ index \in Tree /\ head \in Branches /\ Exists(head)
        /\ tip \in [Branches -> Tree \union {NoCommit}] /\ Seated(s, thread[i])
    BY Trees, SteadyJob DEF Turning, Looking, Staying, Creating, Leaving, Deleting, Giving, Placid,
       Seating, Steady, TypeOK
  <1>2. SUFFICES ASSUME Signed(s2)
                 PROVE  /\ tip'[s2.branch] # NoCommit
                        /\ \A f \in s2.final : i \in tip'[s2.branch][f] /\ Steadfast(i, f)'
                        /\ \A k \in Jobs \ {i} : job'[k].pc \in Marked => job'[k].branch # s2.branch
    BY DEF Delivered, Signed, Exists
  <1>3. CASE Signed(s)
    <2>1. /\ Exists(s.branch)
          /\ \A f \in s.final : i \in tip[s.branch][f] /\ Steadfast(i, f)
          /\ \A k \in Jobs \ {i} : job[k].pc \in Marked => job[k].branch # s.branch
      BY <1>3 DEF Delivered
    <2>2. Alike(s, s2)
      <3>1. i = j => ~ Looking(j)
        BY <1>3 DEF Looking, LooksAt, Signed, Early, Rechecking
      <3>2. i # j => s2 = s
        BY <1>1 DEF Others
      <3>3. QED
        BY <3>1, <3>2 DEF Turning, Staying, StaysOn, Creating, Leaving, Deleting, Giving, Alike
    <2>3. tip'[s.branch] = tip[s.branch]
      <3>1. CASE tip' = tip
        BY <3>1
      <3>2. CASE \E c \in Command : Giving(j, c)
        <4>1. PICK c \in Command : Giving(j, c)
          BY <3>2
        <4>2. job[j].pc \in {"add", "commit", "reset"}
          BY <4>1 DEF Giving, Gives
        <4>3. i # j /\ head = job[j].branch /\ job[j].pc \in Marked
          BY <1>3, <4>2, OnlyHolder DEF Signed, Holding, OnBranch, Marked
        <4>4. head # s.branch /\ s.branch \in Branches
          BY <1>1, <2>1, <4>3 DEF Job
        <4>5. QED
          BY <1>1, <4>1, <4>4, Given
      <3>3. CASE Creating(j)
        <4>1. tip' = [tip EXCEPT ![job[j].branch] = tip[head]] /\ ~ Exists(job[j].branch)
          BY <3>3 DEF Creating, Effect, Git
        <4>2. QED
          BY <2>1, <4>1
      <3>4. CASE Deleting(j)
        <4>1. tip' = [tip EXCEPT ![job[j].branch] = NoCommit] /\ job[j].pc = "delete"
          BY <3>4 DEF Deleting, Effect, Git
        <4>2. i # j
          BY <1>3, <4>1 DEF Signed
        <4>3. QED
          BY <2>1, <4>1, <4>2 DEF Marked
      <3>5. QED
        BY <3>1, <3>2, <3>3, <3>4
           DEF Turning, Looking, Staying, Leaving, Effect, Git, repo
    <2>4. \A f \in s.final : Steadfast(i, f)'
      <3>1. s.final \subseteq Files
        BY <1>1 DEF Job
      <3>2. QED
        BY <1>1, <2>1, <3>1, HoldTurn
    <2>5. \A k \in Jobs \ {i} : job'[k].pc \in Marked => job'[k].branch # s.branch
      BY <2>1, StaysOff
    <2>6. QED
      BY <2>1, <2>2, <2>3, <2>4, <2>5 DEF Alike, Exists
  <1>4. CASE ~ Signed(s)
    <2>1. i = j
      BY <1>1, <1>2, <1>4 DEF Others
    <2>2. PICK c \in Command : Giving(j, c)
      <3>1. ~ Looking(j) /\ ~ Creating(j)
        BY <1>2, <2>1 DEF Looking, LooksAt, Creating, Signed, Early, Rechecking, Terminal
      <3>2. ~ Staying(j)
        BY <1>2, <1>4, <2>1 DEF Staying, StaysOn
      <3>3. ~ Leaving(j)
        BY <1>2, <1>4, <2>1 DEF Leaving, Signed, Terminal
      <3>4. ~ Deleting(j)
        BY <1>1, <1>2, <2>1 DEF Deleting, Signed, Seated, Terminal
      <3>5. QED
        BY <3>1, <3>2, <3>3, <3>4 DEF Turning
    <2>3. s.pc = "commit" /\ c = Git("commit", {}) /\ Effect(c) /\ Alike(s, s2)
      BY <1>1, <1>2, <2>1, <2>2 DEF Giving, Gives, Signed, Seated
    <2>4. tip' = [tip EXCEPT ![head] = index] /\ UNCHANGED <<head, index, work>>
      BY <2>3 DEF Effect, Git
    <2>5. head = s.branch /\ \A k \in Jobs \ {i} : job[k].pc \notin Holding
      BY <2>3, OnlyHolder DEF Holding, OnBranch
    <2>6. tip'[s.branch] = index /\ index # NoCommit
      BY <1>1, <2>4, <2>5, TreesKnown
    <2>7. \A f \in s.final : i \in work[f] /\ i \in index[f]
      BY <2>3 DEF Prepared
    <2>8. \A k \in Jobs : Windowed(thread'[k]) = {}
      <3>1. \A k \in Jobs : thread'[k] = thread[k]
        BY <2>1, <2>2, <1>1 DEF Giving, Others
      <3>2. \A k \in Jobs : thread[k].pc \notin Busy
        <4>1. thread[i].pc \notin Busy
          BY <1>1, <2>3 DEF Seated, Writing
        <4>2. s.pc \in Holding
          BY <2>3 DEF Holding, OnBranch
        <4>3. QED
          BY <1>1, <4>1, <4>2, BusyHolder
      <3>3. QED
        BY <1>1, <3>1, <3>2, Unwindowed
    <2>9. \A f \in s.final : Steadfast(i, f)'
      <3>1. s.final \subseteq Files
        BY <1>1 DEF Job
      <3>2. QED
        BY <2>4, <2>7, <2>8, <3>1, HoldsAt
    <2>10. \A k \in Jobs \ {i} : job'[k].pc \notin Marked
      BY <1>1, <2>1, <2>5 DEF Others, Marked, Holding, Rechecking
    <2>11. QED
      BY <2>3, <2>6, <2>7, <2>9, <2>10 DEF Alike
  <1>5. QED
    BY <1>3, <1>4

\* A job that has committed has no thread at work.
LEMMA SignedSettled ==
  ASSUME Seating, NEW i \in Jobs, Signed(job[i])
  PROVE  Settled(i) /\ job[i].final \subseteq Files
  <1>1. thread[i].pc \notin Busy
    BY DEF Seating, Seated, Signed, Writing
  <1>2. QED
    BY <1>1, SteadyJob DEF Settled, Seating, Job

LEMMA DeliveredThread ==
  ASSUME Placid, NEW j \in Jobs, Threading(j), NEW i \in Jobs, Delivered(i)
  PROVE  Delivered(i)'
  <1>1. Seating /\ UNCHANGED <<tip, job>>
    BY DEF Placid, Threading
  <1>2. ASSUME Signed(job[i]), NEW f \in job[i].final
        PROVE  Steadfast(i, f)'
    BY <1>1, <1>2, SignedSettled, HoldThread DEF Delivered
  <1>3. QED
    BY <1>1, <1>2 DEF Delivered, Exists, Signed

LEMMA DeliveredUser ==
  ASSUME Placid, Unmoved', UserStep, NEW i \in Jobs, Delivered(i)
  PROVE  Delivered(i)'
  <1>1. /\ Seating /\ \A k \in Jobs : job'[k] = job[k]
        /\ work \in Tree /\ head \in Branches /\ tip \in [Branches -> Tree \union {NoCommit}]
    BY Trees, UserEffects DEF Placid
  <1>2. SUFFICES ASSUME Signed(job[i])
                 PROVE  /\ tip'[job[i].branch] # NoCommit
                        /\ \A f \in job[i].final : i \in tip'[job[i].branch][f]
    <2>1. ASSUME Signed(job[i]), NEW f \in job[i].final
          PROVE  Steadfast(i, f)'
      BY <1>1, <2>1, SignedSettled, HoldUser DEF Delivered
    <2>2. QED
      BY <1>1, <2>1 DEF Delivered, Exists, Signed
  <1>3. /\ Exists(job[i].branch)
        /\ \A f \in job[i].final : i \in tip[job[i].branch][f] /\ Steadfast(i, f)
    BY <1>2 DEF Delivered
  <1>4. CASE tip' = tip
    BY <1>3, <1>4 DEF Exists
  <1>5. CASE tip' = [tip EXCEPT ![head] = work]
    <2>1. CASE job[i].branch = head
      BY <1>1, <1>3, <1>5, <2>1, TreesKnown DEF Steadfast
    <2>2. CASE job[i].branch # head
      BY <1>1, <1>3, <1>5, <2>2 DEF Exists
    <2>3. QED
      BY <2>1, <2>2
  <1>6. ASSUME NEW b \in Branches, UserSwitch(b)
        PROVE  tip' = tip
    BY <1>6 DEF UserSwitch, Effect, Git
  <1>7. QED
    BY <1>4, <1>5, <1>6, UserEffects

LEMMA NextDelivering ==
  ASSUME Once, Placid, Delivering, Unmoved', [Next]_vars
  PROVE  Delivering'
  <1>1. Seating /\ ~ Stray
    BY DEF Placid, Seating, Steady, Apart, Stray
  <1>2. ASSUME NEW j \in Jobs, Turning(j)
        PROVE  Delivering'
    BY <1>2, PreparedTurn, DeliveredTurn DEF Delivering
  <1>3. ASSUME NEW j \in Jobs, Threading(j)
        PROVE  Delivering'
    BY <1>3, PreparedThread, DeliveredThread DEF Delivering
  <1>4. ASSUME UserStep
        PROVE  Delivering'
    BY <1>4, PreparedUser, DeliveredUser DEF Delivering
  <1>5. ASSUME UNCHANGED vars
        PROVE  Delivering'
    <2>1. \A i \in Jobs : Delivered(i) => Delivered(i)'
      BY <1>5 DEF vars, repo, Delivered, Signed, Exists, Steadfast
    <2>2. QED
      BY <1>5, <2>1 DEF Delivering, vars, repo, Prepared
  <1>6. QED
    BY <1>1, <1>2, <1>3, <1>4, <1>5, JobTurn, ThreadTurn DEF Next

\* A job that reports fixes has committed one to each file it fixed, on the branch it
\* reports, whatever the other jobs and the user do: as long as no user switches
\* branches while an apply is at work.
THEOREM ReportsAreCommitted ==
  ASSUME Once
  PROVE  Spec => []ReportedFixesCommitted
  <1> DEFINE Kept3 == Seating /\ (Unmoved => Delivering)
  <1>1. Init => Kept3
    <2>1. Init => \A i \in Jobs : job[i] = NewJob
      BY DEF Init
    <2>2. Init => Delivering
      BY <2>1 DEF Delivering, Prepared, Delivered, Signed, NewJob
    <2>3. QED
      BY <2>2, SeatingInit
  <1>2. Kept3 /\ [Next]_vars => Kept3'
    <2>1. SUFFICES ASSUME Kept3, [Next]_vars, Unmoved'
                   PROVE  Delivering'
      BY NextSeating
    <2>2. Unmoved
      BY <2>1, NextSteady DEF Unmoved, Seating
    <2>3. QED
      BY <2>1, <2>2, NextDelivering DEF Placid
  <1>3. Kept3 => ReportedFixesCommitted
    <2>1. SUFFICES ASSUME Kept3, Unmoved, NEW j \in Jobs, job[j].pc = "applied"
                   PROVE  \A f \in job[j].final : j \in tip[job[j].branch][f]
      BY DEF ReportedFixesCommitted, Unmoved, Disturbed
    <2>2. QED
      BY <2>1 DEF Delivering, Delivered, Signed
  <1>4. QED
    BY <1>1, <1>2, <1>3, PTL DEF Spec
=============================================================================
