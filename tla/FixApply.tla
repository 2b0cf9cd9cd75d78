------------------------------ MODULE FixApply ------------------------------
(***************************************************************************)
(* Applying generated fixes to the user's own git repository: run_fix_all  *)
(* and _apply_locally of isitsecure/server/fix_service.py, with the        *)
(* loss-free writer isitsecure/engine/fixes/safe_apply.py.  Jobs share the *)
(* repository with the user, who edits files, stages, commits and switches *)
(* branches while they run, and who may cancel a job more than once.       *)
(*                                                                         *)
(* The contents of a file are the set of the edits it holds: the fix of a  *)
(* job, or an edit of the user.  A tree maps files to contents and stands  *)
(* for its commit.  Branch 0 is the user's own; branch n is                *)
(* `isitsecure/fixes-n`.  A git child that is running when its job is      *)
(* cancelled is not killed (a stray), and neither is a thread.             *)
(***************************************************************************)
EXTENDS Integers, FiniteSets

CONSTANTS
  Jobs,        \* fix-all jobs on this repository
  Files,       \* the files the findings are in
  Edits,       \* the edits the user may make
  UserActs,    \* what else the user does
  MaxCancels,  \* how often one job is cancelled
  Fails,       \* the steps that may fail
  NoJob

AllUserActs == {"stage", "commit", "switch"}
AllFails == {"read", "net", "create", "write", "undo", "add", "commit"}

ASSUME EnvironmentAssumption ==
  /\ IsFiniteSet(Jobs) /\ NoJob \notin Jobs
  /\ Files # {}
  /\ Jobs \intersect Edits = {}
  /\ UserActs \subseteq AllUserActs
  /\ Fails \subseteq AllFails
  /\ MaxCancels \in Nat

Content == SUBSET (Jobs \union Edits)
Tree == [Files -> Content]
Own == 0
Branches == 0 .. Cardinality(Jobs)
NoCommit == [f \in {} |-> {}]

VARIABLES
  tip,     \* branch -> the tree at its tip, or NoCommit
  head,    \* the branch checked out
  index,   \* the staged tree
  work,    \* the tree on disk
  lock,    \* the job that holds the repository's lock
  job,     \* job -> its progress
  thread,  \* job -> the thread that writes or restores files for it
  strays,  \* git commands of cancelled jobs that are still running
  edited   \* history: edit -> the file the user made it in, and when

repo == <<tip, head, index, work>>
vars == <<repo, lock, job, thread, strays, edited>>

Terminal == {"plan", "nothing", "applied", "failed", "cancelled"}
Job ==
  [pc : {"clean0", "head0", "branch0", "read", "generate", "net", "lock", "clean",
         "head", "branch", "pick", "create", "apply", "rollback", "add", "commit",
         "verify", "undo", "reset", "restore", "delete"} \union Terminal,
   sha : {NoCommit} \union Tree,     \* start_head
   from : Branches,                  \* start_branch
   todo : SUBSET Files,              \* files to read, then to add
   read : [Files -> Content],        \* contents
   final : SUBSET Files,             \* plan.files
   branch : Branches,                \* the fix branch
   ends : Terminal,                  \* how the job ends once it is cleaned up
   cancels : 0 .. MaxCancels,
   moved : BOOLEAN]                  \* history: the user switched branches under its lock
Thread ==
  [pc : {"none", "check", "write", "undo", "done"},
   todo : SUBSET Files,              \* files still to write or restore
   written : SUBSET Files,           \* outcome.written
   due : SUBSET Files,               \* files compared and about to be restored
   ok : BOOLEAN]                     \* outcome.ok
Command ==
  [cmd : {"create", "checkout", "delete"}, arg : Branches]
    \union [cmd : {"add", "commit", "reset"}, arg : SUBSET Files]
    \union [cmd : {"land"}, arg : Tree, parent : Tree]

NewJob ==
  [pc |-> "clean0", sha |-> NoCommit, from |-> Own, todo |-> Files,
   read |-> [f \in Files |-> {}], final |-> {}, branch |-> Own, ends |-> "applied",
   cancels |-> 0, moved |-> FALSE]
NoThread == [pc |-> "none", todo |-> {}, written |-> {}, due |-> {}, ok |-> TRUE]
Writer(F) == [pc |-> "check", todo |-> F, written |-> {}, due |-> {}, ok |-> TRUE]

Init ==
  /\ tip = [b \in Branches |-> IF b = Own THEN [f \in Files |-> {}] ELSE NoCommit]
  /\ head = Own
  /\ index = tip[Own] /\ work = tip[Own]
  /\ lock = NoJob
  /\ job = [j \in Jobs |-> NewJob]
  /\ thread = [j \in Jobs |-> NoThread]
  /\ strays = {}
  /\ edited = [u \in {} |-> <<>>]

-----------------------------------------------------------------------------
(* Git, as far as the code uses it. *)

Exists(b) == tip[b] # NoCommit
Clean == index = tip[head] /\ work = index

\* A plain checkout keeps local changes, and is refused if it had to lose one.
Kept(b, f) == tip[b][f] = tip[head][f] \/ tip[b][f] = index[f]
Switchable(b) ==
  /\ Exists(b)
  /\ \A f \in Files :
       \/ Kept(b, f)
       \/ index[f] = tip[head][f] /\ work[f] = index[f]

Accepts(c) ==
  CASE c.cmd = "create" -> ~Exists(c.arg)
    [] c.cmd = "checkout" -> Switchable(c.arg)
    [] c.cmd = "commit" -> index # tip[head]
    [] c.cmd = "delete" -> Exists(c.arg) /\ c.arg # head
    [] c.cmd = "land" -> tip[head] = c.parent
    [] OTHER -> TRUE

Effect(c) ==
  CASE c.cmd = "create" ->       \* checkout -b
         /\ tip' = [tip EXCEPT ![c.arg] = tip[head]]
         /\ head' = c.arg
         /\ UNCHANGED <<index, work>>
    [] c.cmd = "checkout" ->
         /\ head' = c.arg
         /\ index' = [f \in Files |-> IF Kept(c.arg, f) THEN index[f] ELSE tip[c.arg][f]]
         /\ work' = [f \in Files |-> IF Kept(c.arg, f) THEN work[f] ELSE tip[c.arg][f]]
         /\ UNCHANGED tip
    [] c.cmd = "add" ->
         /\ index' = [f \in Files |-> IF f \in c.arg THEN work[f] ELSE index[f]]
         /\ UNCHANGED <<tip, head, work>>
    [] c.cmd = "commit" ->
         /\ tip' = [tip EXCEPT ![head] = index]
         /\ UNCHANGED <<head, index, work>>
    [] c.cmd = "reset" ->
         /\ index' = [f \in Files |-> IF f \in c.arg THEN tip[head][f] ELSE index[f]]
         /\ UNCHANGED <<tip, head, work>>
    [] c.cmd = "delete" ->       \* branch -D
         /\ tip' = [tip EXCEPT ![c.arg] = NoCommit]
         /\ UNCHANGED <<head, index, work>>
    [] c.cmd = "land" ->         \* the end of a commit whose hooks have run
         /\ tip' = [tip EXCEPT ![head] = c.arg]
         /\ UNCHANGED <<head, index, work>>

Git(name, arg) == [cmd |-> name, arg |-> arg]

-----------------------------------------------------------------------------
(* A job. *)

\* Job j has the state s next.
Go(j, s) == job' = [job EXCEPT ![j] = s]
GoTo(j, pc) == Go(j, [job[j] EXCEPT !.pc = pc])
SetThread(j, t) == thread' = [thread EXCEPT ![j] = t]

\* The job ends; the lock, if it holds it, is released.
Release(j) == lock' = IF lock = j THEN NoJob ELSE lock
\* Slip: the lock is kept when a job returns early.
EndHolding(j, pc) == GoTo(j, pc) /\ UNCHANGED lock
End(j, pc) == GoTo(j, pc) /\ Release(j)

\* Job j runs git: what it does next if git accepts, and if git fails, as it may
\* while a stray holds the lock of the index.
RunGit(j, c, mayFail, yes, no) ==
  \/ Accepts(c) /\ Effect(c) /\ yes
  \/ /\ strays # {} \/ ~Accepts(c) \/ mayFail
     /\ UNCHANGED repo
     /\ no

\* The file as the fix of job j leaves it.
Fixed(j, f) == job[j].read[f] \union {j}

\* The checks before any paid work: a clean tree, HEAD, the branch.
Start(j) ==
  LET s == job[j] IN
  /\ \/ s.pc = "clean0" /\ Clean /\ GoTo(j, "head0")
     \/ s.pc = "clean0" /\ ~Clean /\ GoTo(j, "plan")
     \/ s.pc = "head0" /\ Go(j, [s EXCEPT !.pc = "branch0", !.sha = tip[head]])
     \/ s.pc = "branch0" /\ Go(j, [s EXCEPT !.pc = "read", !.from = head])
  /\ UNCHANGED <<repo, lock, thread, strays, edited>>

\* The next file is read, or left out as unreadable, untracked or too large.
Read(j) ==
  LET s == job[j] IN
  /\ s.pc = "read"
  /\ \E f \in s.todo :
       \/ Go(j, [s EXCEPT !.todo = @ \ {f}, !.read[f] = work[f], !.final = @ \union {f}])
       \/ "read" \in Fails /\ Go(j, [s EXCEPT !.todo = @ \ {f}])
  /\ UNCHANGED <<repo, lock, thread, strays, edited>>

\* The LLM fixes some of the files read; without a fix there is nothing to do.
Generate(j) ==
  LET s == job[j] IN
  /\ \/ s.pc = "generate"
     \/ s.pc = "read" /\ s.todo = {}
  /\ \/ s.pc = "read" /\ s.final # {} /\ GoTo(j, "generate")
     \/ GoTo(j, "nothing")
     \/ /\ s.pc = "generate"
        /\ \E F \in (SUBSET s.final) \ {{}} : Go(j, [s EXCEPT !.pc = "net", !.final = F])
  /\ UNCHANGED <<repo, lock, thread, strays, edited>>

\* No backup of the originals, no change.
SafetyNet(j) ==
  /\ job[j].pc = "net"
  /\ \/ GoTo(j, "lock")
     \/ "net" \in Fails /\ GoTo(j, "nothing")
  /\ UNCHANGED <<repo, lock, thread, strays, edited>>

Acquire(j) ==
  /\ job[j].pc = "lock"
  /\ lock = NoJob
  /\ lock' = j
  /\ GoTo(j, "clean")
  /\ UNCHANGED <<repo, thread, strays, edited>>

\* Under the lock, the tree, HEAD and the branch are checked again.
Unchanged(j, pc) ==
  CASE pc = "clean" -> Clean
    [] pc = "head" -> tip[head] = job[j].sha
    [] pc = "branch" -> head = job[j].from
After == [clean |-> "head", head |-> "branch", branch |-> "pick"]
Recheck(j) ==
  LET pc == job[j].pc IN
  /\ pc \in DOMAIN After
  /\ \/ Unchanged(j, pc) /\ GoTo(j, After[pc]) /\ UNCHANGED lock
     \/ ~Unchanged(j, pc) /\ End(j, "plan")
  /\ UNCHANGED <<repo, thread, strays, edited>>

\* The first free fix branch name.
PickName(j) ==
  /\ job[j].pc = "pick"
  /\ \E b \in Branches \ {Own} :
       /\ ~Exists(b)
       /\ \A c \in 1 .. b - 1 : Exists(c)
       /\ Go(j, [job[j] EXCEPT !.pc = "create", !.branch = b])
  /\ UNCHANGED <<repo, lock, thread, strays, edited>>

\* Slip: the return code of `git checkout -b` is ignored.
CreateUnchecked(j) ==
  /\ job[j].pc = "create"
  /\ RunGit(j, Git("create", job[j].branch), "create" \in Fails,
            GoTo(j, "apply"), GoTo(j, "apply"))
  /\ SetThread(j, Writer(job[j].final))
  /\ UNCHANGED <<lock, strays, edited>>

\* A failure here leaves nothing to clean up; otherwise the writing thread starts.
Create(j) ==
  /\ job[j].pc = "create"
  /\ RunGit(j, Git("create", job[j].branch), "create" \in Fails,
            /\ GoTo(j, "apply")
            /\ SetThread(j, Writer(job[j].final))
            /\ UNCHANGED lock,
            End(j, "failed") /\ UNCHANGED thread)
  /\ UNCHANGED <<strays, edited>>

-----------------------------------------------------------------------------
(* The threads: apply_file_fixes and rollback_applied. *)

\* All files are compared with what was read; one that changed is left out.
Check(j) ==
  LET t == thread[j]
      same == {f \in t.todo : work[f] = job[j].read[f]}
  IN
  /\ t.pc = "check"
  /\ SetThread(j, [t EXCEPT !.pc = "write", !.todo = same, !.ok = (same = t.todo)])
  /\ UNCHANGED <<repo, lock, job, strays, edited>>

\* The next file is replaced; a failed write puts the files written so far back.
Write(j) ==
  LET t == thread[j] IN
  /\ t.pc = "write"
  /\ \/ \E f \in t.todo :
          /\ work' = [work EXCEPT ![f] = Fixed(j, f)]
          /\ SetThread(j, [t EXCEPT !.todo = @ \ {f}, !.written = @ \union {f}])
     \/ /\ "write" \in Fails /\ t.todo # {}
        /\ SetThread(j, [t EXCEPT !.pc = "undo", !.todo = t.written, !.ok = FALSE])
        /\ UNCHANGED work
     \/ /\ t.todo = {}
        /\ SetThread(j, [t EXCEPT !.pc = "done"])
        /\ UNCHANGED work
  /\ UNCHANGED <<tip, head, index, lock, job, strays, edited>>

\* A rollback has one file at a time in its hands, but one that was cut off runs on
\* beside the next.
OneAtATime(j) == thread[j].due = {} \/ job[j].cancels > 1

\* Slip: the rollback restores a file although it changed again.
UndoBlindly(j) ==
  LET t == thread[j] IN
  /\ t.pc = "undo" /\ OneAtATime(j)
  /\ \/ \E f \in t.todo :
          SetThread(j, [t EXCEPT !.todo = @ \ {f}, !.due = @ \union {f}])
     \/ t.todo = {} /\ SetThread(j, [t EXCEPT !.pc = "done"])
  /\ UNCHANGED <<repo, lock, job, strays, edited>>

\* The next written file is compared, and left as it is if it changed again.
Undo(j) ==
  LET t == thread[j] IN
  /\ t.pc = "undo" /\ OneAtATime(j)
  /\ \/ \E f \in t.todo :
          SetThread(j, [t EXCEPT !.todo = @ \ {f},
                                 !.due = @ \union {g \in {f} : work[g] = Fixed(j, g)}])
     \/ t.todo = {} /\ SetThread(j, [t EXCEPT !.pc = "done"])
  /\ UNCHANGED <<repo, lock, job, strays, edited>>

\* The file compared is replaced by what was read.
PutBack(j) ==
  LET t == thread[j] IN
  /\ \E f \in t.due :
       \/ /\ work' = [work EXCEPT ![f] = job[j].read[f]]
          /\ SetThread(j, [t EXCEPT !.due = @ \ {f}, !.written = @ \ {f}])
       \/ /\ "undo" \in Fails
          /\ SetThread(j, [t EXCEPT !.due = @ \ {f}])
          /\ UNCHANGED work
  /\ UNCHANGED <<tip, head, index, lock, job, strays, edited>>

-----------------------------------------------------------------------------
(* The fix branch: add, commit, verify, and back. *)

\* The clean-up of a failed apply restores what is written, if anything is.
Handle(j, s) ==
  IF thread[j].written = {} THEN Go(j, [s EXCEPT !.pc = "restore"]) /\ UNCHANGED thread
  ELSE /\ Go(j, [s EXCEPT !.pc = "undo"])
       /\ SetThread(j, [thread[j] EXCEPT !.pc = "undo", !.todo = thread[j].written])
Fail(j) == Handle(j, [job[j] EXCEPT !.ends = "failed"])

\* The writing thread is done: on to the commit, or to a first rollback.
Applied(j) ==
  LET s == job[j]
      t == thread[j]
  IN
  /\ s.pc \in {"apply", "rollback"} /\ t.pc = "done"
  /\ \/ /\ s.pc = "apply" /\ t.ok
        /\ Go(j, [s EXCEPT !.pc = "add", !.todo = t.written])
        /\ UNCHANGED thread
     \/ /\ s.pc = "apply" /\ ~t.ok
        /\ GoTo(j, "rollback")
        /\ SetThread(j, [t EXCEPT !.pc = "undo", !.todo = t.written])
     \/ s.pc = "rollback" /\ Fail(j)
  /\ UNCHANGED <<repo, lock, strays, edited>>

\* Slip: the return code of `git add` is ignored.
AddUnchecked(j) ==
  LET s == job[j] IN
  /\ s.pc = "add"
  /\ \/ \E f \in s.todo :
          RunGit(j, Git("add", {f}), "add" \in Fails,
                 Go(j, [s EXCEPT !.todo = @ \ {f}]), Go(j, [s EXCEPT !.todo = @ \ {f}]))
     \/ s.todo = {} /\ GoTo(j, "commit") /\ UNCHANGED repo
  /\ UNCHANGED <<lock, thread, strays, edited>>

Add(j) ==
  LET s == job[j] IN
  /\ s.pc = "add"
  /\ \/ \E f \in s.todo :
          RunGit(j, Git("add", {f}), "add" \in Fails,
                 Go(j, [s EXCEPT !.todo = @ \ {f}]) /\ UNCHANGED thread, Fail(j))
     \/ s.todo = {} /\ GoTo(j, "commit") /\ UNCHANGED <<repo, thread>>
  /\ UNCHANGED <<lock, strays, edited>>

\* `git commit`: the whole index.
CommitFixes(j) ==
  /\ job[j].pc = "commit"
  /\ RunGit(j, Git("commit", {}), "commit" \in Fails,
            GoTo(j, "verify") /\ UNCHANGED thread, Fail(j))
  /\ UNCHANGED <<lock, strays, edited>>

\* Slip: the verification's failure discards the result after the commit.
VerifyFatal(j) ==
  /\ job[j].pc = "verify"
  /\ \/ GoTo(j, "restore") /\ UNCHANGED thread
     \/ Fail(j)
  /\ UNCHANGED <<repo, lock, strays, edited>>

\* The re-scan reads the tree; its failure is swallowed.
Verify(j) ==
  /\ job[j].pc = "verify"
  /\ GoTo(j, "restore")
  /\ UNCHANGED <<repo, lock, thread, strays, edited>>

\* Slip: the rollback leaves the index as it is.
UnstageNothing(j) ==
  /\ job[j].pc = "undo" /\ thread[j].pc = "done"
  /\ GoTo(j, "restore")
  /\ UNCHANGED <<repo, lock, thread, strays, edited>>

\* The second half of the clean-up: what was staged is unstaged.
Unstage(j) ==
  LET s == job[j] IN
  /\ \/ s.pc = "undo" /\ thread[j].pc = "done" /\ GoTo(j, "reset") /\ UNCHANGED repo
     \/ /\ s.pc = "reset"
        /\ RunGit(j, Git("reset", s.final), FALSE, GoTo(j, "restore"), GoTo(j, "restore"))
  /\ UNCHANGED <<lock, thread, strays, edited>>

\* How the job ends: the failure of an apply that is then cut off is not reported.
Ending(s) == IF s.cancels > 1 THEN "cancelled" ELSE s.ends

\* Back to the user's branch; a refusal leaves the user on the fix branch.
RestoreBase(j) ==
  LET s == job[j] IN
  /\ s.pc = "restore"
  /\ RunGit(j, Git("checkout", s.from), FALSE,
            IF s.ends = "failed" /\ tip[s.branch] = s.sha
            THEN GoTo(j, "delete") /\ UNCHANGED lock ELSE End(j, Ending(s)),
            End(j, Ending(s)))
  /\ UNCHANGED <<thread, strays, edited>>

\* A fix branch without a commit of ours is deleted.
DeleteBranch(j) ==
  /\ job[j].pc = "delete"
  /\ RunGit(j, Git("delete", job[j].branch), FALSE,
            End(j, Ending(job[j])), End(j, Ending(job[j])))
  /\ UNCHANGED <<thread, strays, edited>>

JobStep(j) ==
  \/ Start(j) \/ Read(j) \/ Generate(j) \/ SafetyNet(j) \/ Acquire(j) \/ Recheck(j)
  \/ PickName(j) \/ Create(j) \/ Applied(j) \/ Add(j) \/ CommitFixes(j) \/ Verify(j)
  \/ Unstage(j) \/ RestoreBase(j) \/ DeleteBranch(j)
ThreadStep(j) == Check(j) \/ Write(j) \/ Undo(j) \/ PutBack(j)

-----------------------------------------------------------------------------
(* Cancellation. *)

Unshielded == {"clean0", "head0", "branch0", "read", "generate"}

\* The git command the job has running.
Running(j) ==
  LET s == job[j] IN
  CASE s.pc = "create" -> {Git("create", s.branch)}
    [] s.pc = "add" -> {Git("add", {f}) : f \in s.todo}
    [] s.pc = "commit" -> {Git("commit", {})}
    [] s.pc = "reset" -> {Git("reset", s.final)}
    [] s.pc = "restore" -> {Git("checkout", s.from)}
    [] s.pc = "delete" -> {Git("delete", s.branch)}
    [] OTHER -> {}

\* The apply task itself is cancelled where it waits; what it waited for goes on.
Interrupt(j, s) ==
  /\ \/ strays' = strays
     \/ \E c \in Running(j) : strays' = strays \union {c}
  /\ \/ /\ s.pc \in {"net", "lock", "clean", "head", "branch", "pick", "create",
                     "restore", "delete"}
        /\ Go(j, [s EXCEPT !.pc = "cancelled"])
        /\ Release(j)
        /\ UNCHANGED thread
     \/ /\ s.pc = "apply"
        /\ Go(j, [s EXCEPT !.pc = "restore", !.ends = "cancelled"])
        /\ UNCHANGED <<lock, thread>>
     \/ /\ s.pc \in {"undo", "reset"}
        /\ Go(j, [s EXCEPT !.pc = "restore"])
        /\ UNCHANGED <<lock, thread>>
     \/ /\ s.pc \in {"rollback", "add", "commit", "verify"}
        /\ Handle(j, [s EXCEPT !.ends = "cancelled"])
        /\ UNCHANGED lock

\* The first cancellation ends the job before the apply and is only noted during
\* it: the apply is shielded.  A later one reaches the apply, which the job then
\* awaits unshielded.
Cancel(j) ==
  LET s == [job[j] EXCEPT !.cancels = @ + 1] IN
  /\ job[j].pc \notin Terminal
  /\ job[j].cancels < MaxCancels
  /\ \/ /\ s.pc \in Unshielded
        /\ Go(j, [s EXCEPT !.pc = "cancelled"])
        /\ UNCHANGED <<lock, thread, strays>>
     \/ /\ s.pc \notin Unshielded /\ s.cancels = 1
        /\ Go(j, s)
        /\ UNCHANGED <<lock, thread, strays>>
     \/ s.pc \notin Unshielded /\ s.cancels > 1 /\ Interrupt(j, s)
  /\ UNCHANGED <<repo, edited>>

\* A git command nobody waits for any more takes effect, or fails.  A commit first
\* takes the staged tree; it does not hold the lock of the index while hooks run, and
\* then goes to the branch that is checked out, if that is where it started from.
Stray ==
  /\ \E c \in strays :
       \/ /\ strays' = strays \ {c}
          /\ \/ c.cmd # "commit" /\ Accepts(c) /\ Effect(c)
             \/ UNCHANGED repo
       \/ /\ c.cmd = "commit" /\ Accepts(c)
          /\ strays' = (strays \ {c}) \union
                        {[cmd |-> "land", arg |-> index, parent |-> tip[head]]}
          /\ UNCHANGED repo
  /\ UNCHANGED <<lock, job, thread, edited>>

-----------------------------------------------------------------------------
(* The user of the repository. *)

\* Some thread has compared the file and is about to replace it.
InWindow(f) ==
  \E j \in Jobs :
    \/ f \in thread[j].due
    \/ thread[j].pc = "write" /\ f \in thread[j].todo

UserEdit(u, f) ==
  /\ u \notin DOMAIN edited
  /\ work' = [work EXCEPT ![f] = @ \union {u}]
  /\ edited' = [v \in DOMAIN edited \union {u} |->
       IF v = u THEN [file |-> f, inWindow |-> InWindow(f)] ELSE edited[v]]
  /\ UNCHANGED <<tip, head, index, lock, job, thread, strays>>

UserStage(f) ==
  /\ "stage" \in UserActs
  /\ index[f] # work[f]
  /\ Effect(Git("add", {f}))
  /\ UNCHANGED <<lock, job, thread, strays, edited>>

\* `git commit -a`
UserCommit ==
  /\ "commit" \in UserActs
  /\ work # tip[head]
  /\ index' = work
  /\ tip' = [tip EXCEPT ![head] = work]
  /\ UNCHANGED <<head, work, lock, job, thread, strays, edited>>

\* The apply of job j, or what a cancelled one left running, is at work.
AtWork(j) ==
  \/ lock = j
  \/ thread[j].pc \in {"check", "write", "undo"} \/ thread[j].due # {}
  \/ job[j].cancels > 1 /\ strays # {}

\* `git checkout` of any branch, also while a job works on its own.
UserSwitch(b) ==
  /\ "switch" \in UserActs
  /\ b # head
  /\ Switchable(b)
  /\ Effect(Git("checkout", b))
  /\ job' = [j \in Jobs |-> IF AtWork(j) THEN [job[j] EXCEPT !.moved = TRUE] ELSE job[j]]
  /\ UNCHANGED <<lock, thread, strays, edited>>

UserStep ==
  \/ \E u \in Edits, f \in Files : UserEdit(u, f)
  \/ \E f \in Files : UserStage(f)
  \/ UserCommit
  \/ \E b \in Branches : UserSwitch(b)

Next ==
  \/ \E j \in Jobs : JobStep(j) \/ ThreadStep(j) \/ Cancel(j)
  \/ Stray \/ UserStep

\* Git and the threads terminate, and the lock goes to each job that waits for it.
Fairness ==
  \A j \in Jobs :
    /\ WF_vars(JobStep(j)) /\ SF_vars(Acquire(j))
    /\ WF_vars(ThreadStep(j))

Spec == Init /\ [][Next]_vars
FairSpec == Spec /\ Fairness

-----------------------------------------------------------------------------
(* Properties. *)

TypeOK ==
  /\ tip \in [Branches -> Tree \union {NoCommit}]
  /\ head \in Branches /\ Exists(head)
  /\ index \in Tree /\ work \in Tree
  /\ lock \in Jobs \union {NoJob}
  /\ job \in [Jobs -> Job]
  /\ thread \in [Jobs -> Thread]
  /\ strays \subseteq Command
  /\ edited \in UNION {[U -> [file : Files, inWindow : BOOLEAN]] : U \in SUBSET Edits}

\* The branch the user works on moves only when the user commits there, however jobs,
\* failures, edits and switches interleave: "leaving the user's current branch and
\* working tree untouched" (fix_service.py:6).  The code has three exceptions: the
\* commit of a job under whose apply the user switched, the commit a job leaves running
\* when it is cancelled twice, and that of a job which finds itself on another branch
\* because a checkout back that such a job left running took effect.
UserBranchUntouched ==
  [][tip'[Own] # tip[Own] =>
       \/ head = Own /\ UserCommit
       \/ \E j \in Jobs : job[j].moved /\ CommitFixes(j)
       \/ Stray
       \/ \E j, k \in Jobs : j # k /\ job[j].cancels > 1 /\ CommitFixes(k)]_vars

\* What the code does not guard against: the user switches branches while the apply
\* of job j is at work, or the job is cancelled more than once.
Disturbed(j) == job[j].moved \/ job[j].cancels > 1

\* Unless some job was disturbed, a job that reports fixes has committed one to each
\* file it fixed, on the branch it reports: files_changed of the result.
ReportedFixesCommitted ==
  (\A j \in Jobs : ~Disturbed(j)) =>
    \A j \in Jobs : job[j].pc = "applied" =>
      \A f \in job[j].final : j \in tip[job[j].branch][f]

\* A fix branch never mixes two jobs, although a job may read its files, and take
\* its start branch, while another one has its own fixes in the tree.
OneJobPerBranch ==
  \A b \in Branches \ {Own} : Exists(b) =>
    Cardinality(UNION {tip[b][f] : f \in Files} \intersect Jobs) <= 1

\* Whenever no job holds the lock the user is back on the own branch, with nothing
\* staged, nothing left in the tree and no fix branch without fixes, whichever
\* step failed and although the job was cancelled; and no branch mixes two jobs.
RepositoryRestored ==
  /\ TypeOK /\ OneJobPerBranch
  /\ lock = NoJob =>
       /\ head = Own
       /\ work = tip[Own] /\ index = tip[Own]
       /\ \A b \in Branches : b # Own /\ Exists(b) => tip[b] # tip[Own]

\* An edit of the user is in the tree or in a commit.
Kept1(u) ==
  LET f == edited[u].file IN
  u \in work[f] \/ \E b \in Branches : Exists(b) /\ u \in tip[b][f]

\* What the user edits while jobs run survives the writes, the rollback, the
\* unstaging, the checkouts and a second cancellation, with two exceptions in the code:
\* an edit made between the comparison of its file and the replacement, and a user who
\* switches branches while an apply is at work.
EditsSurvive ==
  (\A j \in Jobs : ~job[j].moved) => \A u \in DOMAIN edited : edited[u].inWindow \/ Kept1(u)

\* "One apply at a time per repo (lock)" (fix_service.py:26): while a job has the
\* lock, no other job's thread compares, writes or restores files.
OneApplyAtATime ==
  \A j, k \in Jobs : lock = j /\ thread[k].pc \in {"check", "write", "undo"} => k = j

\* A cancelled apply "restores the user's branch" (app.py:649).
CancelRestores ==
  (\A j \in Jobs : job[j].pc \in Terminal) => head = Own

\* Every job ends, and with it the wait of the others for the lock.
JobsEnd == \A j \in Jobs : <>(job[j].pc \in Terminal)

\* The jobs keep the promise of FixPromise: the fixes a job committed are those in
\* any branch, and only a job that ends "applied" reports them.
FixesOf(j) == {f \in Files : \E b \in Branches : Exists(b) /\ j \in tip[b][f]}
OutcomeOf(j) ==
  CASE job[j].pc \notin Terminal -> "running"
    [] job[j].pc = "applied" -> "applied"
    [] OTHER -> "none"
Promise ==
  INSTANCE FixPromise WITH fixes <- [j \in Jobs |-> FixesOf(j)],
                           outcome <- [j \in Jobs |-> OutcomeOf(j)]
PromiseKept == Promise!Spec
=============================================================================
