------------------------------- MODULE RemoteProofs -------------------------------
(***************************************************************************)
(* What works for pull requests and what stands between Claude Code and    *)
(* the models, for any number of tasks, requests, proxies, processes and   *)
(* questions: the user's work, the webhook's secret and limit, the answers *)
(* of the proxies, the settings, and the answers from Telegram.  What      *)
(* passes through the proxies is in MessageProofs.                         *)
(***************************************************************************)
EXTENDS MCRemote, SequenceTheorems, FiniteSetTheorems, TLAPS

\* Each part starts and moves as its own specification says, or not at all.
LEMMA PartSteps ==
  /\ SystemInit => Task!Init /\ Reviews!Init /\ Proxies!Init /\ Models!Init /\ Chat!Init
  /\ [SystemNext]_allVars => /\ [Task!Next]_taskVars
                             /\ [Reviews!Next]_reviewVars
                             /\ [Proxies!Next]_proxyVars
                             /\ [Models!Next]_modelVars
                             /\ [Chat!Next]_chatVars
<1>1. UNCHANGED allVars =>
        /\ UNCHANGED taskVars /\ UNCHANGED reviewVars /\ UNCHANGED proxyVars
        /\ UNCHANGED modelVars /\ UNCHANGED chatVars
  BY DEF allVars
<1>2. SystemNext =>
        /\ [Task!Next]_taskVars /\ [Reviews!Next]_reviewVars /\ [Proxies!Next]_proxyVars
        /\ [Models!Next]_modelVars /\ [Chat!Next]_chatVars
  BY DEF SystemNext
<1> QED BY <1>1, <1>2 DEF SystemInit

-----------------------------------------------------------------------------
(* Tasks: the user's work.                                                 *)

RepoBranch == Task!Home \cup Task!PRBranch
FileChanges == SUBSET Task!FileChange
OnBranch == {"checkout", "pull", "work", "gates", "stage", "commit", "push"}
TaskSteps == OnBranch \cup {"idle", "save", "restore"}

TaskType ==
  /\ at \in RepoBranch /\ branch \in RepoBranch /\ target \in Task!PRBranch
  /\ tree \in FileChanges /\ staged \in FileChanges /\ stash \in Seq(FileChanges)
  /\ committed \in [RepoBranch -> FileChanges] /\ pushed \in [RepoBranch -> FileChanges]
  /\ stashed \in BOOLEAN /\ failed \in BOOLEAN /\ step \in TaskSteps
  /\ found.at \in RepoBranch /\ found.tree \in FileChanges /\ found.stash \in Seq(FileChanges)

\* The user's change is neither in the index nor in a commit, and not in the tree
\* between the stash and its pop.
CleanInv ==
  /\ "edit" \notin staged
  /\ \A b \in RepoBranch : "edit" \notin committed[b] /\ "edit" \notin pushed[b]
  /\ step \in OnBranch => "edit" \notin tree

KeptInv == "edit" \in found.tree => Task!Somewhere("edit")

\* A task of which no command failed, on a branch, without a file git does not know:
\* what the repository looks like at each step, against what the task found.
Undisturbed == ~failed /\ found.at # Task!Detached /\ "new" \notin found.tree
AsFound == at = found.at /\ tree = found.tree /\ stash = found.stash
PutAside ==
  /\ branch = found.at /\ stashed = (found.tree # {})
  /\ stash = IF found.tree = {} THEN found.stash ELSE Append(found.stash, found.tree)
  /\ tree = IF step \in {"gates", "stage", "commit"} THEN {"fix"} ELSE {}
  /\ step = "commit" => staged = tree

TrackInv ==
  Undisturbed =>
    /\ step = "save" => AsFound
    /\ step \in OnBranch \cup {"restore"} => PutAside
    /\ step = "idle" /\ branch = Task!Detached => AsFound

TaskInv == TaskType /\ CleanInv /\ KeptInv /\ TrackInv

-----------------------------------------------------------------------------
(* The stack of stashes.                                                   *)

LEMMA Pushing ==
  ASSUME NEW s \in Seq(FileChanges), NEW c \in FileChanges
  PROVE  /\ Append(s, c) \in Seq(FileChanges) /\ Append(s, c) # <<>>
         /\ Task!Front(Append(s, c)) = s /\ Task!Last(Append(s, c)) = c
         /\ \A x : (\E i \in DOMAIN Append(s, c) : x \in Append(s, c)[i]) <=>
                   x \in c \/ \E i \in DOMAIN s : x \in s[i]
<1> DEFINE a == Append(s, c)
<1>1. /\ a \in Seq(FileChanges) /\ a # <<>> /\ Len(a) = Len(s) + 1
      /\ \A i \in 1..Len(s) : a[i] = s[i]
      /\ a[Len(s) + 1] = c
  BY AppendProperties
<1>2. Len(s) \in Nat /\ DOMAIN s = 1..Len(s) /\ DOMAIN a = 1..(Len(s) + 1)
  BY <1>1, LenProperties
<1> HIDE DEF a
<1>3. Task!Front(a) = s
  <2>1. Task!Front(a) = SubSeq(a, 1, Len(s)) BY <1>1, <1>2 DEF Task!Front
  <2>2. \A i \in 1..Len(s) : a[i] \in FileChanges BY <1>1, <1>2, ElementOfSeq
  <2>3. /\ SubSeq(a, 1, Len(s)) \in Seq(FileChanges) /\ Len(SubSeq(a, 1, Len(s))) = Len(s)
        /\ \A i \in 1..Len(s) : SubSeq(a, 1, Len(s))[i] = a[i]
    <3>1. 1 \in Int /\ Len(s) \in Int BY <1>2
    <3>2. /\ SubSeq(a, 1, Len(s)) \in Seq(FileChanges)
          /\ Len(SubSeq(a, 1, Len(s))) = IF 1 <= Len(s) THEN Len(s) - 1 + 1 ELSE 0
          /\ \A i \in 1..(Len(s) - 1 + 1) : SubSeq(a, 1, Len(s))[i] = a[1 + i - 1]
      BY <3>1, <2>2, SubSeqProperties
    <3> QED BY <3>2, <1>2
  <2> QED BY <2>1, <2>3, <1>1, SeqEqual
<1>4. Task!Last(a) = c BY <1>1 DEF Task!Last
<1>5. \A x : (\E i \in DOMAIN a : x \in a[i]) <=> x \in c \/ \E i \in DOMAIN s : x \in s[i]
  BY <1>1, <1>2
<1> QED BY <1>1, <1>3, <1>4, <1>5 DEF a

LEMMA Popping ==
  ASSUME NEW s \in Seq(FileChanges), s # <<>>
  PROVE  /\ Task!Front(s) \in Seq(FileChanges) /\ Task!Last(s) \in FileChanges
         /\ \A x : (\E i \in DOMAIN s : x \in s[i]) <=>
                   x \in Task!Last(s) \/ \E i \in DOMAIN Task!Front(s) : x \in Task!Front(s)[i]
<1>1. PICK r \in Seq(FileChanges), c \in FileChanges : s = Append(r, c) BY SequenceEmptyOrAppend
<1> QED BY <1>1, Pushing

-----------------------------------------------------------------------------
(* The steps.                                                              *)

LEMMA TaskInit == Task!Init => TaskInv
<1> SUFFICES ASSUME Task!Init PROVE TaskInv OBVIOUS
<1>1. TaskType
  BY EmptySeq DEF Task!Init, TaskType, RepoBranch, FileChanges, Task!FileChange, Task!UserChange,
       TaskSteps, OnBranch, Task!PRBranch, Task!Home
<1>2. CleanInv BY DEF Task!Init, CleanInv, RepoBranch, OnBranch
<1>3. KeptInv /\ TrackInv BY DEF Task!Init, KeptInv, TrackInv, AsFound, OnBranch
<1> QED BY <1>1, <1>2, <1>3 DEF TaskInv

LEMMA EditStep == ASSUME TaskInv, NEW c \in Task!UserChange, Task!Edit(c) PROVE TaskInv'
<1> USE DEF TaskInv, Task!Edit, Task!context, Task!bounds, Task!retry
<1>1. TaskType' BY DEF TaskType, FileChanges, Task!FileChange
<1>2. CleanInv' BY DEF CleanInv, OnBranch
<1>3. KeptInv' BY DEF KeptInv, Task!Somewhere
<1>4. TrackInv' BY DEF TrackInv, Undisturbed, AsFound, OnBranch
<1> QED BY <1>1, <1>2, <1>3, <1>4

LEMMA TakeStep == ASSUME TaskInv, NEW b \in Task!PRBranch, Task!Take(b) PROVE TaskInv'
<1> USE DEF TaskInv, Task!Take, Task!context, Task!git
<1>1. TaskType' BY DEF TaskType, TaskSteps, RepoBranch
<1>2. CleanInv' BY DEF CleanInv, OnBranch
<1>3. KeptInv' BY DEF KeptInv, Task!Somewhere
<1>4. TrackInv' BY DEF TrackInv, Undisturbed, AsFound, OnBranch
<1> QED BY <1>1, <1>2, <1>3, <1>4

LEMMA SaveStep == ASSUME TaskInv, Task!SaveContext PROVE TaskInv'
<1> USE DEF TaskInv, Task!SaveContext, Task!Goto, Task!retry, Task!bounds
<1>1. Task!Stashable \in FileChanges /\ Task!Stashable = tree \ {"new"} BY DEF TaskType,
        Task!Stashable, FileChanges
<1>2. TaskType' BY <1>1, Pushing DEF TaskType, FileChanges, TaskSteps, OnBranch
<1>3. CleanInv' BY <1>1 DEF CleanInv, OnBranch
<1>4. \A x : x # "new" /\ Task!Somewhere(x) => Task!Somewhere(x)'
  <2>1. CASE Task!Stashable = {} BY <1>1, <2>1 DEF Task!Somewhere
  <2>2. CASE Task!Stashable # {}
    <3>1. stash' = Append(stash, Task!Stashable) BY <2>2
    <3>2. \A x : (\E i \in DOMAIN stash' : x \in stash'[i]) <=>
                x \in Task!Stashable \/ \E i \in DOMAIN stash : x \in stash[i]
      <4>1. stash \in Seq(FileChanges) BY DEF TaskType
      <4> QED BY <4>1, <1>1, <3>1, Pushing
    <3>3. tree' = tree \ Task!Stashable OBVIOUS
    <3> QED BY <3>2, <3>3 DEF Task!Somewhere
  <2> QED BY <2>1, <2>2
<1>5. KeptInv' BY <1>4 DEF KeptInv
<1>6. TrackInv' BY <1>1 DEF TrackInv, Undisturbed, AsFound, PutAside, OnBranch
<1> QED BY <1>2, <1>3, <1>5, <1>6

LEMMA RestoreStep == ASSUME TaskInv, Task!RestoreContext PROVE TaskInv'
<1> USE DEF TaskInv, Task!RestoreContext, Task!Goto, Task!retry, Task!bounds, Task!context,
      Task!git
<1>1. CASE ~(stashed /\ branch # Task!Detached)
  <2>1. TaskType' BY <1>1 DEF TaskType, TaskSteps, OnBranch, RepoBranch, Task!Home, Task!Detached
  <2>2. CleanInv' BY <1>1 DEF CleanInv, OnBranch
  <2>3. KeptInv' BY <1>1 DEF KeptInv, Task!Somewhere
  <2>4. TrackInv' BY <1>1 DEF TrackInv, Undisturbed, AsFound, PutAside, OnBranch
  <2> QED BY <2>1, <2>2, <2>3, <2>4
<1>2. CASE stashed /\ branch # Task!Detached
  <2>1. /\ stash # <<>> /\ at' = branch /\ tree' = tree \cup Task!Last(stash)
             /\ stash' = Task!Front(stash)
        /\ branch' = Task!Detached /\ stashed' = FALSE /\ step' = "idle"
    BY <1>2
  <2>2. TaskType' BY <2>1, Popping DEF TaskType, FileChanges, TaskSteps, OnBranch, RepoBranch,
          Task!Home, Task!Detached
  <2>3. CleanInv' BY <2>1 DEF CleanInv, OnBranch
  <2>4. KeptInv' BY <2>1, Popping DEF KeptInv, Task!Somewhere, TaskType
  <2>5. ASSUME Undisturbed PROVE AsFound'
    <3>1. found.tree # {} /\ stash = Append(found.stash, found.tree) /\ tree = {}
            /\ branch = found.at
      BY <1>2, <2>5 DEF TrackInv, PutAside
    <3>2. Task!Front(stash) = found.stash /\ Task!Last(stash) = found.tree BY <3>1, Pushing
            DEF TaskType
    <3> QED BY <2>1, <3>1, <3>2 DEF AsFound
  <2>6. TrackInv' BY <2>1, <2>5 DEF TrackInv, Undisturbed, OnBranch
  <2> QED BY <2>2, <2>3, <2>4, <2>6
<1> QED BY <1>1, <1>2

LEMMA RestoreFailsStep == ASSUME TaskInv, Task!RestoreFails PROVE TaskInv'
<1>1. /\ at' \in {at, branch} /\ step' = "idle" /\ failed' = TRUE
      /\ UNCHANGED <<tree, staged, stash, committed, pushed, branch, stashed, target, found>>
  BY DEF Task!RestoreFails, Task!Fail, Task!context, Task!retry
<1>2. TaskType' BY <1>1 DEF TaskInv, TaskType, TaskSteps
<1>3. CleanInv' BY <1>1 DEF TaskInv, CleanInv, OnBranch
<1>4. KeptInv' /\ TrackInv' BY <1>1 DEF TaskInv, KeptInv, Task!Somewhere, TrackInv, Undisturbed
<1> QED BY <1>2, <1>3, <1>4 DEF TaskInv

LEMMA FailStep == ASSUME TaskInv, Task!SaveFails \/ Task!StepFails
  \/ \E permanent \in BOOLEAN : Task!ExecuteWithRetry(permanent)
                  PROVE  TaskInv'
<1>1. /\ step' \in {"restore", "work"} /\ failed' = TRUE /\ branch' \in {branch, at}
      /\ step' = "work" => step \in OnBranch
      /\ UNCHANGED <<at, tree, staged, stash, committed, pushed, stashed, target, found>>
  BY DEF Task!SaveFails, Task!StepFails, Task!ExecuteWithRetry, Task!Fail, OnBranch,
       Task!context, Task!git
<1>2. TaskType' BY <1>1 DEF TaskInv, TaskType, TaskSteps, OnBranch
<1>3. CleanInv' BY <1>1 DEF TaskInv, CleanInv, OnBranch
<1>4. KeptInv' /\ TrackInv' BY <1>1 DEF TaskInv, KeptInv, Task!Somewhere, TrackInv, Undisturbed
<1> QED BY <1>2, <1>3, <1>4 DEF TaskInv

\* The steps between the stash and its pop.
LEMMA WorkStep ==
  ASSUME TaskInv, Task!Checkout \/ Task!PullLatest \/ Task!Work \/ Task!GatesPass
           \/ Task!StageChanges \/ Task!CreateCommit \/ Task!PushToBranch
  PROVE  TaskInv'
<1> USE DEF TaskInv, Task!Goto, Task!context, Task!retry, Task!bounds, Task!git
<1>1. step \in OnBranch /\ UNCHANGED <<stash, branch, stashed, target, found, failed>>
  BY DEF Task!Checkout, Task!PullLatest, Task!Work, Task!GatesPass, Task!StageChanges,
       Task!CreateCommit, Task!PushToBranch, OnBranch
<1>2. /\ at' \in {at, target} /\ step' \in OnBranch \cup {"restore"}
      /\ tree' \in {tree, tree \cup {"fix"}, tree \ staged} /\ staged' \in {staged, tree, {}}
  BY DEF Task!Checkout, Task!PullLatest, Task!Work, Task!GatesPass, Task!StageChanges,
       Task!CreateCommit, Task!PushToBranch, OnBranch
<1>3. /\ committed' \in {committed, [committed EXCEPT ![target] = @ \cup pushed[target]],
                         [committed EXCEPT ![at] = @ \cup staged]}
      /\ pushed' \in {pushed, [pushed EXCEPT ![target] = committed[target]]}
  BY DEF Task!Checkout, Task!PullLatest, Task!Work, Task!GatesPass, Task!StageChanges,
       Task!CreateCommit, Task!PushToBranch
<1>4. target \in RepoBranch BY DEF TaskType, RepoBranch
<1>5. committed' \in [RepoBranch -> FileChanges] /\ pushed' \in [RepoBranch -> FileChanges]
  BY <1>3, <1>4 DEF TaskType, FileChanges
<1>6. TaskType' BY <1>1, <1>2, <1>4, <1>5 DEF TaskType, FileChanges, Task!FileChange, TaskSteps,
        OnBranch
<1>7. CleanInv'
  <2>1. "edit" \notin tree /\ "edit" \notin staged BY <1>1 DEF CleanInv
  <2>2. \A b \in RepoBranch : "edit" \notin committed'[b] /\ "edit" \notin pushed'[b]
    BY <1>3, <1>4, <2>1 DEF CleanInv, TaskType
  <2> QED BY <1>2, <2>1, <2>2 DEF CleanInv
<1>8. KeptInv' BY <1>1, <1>2 DEF KeptInv, CleanInv, Task!Somewhere
<1>9. TrackInv'
  BY <1>1 DEF TrackInv, Undisturbed, PutAside, OnBranch, Task!Checkout, Task!PullLatest,
       Task!Work, Task!GatesPass,
              Task!StageChanges, Task!CreateCommit, Task!PushToBranch
<1> QED BY <1>6, <1>7, <1>8, <1>9

LEMMA TaskStep == TaskInv /\ [Task!Next]_taskVars => TaskInv'
<1> SUFFICES ASSUME TaskInv, [Task!Next]_taskVars PROVE TaskInv' OBVIOUS
<1>1. CASE UNCHANGED taskVars
  BY <1>1 DEF taskVars, Task!git, Task!context, Task!retry, Task!bounds, TaskInv, TaskType,
       CleanInv, KeptInv, Task!Somewhere, TrackInv,
              Undisturbed, AsFound, PutAside
<1> QED BY <1>1, EditStep, TakeStep, SaveStep, RestoreStep, RestoreFailsStep, FailStep, WorkStep
     DEF Task!Next

\* saveContext, restoreContext and the steps between them: what the user changed in
\* tracked files is never committed with a fix and never lost, and a task of which no
\* command failed leaves branch, changes and stashes as it found them.
THEOREM UserKeepsTheWork == SystemSpec => []WorkPreserved
<1>1. SystemInit => TaskInv BY PartSteps, TaskInit
<1>2. TaskInv /\ [SystemNext]_allVars => TaskInv' BY PartSteps, TaskStep
<1>3. TaskInv => WorkPreserved
  BY DEF TaskInv, TaskType, CleanInv, KeptInv, TrackInv, Undisturbed, AsFound, WorkPreserved,
       Task!WorkPreserved
<1> QED BY <1>1, <1>2, <1>3, PTL DEF SystemSpec

-----------------------------------------------------------------------------
(* The webhook: the limit and the secret.                                  *)

Until(t) == IF t = 0 THEN 0 ELSE accepted[t - 1]

RateType ==
  /\ clock \in 0..LastTick /\ windowStart \in 0..clock /\ requestCount \in 0..MaxRequest
  /\ accepted \in [0..LastTick -> Nat]

\* Requests came in no later than the window ends.  While the receiver runs its counter
\* holds those of the window, and in the time as long as a window before it began there
\* were no more than the limit: they were all of the window before.
RateInv ==
  /\ RateType
  /\ \A t \in clock..LastTick : accepted[t] = accepted[clock]
  /\ \A t, u \in 0..LastTick : t <= u => accepted[t] <= accepted[u]
  /\ \A t \in 0..clock : t + 1 >= windowStart + Window => accepted[t] = accepted[clock]
  /\ running # {} =>
       /\ requestCount = accepted[clock] - Until(windowStart)
       /\ \A t \in 0..windowStart : windowStart < t + Window =>
            Until(windowStart) - Until(t) <= MaxRequest
  /\ Reviews!BurstBounded

SecretInv ==
  /\ secrets \in Nat
  /\ configFile \subseteq [enabled : BOOLEAN, secret : Nat, others : BOOLEAN]
  /\ \A c \in configFile : c.secret = Reviews!NoSecret => secrets = 0
  /\ \A x, y \in running : x = y
  /\ Reviews!SecretKept

LEMMA RateInit == Reviews!Init => RateInv /\ SecretInv
<1> SUFFICES ASSUME Reviews!Init PROVE RateInv /\ SecretInv OBVIOUS
<1> USE RateAssumption
<1>1. \A t \in 0..LastTick : accepted[t] = 0 BY DEF Reviews!Init, Reviews!NoRequests
<1>2. RateType BY DEF Reviews!Init, RateType, Reviews!NoRequests
<1>3. Reviews!BurstBounded
  <2> DEFINE before(t) == IF t = 0 THEN 0 ELSE accepted[t - 1]
  <2>1. \A t \in 0..LastTick : before(t) = 0 BY <1>1
  <2> QED BY <1>1, <2>1 DEF Reviews!BurstBounded
<1>4. RateInv BY <1>1, <1>2, <1>3 DEF Reviews!Init, RateInv
<1>5. SecretInv
  <2>1. configFile \subseteq [enabled : BOOLEAN, secret : Nat, others : BOOLEAN]
    <3>1. [enabled |-> FALSE, secret |-> Reviews!NoSecret,
            others |-> TRUE] \in [enabled : BOOLEAN, secret : Nat, others : BOOLEAN]
      BY DEF Reviews!NoSecret
    <3> HIDE DEF Reviews!NoSecret
    <3> QED BY <3>1, Zenon DEF Reviews!Init
  <2>2. secrets = 0 /\ running = {} /\ queuedBy = {} BY DEF Reviews!Init
  <2> QED BY <2>1, <2>2 DEF SecretInv, Reviews!SecretKept
<1> QED BY <1>4, <1>5

\* What begins or ends with the configuration and the secrets.
LEMMA SecretStep == SecretInv /\ [Reviews!Next]_reviewVars => SecretInv'
<1> SUFFICES ASSUME SecretInv, [Reviews!Next]_reviewVars PROVE SecretInv' OBVIOUS
<1> USE DEF SecretInv, Reviews!SecretKept
<1>1. CASE Reviews!Enable
  <2> DEFINE old == {c.secret : c \in configFile} \ {Reviews!NoSecret}
             next == IF old = {} THEN secrets + 1 ELSE CHOOSE s \in old : TRUE
             rest == \E c \in configFile : c.others
  <2>1. /\ secrets' = IF old = {} THEN secrets + 1 ELSE secrets
        /\ UNCHANGED <<running, queuedBy>>
    BY <1>1 DEF Reviews!Enable, Reviews!receiver
  <2>2. configFile' = {[enabled |-> TRUE, secret |-> next, others |-> rest]} BY <1>1, Zenon
          DEF Reviews!Enable
  <2>3. unreadable \/ (configFile = {} /\ secrets > 0) => unreadable' BY <1>1 DEF Reviews!Enable
  <2>4. old # {} => (CHOOSE s \in old : TRUE) \in old OBVIOUS
  <2>5. \A s \in old : s \in Nat /\ s # Reviews!NoSecret OBVIOUS
  <2>6. old = {} => configFile = {} \/ secrets = 0 OBVIOUS
  <2>7. next \in Nat /\ next # Reviews!NoSecret BY <2>4, <2>5 DEF Reviews!NoSecret
  <2>8. rest \in BOOLEAN BY Zenon
  <2> HIDE DEF old, next, rest
  <2>9. secrets' > 1 => unreadable' BY <2>1, <2>3, <2>6
  <2>10. configFile' \subseteq [enabled : BOOLEAN, secret : Nat, others : BOOLEAN] BY <2>2, <2>7,
           <2>8
  <2>11. \A c \in configFile' : c.secret # Reviews!NoSecret BY <2>2, <2>7
  <2> QED BY <2>1, <2>9, <2>10, <2>11
<1>2. CASE Reviews!Disable
  <2>1. \A c \in configFile' : \E d \in configFile : c.secret = d.secret BY <1>2
          DEF Reviews!Disable
  <2>2. configFile' \subseteq [enabled : BOOLEAN, secret : Nat, others : BOOLEAN] BY <1>2
          DEF Reviews!Disable
  <2> QED BY <1>2, <2>1, <2>2 DEF Reviews!Disable, Reviews!receiver
<1>3. CASE Reviews!Spoil BY <1>3 DEF Reviews!Spoil, Reviews!receiver
<1>4. CASE Reviews!Start BY <1>4 DEF Reviews!Start, Reviews!Others
<1>5. CASE Reviews!Stop BY <1>5 DEF Reviews!Stop, Reviews!Others
<1>6. CASE Reviews!Tick BY <1>6 DEF Reviews!Tick, Reviews!Others, Reviews!receiver
<1>7. ASSUME NEW s \in 0..MaxSecret, Reviews!Request(s) PROVE SecretInv' BY <1>7
               DEF Reviews!Request, Reviews!Others
<1>8. ASSUME NEW s \in 0..MaxSecret, NEW review, Reviews!End(s, review) PROVE SecretInv'
  <2>1. /\ \A q \in queuedBy' : q \in queuedBy \/ (s \in running /\ q \in {s} \X running)
        /\ UNCHANGED <<running, configFile, secrets, unreadable>>
    BY <1>8 DEF Reviews!End, Reviews!Others
  <2> QED BY <2>1
<1>9. CASE UNCHANGED reviewVars BY <1>9 DEF reviewVars
<1> QED BY <1>1, <1>2, <1>3, <1>4, <1>5, <1>6, <1>7, <1>8, <1>9 DEF Reviews!Next

\* A request that is let through counts from now on.
LEMMA RateRequest == ASSUME RateInv, NEW s, Reviews!Request(s) PROVE RateInv'
<1> USE RateAssumption
<1> DEFINE new == clock - windowStart >= Window
           count == IF new THEN 0 ELSE requestCount
<1>1. /\ running # {} /\ UNCHANGED <<clock, running>>
      /\ windowStart' = IF new THEN clock ELSE windowStart
      /\ \/ count >= MaxRequest /\ requestCount' = count /\ accepted' = accepted
         \/ count < MaxRequest /\ requestCount' = count + 1 /\ accepted' = Reviews!OneMore
  <2>1. count \in Nat BY DEF RateInv, RateType
  <2> QED BY <2>1 DEF Reviews!Request, RateInv, RateType
<1>2. RateType BY DEF RateInv
<1>3. \A t \in 0..LastTick : accepted'[t] = IF t >= clock
        /\ accepted' # accepted THEN accepted[t] + 1 ELSE accepted[t]
  BY <1>1, <1>2 DEF Reviews!OneMore, RateType
<1> HIDE DEF new, count
<1>4. RateType'
  <2>1. accepted' \in [0..LastTick -> Nat]
    <3>1. Reviews!OneMore \in [0..LastTick -> Nat] BY <1>2 DEF RateType, Reviews!OneMore
    <3> QED BY <1>1, <1>2, <3>1 DEF RateType
  <2>2. requestCount' \in 0..MaxRequest /\ windowStart' \in 0..clock
    BY <1>1, <1>2 DEF RateType, new, count
  <2> QED BY <1>1, <1>2, <2>1, <2>2 DEF RateType
<1>12. /\ windowStart' \in 0..clock /\ clock \in 0..LastTick /\ requestCount' \in 0..MaxRequest
       /\ accepted' \in [0..LastTick -> Nat]
  BY <1>1, <1>2, <1>4 DEF RateType
<1>14. PICK w \in 0..clock : windowStart' = w BY <1>12
<1>13. Until(windowStart)' = IF w = 0 THEN 0 ELSE accepted'[w - 1] BY <1>14 DEF Until
<1>5. \A t, u \in 0..LastTick : t <= u => accepted'[t] <= accepted'[u]
  BY <1>2, <1>3 DEF RateInv, RateType
<1>6. \A t \in clock..LastTick : accepted'[t] = accepted'[clock]
  BY <1>2, <1>3 DEF RateInv, RateType
<1>7. \A t \in 0..clock : Until(t)' = Until(t) /\ Until(t) \in Nat
  BY <1>1, <1>2, <1>3 DEF Until, RateType
<1>8. \A t, u \in 0..LastTick : t <= u => Until(t) <= Until(u)
  BY <1>2 DEF Until, RateInv, RateType
<1>9. \A t \in 0..clock : t + 1 >= windowStart' + Window => accepted'[t] = accepted'[clock]
  <2>1. ASSUME NEW t \in 0..clock, t + 1 >= windowStart' + Window PROVE t = clock
    BY <1>1, <1>2, <2>1 DEF RateType, new
  <2> QED BY <2>1
<1>10. /\ requestCount' = accepted'[clock] - Until(windowStart)'
       /\ \A t \in 0..windowStart' : windowStart' < t + Window =>
            Until(windowStart)' - Until(t)' <= MaxRequest
  <2>1. CASE new
    <3>1. windowStart' = clock /\ clock >= windowStart + Window /\ clock - 1 \in 0..clock
      BY <1>1, <1>2, <2>1 DEF RateType, new
    <3>2. Until(clock) = accepted[clock] BY <1>2, <3>1 DEF RateInv, Until, RateType
    <3>3. Until(windowStart)' = accepted[clock]
      <4>1. Until(windowStart)' = IF windowStart' = 0 THEN 0 ELSE accepted'[windowStart' - 1] BY
              DEF Until
      <4>2. Until(clock) = IF clock = 0 THEN 0 ELSE accepted[clock - 1] BY DEF Until
      <4>3. clock \in 0..clock BY <1>2 DEF RateType
      <4> QED BY <3>1, <3>2, <4>1, <4>2, <4>3, <1>1, <1>3, <1>2 DEF RateType
    <3>4. requestCount' = accepted'[clock] - accepted[clock]
      <4>1. count = 0 BY <2>1 DEF count
      <4>2. clock \in 0..LastTick /\ accepted[clock] \in Nat BY <1>2 DEF RateType
      <4>3. accepted' = Reviews!OneMore => accepted'[clock] = accepted[clock] + 1 BY <4>2
              DEF Reviews!OneMore
      <4> QED BY <1>1, <4>1, <4>2, <4>3
    <3>5. ASSUME NEW t \in 0..clock, clock < t + Window
                   PROVE accepted[clock] - Until(t)' <= MaxRequest
      <4>1. Until(windowStart) <= Until(t) /\ Until(t)' = Until(t) /\ Until(t) \in Nat
        BY <3>1, <3>5, <1>2, <1>7, <1>8 DEF RateType
      <4>2. accepted[clock] - Until(windowStart) <= MaxRequest BY <1>1, <1>2 DEF RateInv, RateType
      <4>3. Until(windowStart) \in Nat /\ accepted[clock] \in Nat BY <1>2, <1>7 DEF RateType
      <4> QED BY <4>1, <4>2, <4>3
    <3> QED BY <3>1, <3>3, <3>4, <3>5
  <2>2. CASE ~new
    <3>1. windowStart' = windowStart /\ windowStart \in 0..clock /\ clock \in 0..LastTick
            BY <1>1, <1>2, <2>2 DEF RateType
    <3>2. Until(windowStart)' = Until(windowStart)
      <4>1. Until(windowStart)' = IF windowStart' = 0 THEN 0 ELSE accepted'[windowStart' - 1] BY
              DEF Until
      <4> QED BY <3>1, <4>1, <1>2, <1>3 DEF Until, RateType
    <3>3. requestCount' = accepted'[clock] - Until(windowStart)
      <4>1. count = requestCount /\ accepted[clock] \in Nat /\ Until(windowStart) \in Nat
        BY <1>2, <1>7, <2>2, <3>1 DEF count, RateType
      <4>2. accepted' = Reviews!OneMore => accepted'[clock] = accepted[clock] + 1 BY <3>1
              DEF Reviews!OneMore
      <4>3. requestCount \in Nat /\ requestCount = accepted[clock] - Until(windowStart)
        BY <1>1, <1>2 DEF RateInv, RateType
      <4> QED BY <1>1, <4>1, <4>2, <4>3
    <3>4. ASSUME NEW t \in 0..windowStart, windowStart < t + Window
                   PROVE Until(windowStart) - Until(t)' <= MaxRequest
      <4>1. t \in 0..clock BY <3>1
      <4> QED BY <4>1, <3>4, <1>1, <1>7 DEF RateInv
    <3> QED BY <3>1, <3>2, <3>3, <3>4
  <2> QED BY <2>1, <2>2
<1>11. Reviews!BurstBounded'
  <2> SUFFICES ASSUME NEW t \in 0..LastTick, NEW u \in 0..LastTick, t <= u, u < t + Window
               PROVE  accepted'[u] - Until(t)' <= 2 * MaxRequest
    BY DEF Reviews!BurstBounded, Until
  <2> DEFINE low == IF t = 0 THEN 0 ELSE accepted[t - 1]
             low2 == IF t = 0 THEN 0 ELSE accepted'[t - 1]
  <2>1. Until(t)' = low2 /\ Until(t) = low BY DEF Until
  <2>2. low \in Nat /\ low2 \in Nat /\ accepted[u] \in Nat /\ accepted'[u] \in Nat
    BY <1>2, <1>4 DEF RateType
  <2>3. accepted[u] - low <= 2 * MaxRequest BY DEF RateInv, Reviews!BurstBounded
  <2>4. CASE u < clock
    <3>1. accepted'[u] = accepted[u] /\ low2 = low BY <2>4, <1>2, <1>3 DEF RateType
    <3> QED BY <2>1, <2>3, <3>1
  <2>5. CASE u >= clock /\ t > clock
    <3>1. accepted'[u] = accepted'[clock] /\ low2 = accepted'[clock] BY <2>5, <1>2, <1>6
            DEF RateType
    <3> QED BY <2>1, <2>2, <3>1
  <2>6. CASE u >= clock /\ t <= clock
    <3>1. accepted'[u] = accepted'[clock] /\ accepted'[clock] \in Nat BY <2>2, <2>6, <1>2, <1>6
            DEF RateType
    <3>2. Until(windowStart)' \in Nat /\ requestCount' <= MaxRequest /\ requestCount' \in Nat
      <4>1. w # 0 => w - 1 \in 0..LastTick BY <1>12
      <4>2. Until(windowStart)' \in Nat BY <4>1, <1>12, <1>13
      <4> QED BY <4>2, <1>12
    <3>3. CASE t >= windowStart'
      <4>1. Until(windowStart)' <= low2
        <5>1. CASE w = 0 BY <5>1, <1>13, <2>2
        <5>2. CASE w # 0
          <6>1. t - 1 \in 0..LastTick /\ w - 1 \in 0..LastTick /\ w - 1 <= t - 1 /\ t # 0
            BY <5>2, <3>3, <1>12, <1>14
          <6> QED BY <5>2, <6>1, <1>13, <1>5
        <5> QED BY <5>1, <5>2
      <4> QED BY <4>1, <3>1, <3>2, <1>10, <2>1, <2>2
    <3>4. CASE t < windowStart'
      <4>1. windowStart' < t + Window /\ t \in 0..windowStart'
        BY <2>6, <3>4, <1>12
      <4> QED BY <4>1, <3>1, <3>2, <1>10, <2>1, <2>2
    <3> QED BY <3>3, <3>4, <1>12
  <2> QED BY <2>4, <2>5, <2>6, <1>2 DEF RateType
<1> QED BY <1>1, <1>4, <1>5, <1>6, <1>9, <1>10, <1>11 DEF RateInv

LEMMA RateStep == RateInv /\ [Reviews!Next]_reviewVars => RateInv'
<1> SUFFICES ASSUME RateInv, [Reviews!Next]_reviewVars PROVE RateInv' OBVIOUS
<1> USE RateAssumption
<1>1. CASE Reviews!Start
  <2>1. /\ windowStart' = clock /\ requestCount' = 0 /\ accepted' = Reviews!NoRequests
             /\ clock' = clock
    BY <1>1 DEF Reviews!Start
  <2>2. clock \in 0..LastTick BY DEF RateInv, RateType
  <2>3. \A t \in 0..LastTick : accepted'[t] = 0 BY <2>1 DEF Reviews!NoRequests
  <2>4. accepted' \in [0..LastTick -> Nat] BY <2>1 DEF Reviews!NoRequests
  <2>5. RateType' BY <2>1, <2>2, <2>4 DEF RateType
  <2>6. \A t \in 0..LastTick : Until(t)' = 0 BY <2>3 DEF Until
  <2>7. Until(windowStart)' = 0 BY <2>1, <2>2, <2>3 DEF Until
  <2>8. Reviews!BurstBounded'
    <3> DEFINE before(t) == IF t = 0 THEN 0 ELSE accepted'[t - 1]
    <3>1. \A t \in 0..LastTick : before(t) = 0 BY <2>3
    <3> QED BY <2>3, <3>1 DEF Reviews!BurstBounded
  <2> QED BY <2>1, <2>2, <2>3, <2>5, <2>6, <2>7, <2>8 DEF RateInv
<1>2. CASE Reviews!Tick
  <2>1. clock < LastTick /\ clock' = clock + 1
        /\ UNCHANGED <<running, windowStart, requestCount, accepted>>
    BY <1>2 DEF Reviews!Tick, Reviews!receiver
  <2>2. clock \in 0..LastTick /\ windowStart \in 0..clock BY DEF RateInv, RateType
  <2>3. RateType' BY <2>1, <2>2 DEF RateInv, RateType
  <2>4. accepted[clock + 1] = accepted[clock] BY <2>1, <2>2 DEF RateInv
  <2>5. \A t \in 0..LastTick : Until(t)' = Until(t) BY <2>1 DEF Until
  <2>6. Until(windowStart)' = Until(windowStart) BY <2>1 DEF Until
  <2>7. Reviews!BurstBounded' BY <2>1 DEF RateInv, Reviews!BurstBounded
  <2>8. \A t \in clock'..LastTick : accepted'[t] = accepted'[clock'] BY <2>1, <2>2, <2>4
          DEF RateInv
  <2>9. \A t \in 0..clock' : t + 1 >= windowStart' + Window => accepted'[t] = accepted'[clock']
    BY <2>1, <2>2, <2>4 DEF RateInv
  <2>10. running' # {} => requestCount' = accepted'[clock'] - Until(windowStart)'
    BY <2>1, <2>4, <2>6 DEF RateInv
  <2>11. running' # {} => \A t \in 0..windowStart' :
           windowStart' < t + Window => Until(windowStart)' - Until(t)' <= MaxRequest
    BY <2>1, <2>2, <2>5, <2>6 DEF RateInv
  <2> QED BY <2>1, <2>3, <2>7, <2>8, <2>9, <2>10, <2>11 DEF RateInv
<1>3. CASE running' \in {running, {}} /\ UNCHANGED <<clock, windowStart, requestCount, accepted>>
  BY <1>3 DEF RateInv, RateType, Until, Reviews!BurstBounded
<1>4. CASE Reviews!Enable \/ Reviews!Disable \/ Reviews!Spoil BY <1>3, <1>4 DEF Reviews!Enable,
             Reviews!Disable, Reviews!Spoil, Reviews!receiver
<1>5. CASE Reviews!Stop BY <1>3, <1>5 DEF Reviews!Stop
<1>6. ASSUME NEW s \in 0..MaxSecret, NEW review, Reviews!End(s, review) PROVE RateInv'
  BY <1>3, <1>6 DEF Reviews!End
<1>7. CASE UNCHANGED reviewVars BY <1>3, <1>7 DEF reviewVars
<1> QED BY <1>1, <1>2, <1>4, <1>5, <1>6, <1>7, RateRequest DEF Reviews!Next
\* checkRateLimit and validateSignature (webhook-receiver.ts), enable and disable
\* (webhook-config.ts): in no stretch of time as long as a window do more than twice the
\* limit of requests come through, however often the receiver is started; the secret is
\* never replaced, unless config.json could not be read; and every task queued came from a
\* request signed with the secret of the receiver that ran.
THEOREM ReviewsAreChecked == SystemSpec => []ReviewsAreSigned
<1>1. SystemInit => RateInv /\ SecretInv BY PartSteps, RateInit
<1>2. RateInv /\ SecretInv /\ [SystemNext]_allVars => RateInv' /\ SecretInv'
  BY PartSteps, RateStep, SecretStep
<1>3. RateInv /\ SecretInv => ReviewsAreSigned BY DEF RateInv, SecretInv, ReviewsAreSigned
<1> QED BY <1>1, <1>2, <1>3, PTL DEF SystemSpec

-----------------------------------------------------------------------------
(* The settings: keys, what the services save, and what the router answers. *)

Config == [agent : Models!ModelId \cup {Models!None}, default : {Models!None, "claude"},
  keys : SUBSET Models!Key]
UserConfig == {c \in Config : c.agent # "bare" /\ c.default = Models!None}

\* Who saves has the keys that were stored, and saves alone.
KeysInv ==
  /\ subject = "router" => user \subseteq UserConfig
  /\ subject # "commands" => given = {} /\ \A c \in Command : command[c].stage = "idle"
  /\ user \subseteq Config /\ project \subseteq Config
  /\ command \in [Command -> [stage : {"idle", "save"}, job : Models!Job \cup {Models!None},
       copy : Config]]
  /\ \A c \in Command : command[c].stage = "save" => command[c].job \in Models!Job
       /\ Models!Accepted(command[c].job)
  /\ ~lost => /\ \A c, d \in Command :
                   command[c].stage = "save" /\ command[d].stage = "save" => c = d
              /\ \A c \in Command : command[c].stage = "save" =>
                   given \subseteq command[c].copy.keys
  /\ Models!KeysKept

Styles == {"visual", "audio"}
Kept == [style : Styles, telegram : {"on", "off"}, model : Models!ModelId \cup {Models!None}]

\* Every copy is valid; before there is a file each is the default.
ServiceInv ==
  /\ settings \subseteq Kept /\ copy \in [Service -> SUBSET Kept] /\ wanted \in Kept
  /\ settings = {} => wanted = Models!NoSettings
       /\ \A s \in Service : copy[s] \subseteq {Models!NoSettings}
  /\ Models!SettingsKept

Follows(m, r) ==
  ~caught =>
    /\ \E u, p \in since : m = Models!Resolved(<<u[1], p[2]>>, r)
    /\ Models!Execute(m, FALSE, FALSE) = "unknown" => \E pair \in since : pair[2].agent = m

\* What is merged or cached follows from the configs since the invalidation; and so does
\* what will be merged: whichever resolution read it, it was read since then.
RouterInv ==
  /\ subject # "router" => resolved = {} /\ pending = {} /\ merged = {}
       /\ cache = [r \in Models!Request |-> Models!None]
  /\ subject = "router" => user \subseteq UserConfig /\ project \subseteq Config
  /\ subject = "router" => <<Models!Read(user), Models!Read(project)>> \in since
  /\ since # {} /\ since \subseteq UserConfig \X Config
  /\ pending \subseteq [request : Models!Request, stage : {"project", "merge"}]
  /\ read \in UserConfig \X Config
  /\ ~caught /\ pending # {} => \E u \in since : u[1] = read[1]
  /\ ~caught => \A p \in pending : p.stage = "merge" => \E q \in since : q[2] = read[2]
  /\ \A pair \in merged : /\ pair \in UserConfig \X Config
                          /\ ~caught => \E p \in since : p[2] = pair[2]
                          /\ ~caught => \E u \in since : u[1] = pair[1]
  /\ cache \in [Models!Request -> Models!ModelId \cup {Models!None, "openrouter/other"}]
  /\ \A r \in Models!Request : cache[r] # Models!None => Follows(cache[r], r)
  /\ \A a \in resolved : Follows(a.model, a.request)

LEMMA ConfigRecords ==
  /\ Models!Empty \in UserConfig /\ Models!Empty \in Config /\ Models!Empty.keys = {}
  /\ \A file \in SUBSET Config : Models!Read(file) \in Config
       /\ (file # {} => Models!Read(file) \in file)
  /\ \A file \in SUBSET UserConfig : Models!Read(file) \in UserConfig
<1>1. Models!Empty \in UserConfig /\ Models!Empty \in Config /\ Models!Empty.keys = {} BY
        DEF Models!Empty, UserConfig, Config, Models!None
<1>2. \A file : file # {} => (CHOOSE c \in file : TRUE) \in file OBVIOUS
<1>3. UserConfig \subseteq Config BY DEF UserConfig
<1>4. \A file : Models!Read(file) = IF file = {} THEN Models!Empty ELSE CHOOSE c \in file : TRUE
        BY DEF Models!Read
<1> HIDE DEF Config, UserConfig, Models!Read
<1> QED BY <1>1, <1>2, <1>3, <1>4

LEMMA Edited ==
  ASSUME user \subseteq UserConfig, project \subseteq Config, Models!Edit
  PROVE  user' \subseteq UserConfig /\ project' \subseteq Config
<1>1. \A m \in Models!ModelId : Models!IsValidModelId(m) =>
        [Models!Empty EXCEPT !.agent = m] \in UserConfig
  BY DEF Models!Empty, UserConfig, Config, Models!ModelId, Models!None, Models!IsValidModelId,
       Models!ProviderOf
<1>2. \A m \in {Models!None, "bare"} : [Models!Empty EXCEPT !.agent = m,
        !.default = "claude"] \in Config
  BY DEF Models!Empty, Config, Models!ModelId, Models!None
<1> HIDE DEF UserConfig, Config, Models!IsValidModelId
<1>3. CASE UNCHANGED project
             /\ \E c \in {{}} \cup {{[Models!Empty EXCEPT !.agent = m]} : m \in {m \in Models!ModelId : Models!IsValidModelId(m)}} : user' = c
  BY <1>1, <1>3
<1>4. CASE UNCHANGED user /\ \E m \in {Models!None,
             "bare"} : project' = {[Models!Empty EXCEPT !.agent = m, !.default = "claude"]}
  BY <1>2, <1>4
<1> QED BY <1>3, <1>4 DEF Models!Edit

LEMMA ModelsInit == Models!Init => KeysInv /\ ServiceInv /\ RouterInv
<1> SUFFICES ASSUME Models!Init PROVE KeysInv /\ ServiceInv /\ RouterInv OBVIOUS
<1>1. KeysInv
  BY ConfigRecords DEF Models!Init, KeysInv, Models!KeysKept
<1>2. Models!NoSettings \in Kept BY DEF Models!NoSettings, Kept, Styles
<1>3. ServiceInv BY <1>2 DEF Models!Init, ServiceInv, Models!SettingsKept
<1>4. RouterInv
  <2>1. <<Models!Read(user), Models!Read(project)>> \in UserConfig \X Config BY ConfigRecords
          DEF Models!Init
  <2>2. read \in UserConfig \X Config BY ConfigRecords DEF Models!Init
  <2> QED BY <2>1, <2>2 DEF Models!Init, RouterInv
<1> QED BY <1>1, <1>3, <1>4

LEMMA KeysStep == KeysInv /\ [Models!Next]_modelVars => KeysInv'
<1> SUFFICES ASSUME KeysInv, [Models!Next]_modelVars PROVE KeysInv' OBVIOUS
<1>1. ASSUME NEW c \in Command, NEW j \in Models!Job, Models!LoadConfig(c, j),
               subject' = subject, subject = "commands" PROVE KeysInv'
  <2>1. /\ Models!Accepted(j)
             /\ command' = [command EXCEPT ![c] = [stage |-> "save", job |-> j,
                copy |-> Models!Read(user)]]
        /\ lost \/ (user = {} /\ given # {}) \/ (\E d \in Command : command[d].stage = "save") =>
             lost'
        /\ UNCHANGED <<user, project, given>>
    BY <1>1 DEF Models!LoadConfig
  <2>2. Models!Read(user) \in Config BY ConfigRecords DEF KeysInv
  <2>3. ~lost' => given \subseteq Models!Read(user).keys BY <2>1 DEF KeysInv, Models!KeysKept
  <2>4. Models!KeysKept' BY <2>1, <2>3 DEF Models!KeysKept
  <2>5. command' \in [Command -> [stage : {"idle", "save"}, job : Models!Job \cup {Models!None},
          copy : Config]]
    BY <2>1, <2>2 DEF KeysInv
  <2>6. \A d \in Command : command'[d] = IF d = c THEN [stage |-> "save", job |-> j,
          copy |-> Models!Read(user)] ELSE command[d]
    BY <2>1 DEF KeysInv
  <2> HIDE DEF Models!Read, Models!Accepted
  <2> QED BY <1>1, <2>1, <2>2, <2>3, <2>4, <2>5, <2>6 DEF KeysInv
<1>2. ASSUME NEW c \in Command, Models!SaveConfig(c), subject' = subject, subject = "commands"
               PROVE KeysInv'
  <2> DEFINE j == command[c].job
             next == Models!Changed(command[c].copy, j)
  <2>1. /\ command[c].stage = "save" /\ user' = {next}
             /\ command' = [command EXCEPT ![c].stage = "idle"]
        /\ given' = IF j.field = "keys" THEN given \cup {j.value} ELSE given
        /\ UNCHANGED <<project, lost>>
    BY <1>2 DEF Models!SaveConfig
  <2>2. j \in Models!Job /\ Models!Accepted(j) /\ command[c].copy \in Config BY <2>1 DEF KeysInv
  <2>3. /\ next \in Config /\ command[c].copy.keys \subseteq next.keys
        /\ j.field = "keys" => j.value \in next.keys
    BY <2>2 DEF Models!Changed, Models!Accepted, Models!Job, Config
  <2>4. \A d \in Command :
          command'[d] = IF d = c THEN [command[c] EXCEPT !.stage = "idle"] ELSE command[d]
    BY <2>1 DEF KeysInv
  <2>5. command' \in [Command -> [stage : {"idle", "save"}, job : Models!Job \cup {Models!None},
          copy : Config]]
    BY <2>1 DEF KeysInv
  <2> HIDE DEF next, j
  <2>6. Models!Read(user') = next
    <3>1. (CHOOSE x \in {next} : TRUE) = next OBVIOUS
    <3> QED BY <2>1, <3>1 DEF Models!Read
  <2>7. Models!KeysKept' BY <2>1, <2>3, <2>6 DEF Models!KeysKept, KeysInv
  <2>8. \A d \in Command : command'[d].stage = "save" => d # c /\ command[d].stage = "save"
          /\ command'[d] = command[d]
    BY <2>4 DEF KeysInv
  <2>9. \A d \in Command : ~lost' => command'[d].stage # "save"
    BY <2>1, <2>8 DEF KeysInv
  <2> HIDE DEF Models!Accepted
  <2> QED BY <1>2, <2>1, <2>3, <2>5, <2>7, <2>8, <2>9 DEF KeysInv
<1>3. ASSUME Models!Spoil, subject' = subject, subject = "commands" PROVE KeysInv'
  <2>1. user' = {} /\ (lost \/ user # {} => lost') /\ UNCHANGED <<project, command, given>>
    BY <1>3 DEF Models!Spoil
  <2> QED BY <1>3, <2>1 DEF KeysInv, Models!KeysKept
<1>4. ASSUME Models!Edit, subject' = subject, subject = "router" PROVE KeysInv'
  <2>1. user' \subseteq Config /\ project' \subseteq Config
    BY <1>4, Edited DEF KeysInv, UserConfig
  <2>2. UNCHANGED <<command, given, lost>> BY <1>4 DEF Models!Edit
  <2>3. user' \subseteq UserConfig BY <1>4, Edited DEF KeysInv
  <2> QED BY <1>4, <2>1, <2>2, <2>3 DEF KeysInv, Models!KeysKept
<1>5. ASSUME UNCHANGED Models!files, subject' = subject PROVE KeysInv'
  BY <1>5 DEF Models!files, KeysInv, Models!KeysKept, Models!Read
<1>6. CASE UNCHANGED modelVars BY <1>5, <1>6 DEF modelVars, Models!files
<1>7. ASSUME NEW r, Models!Resolve(r) PROVE UNCHANGED Models!files BY <1>7 DEF Models!Resolve
<1>8. ASSUME NEW p, Models!ReadProject(p) \/ Models!Merge(p) PROVE UNCHANGED Models!files
  BY <1>8 DEF Models!ReadProject, Models!Merge
<1>9. Models!InvalidateCache => UNCHANGED Models!files BY DEF Models!InvalidateCache
<1> QED BY <1>1, <1>2, <1>3, <1>4, <1>5, <1>6, <1>7, <1>8, <1>9 DEF Models!Next

LEMMA ServiceStep == ServiceInv /\ [Models!Next]_modelVars => ServiceInv'
<1> SUFFICES ASSUME ServiceInv, [Models!Next]_modelVars PROVE ServiceInv' OBVIOUS
<1>1. \A c \in Kept : Models!Valid(c) = c BY DEF Kept, Models!Valid, Styles
<1>2. Models!NoSettings \in Kept /\ Models!Valid(Models!NoSettings) = Models!NoSettings BY <1>1
        DEF Models!NoSettings, Kept, Styles
<1>3. ASSUME NEW s \in Service, Models!New(s) PROVE ServiceInv'
  <2> DEFINE fresh ==
        {Models!Valid(c) : c \in IF settings = {} THEN {Models!NoSettings} ELSE settings}
  <2>1. copy' = [copy EXCEPT ![s] = fresh] /\ UNCHANGED <<settings, wanted, stale>>
    BY <1>3 DEF Models!New
  <2>2. fresh \subseteq Kept /\ (settings = {} => fresh \subseteq {Models!NoSettings})
    BY <1>1, <1>2 DEF ServiceInv
  <2> HIDE DEF fresh
  <2>3. copy' \in [Service -> SUBSET Kept] BY <2>1, <2>2 DEF ServiceInv
  <2>4. settings' = {} => \A t \in Service : copy'[t] \subseteq {Models!NoSettings} BY <2>1, <2>2
          DEF ServiceInv
  <2> QED BY <2>1, <2>3, <2>4 DEF ServiceInv, Models!SettingsKept
<1>4. ASSUME NEW s \in Service, NEW f \in Models!Field, Models!SetField(s, f) PROVE ServiceInv'
  <2> DEFINE change(c) == IF f.value = "loud" THEN c ELSE [c EXCEPT ![f.field] = f.value]
  <2>1. PICK old \in copy[s] :
          /\ copy' = [copy EXCEPT ![s] = {change(old)}] /\ settings' = {change(old)}
          /\ wanted' = change(wanted)
          /\ stale \/ (settings # {} /\ copy[s] # settings) => stale'
    BY <1>4 DEF Models!SetField
  <2>2. \A c \in Kept : change(c) \in Kept
    <3>1. CASE f \in [field : {"telegram"}, value : {"on", "off"}] BY <3>1 DEF Kept, Models!ModelId
    <3>2. CASE f \in [field : {"model"}, value : Models!ModelId] BY <3>2 DEF Kept, Models!ModelId
    <3>3. CASE f \in [field : {"style"}, value : {"audio", "loud"}] BY <3>3 DEF Kept, Styles
    <3> QED BY <3>1, <3>2, <3>3 DEF Models!Field
  <2> HIDE DEF change
  <2>3. old \in Kept /\ wanted \in Kept BY <2>1 DEF ServiceInv
  <2>4. ~stale' => old = wanted
    <3>1. CASE settings = {} BY <2>1, <3>1 DEF ServiceInv
    <3>2. CASE settings # {} /\ ~stale'
      <4>1. old \in settings /\ ~stale BY <2>1, <3>2
      <4>2. Models!Valid(old) = wanted /\ old = Models!Valid(old) BY <4>1 DEF ServiceInv,
              Models!SettingsKept
      <4> QED BY <4>2
    <3> QED BY <3>1, <3>2
  <2>5. copy' \in [Service -> SUBSET Kept] BY <2>1, <2>2, <2>3 DEF ServiceInv
  <2>6. Models!SettingsKept' BY <1>1, <2>1, <2>2, <2>3, <2>4 DEF Models!SettingsKept
  <2> QED BY <2>1, <2>2, <2>3, <2>5, <2>6 DEF ServiceInv
<1>5. ASSUME UNCHANGED Models!service PROVE ServiceInv'
  BY <1>5 DEF Models!service, ServiceInv, Models!SettingsKept
<1>6. UNCHANGED modelVars => UNCHANGED Models!service BY DEF modelVars, Models!service
<1>7. ASSUME NEW c, Models!SaveConfig(c) \/ \E j \in Models!Job : Models!LoadConfig(c, j)
               PROVE UNCHANGED Models!service
  BY <1>7 DEF Models!SaveConfig, Models!LoadConfig
<1>8. Models!Spoil \/ Models!Edit \/ Models!InvalidateCache => UNCHANGED Models!service BY
        DEF Models!Spoil, Models!Edit, Models!InvalidateCache
<1>9. ASSUME NEW r, Models!Resolve(r) \/ Models!ReadProject(r) \/ Models!Merge(r)
      PROVE  UNCHANGED Models!service
  BY <1>9 DEF Models!Resolve, Models!ReadProject, Models!Merge
<1> QED BY <1>3, <1>4, <1>5, <1>6, <1>7, <1>8, <1>9 DEF Models!Next

\* What is resolved from configs since the invalidation follows from them: no provider
\* runs only what the project's config names.
LEMMA Resolving ==
  ASSUME RouterInv, NEW r \in Models!Request, NEW pair \in UserConfig \X Config,
         ~caught => r.cli # Models!None \/ \E p \in since : p[2] = pair[2],
         ~caught => r.cli # Models!None \/ \E u \in since : u[1] = pair[1]
  PROVE  Follows(Models!Resolved(pair, r), r)
           /\ Models!Resolved(pair, r) \in Models!ModelId \cup {Models!None, "openrouter/other"}
<1> DEFINE m == Models!Resolved(pair, r)
<1>1. /\ r.cli \in {Models!None, "ollama/llama3.2"}
           /\ r.frontmatter \in {Models!None, "openrouter/other"}
      /\ pair[1].agent \in Models!ModelId \cup {Models!None} /\ pair[1].agent # "bare"
           /\ pair[1].default = Models!None
      /\ pair[2].agent \in Models!ModelId \cup {Models!None}
           /\ pair[2].default \in {Models!None, "claude"}
  BY DEF Models!Request, UserConfig, Config
<1>2. m \in {r.cli, pair[1].agent, pair[2].agent, r.frontmatter, "claude"}
        /\ (r.cli # Models!None => m = r.cli)
      /\ (m = pair[1].agent \/ m # Models!None)
  BY <1>1 DEF Models!Resolved, Models!Or
<1>3. m \in Models!ModelId \cup {Models!None, "openrouter/other"} BY <1>1, <1>2 DEF Models!ModelId
<1>4. ASSUME ~caught PROVE \E u, p \in since : m = Models!Resolved(<<u[1], p[2]>>, r)
  <2>1. CASE r.cli # Models!None
    <3>1. PICK u \in since : TRUE BY DEF RouterInv
    <3>2. \A x : Models!Resolved(x, r) = r.cli BY <2>1 DEF Models!Resolved, Models!Or
    <3>3. m = Models!Resolved(<<u[1], u[2]>>, r) BY <3>2
    <3> HIDE DEF m, Models!Resolved
    <3> QED BY <3>1, <3>3
  <2>2. CASE r.cli = Models!None
    <3>1. PICK u \in since, p \in since : u[1] = pair[1] /\ p[2] = pair[2] BY <1>4, <2>2
    <3>2. <<u[1], p[2]>> = pair BY <3>1
    <3> QED BY <3>2
  <2> QED BY <2>1, <2>2
<1>5. ASSUME ~caught, Models!Execute(m, FALSE, FALSE) = "unknown"
      PROVE \E p \in since : p[2].agent = m
  <2>1. m \notin {"claude", "ollama/llama3.2", "openrouter/other"}
    BY <1>5 DEF Models!Execute, Models!ProviderOf, Models!Or, Models!None
  <2>2. m = "bare" \/ m = Models!None BY <1>3, <2>1 DEF Models!ModelId
  <2>3. m # Models!None
    BY <1>1 DEF Models!Resolved, Models!Or, Models!None
  <2>4. m = pair[2].agent BY <1>1, <1>2, <2>2, <2>3, <2>1
  <2>5. r.cli = Models!None BY <1>1, <1>2, <2>1, <2>3 DEF Models!None
  <2> QED BY <1>5, <2>4, <2>5
<1> HIDE DEF m
<1> QED BY <1>3, <1>4, <1>5 DEF Follows, m

LEMMA RouterStep == RouterInv /\ [Models!Next]_modelVars => RouterInv'
<1> SUFFICES ASSUME RouterInv, [Models!Next]_modelVars PROVE RouterInv' OBVIOUS
<1>1. ASSUME NEW r \in Models!Request, Models!Resolve(r), subject = "router", subject' = subject
               PROVE RouterInv'
  <2>1. UNCHANGED <<user, project, merged, since, caught>> BY <1>1 DEF Models!Resolve,
          Models!files
  <2>2. CASE cache[r] # Models!None /\ Models!Answer(r, cache[r])
        /\ UNCHANGED <<cache, pending, read>>
    <3>1. \A a \in resolved' : a.request = r /\ a.model = cache[r] BY <2>2 DEF Models!Answer
    <3>2. Follows(cache[r], r) BY <2>2 DEF RouterInv
    <3>3. \A x, q : Follows(x, q)' <=> Follows(x, q) BY <2>1 DEF Follows
    <3>4. UNCHANGED <<Models!Read(user), Models!Read(project)>> BY <2>1 DEF Models!Read
    <3> HIDE DEF Models!Read
    <3> QED BY <1>1, <2>1, <2>2, <3>1, <3>2, <3>3, <3>4 DEF RouterInv
  <2>3. ASSUME NEW pair \in IF merged = {} THEN {<<Models!Empty, Models!Empty>>} ELSE merged,
               r.cli # Models!None \/ merged # {}, Models!Answer(r, Models!Resolved(pair, r)),
                 UNCHANGED <<pending, read>>,
               cache' = [cache EXCEPT ![r] = Models!Resolved(pair, r)]
        PROVE  RouterInv'
    <3> DEFINE m == Models!Resolved(pair, r)
    <3>1. pair \in UserConfig \X Config
      <4>1. CASE merged = {} BY <4>1, <2>3, ConfigRecords
      <4>2. CASE merged # {} BY <4>2, <2>3 DEF RouterInv
      <4> QED BY <4>1, <4>2
    <3>2. ~caught => r.cli # Models!None \/ \E p \in since : p[2] = pair[2] BY <2>3 DEF RouterInv
    <3>3. ~caught => r.cli # Models!None \/ \E u \in since : u[1] = pair[1] BY <2>3 DEF RouterInv
    <3>4. Follows(m, r) /\ m \in Models!ModelId \cup {Models!None, "openrouter/other"} BY <3>1,
            <3>2, <3>3, Resolving
    <3>5. \A a \in resolved' : a.request = r /\ a.model = m BY <2>3 DEF Models!Answer
    <3> HIDE DEF m
    <3>6. cache' = [cache EXCEPT ![r] = m] BY <2>3 DEF m
    <3>7. \A q \in Models!Request : cache'[q] = IF q = r THEN m ELSE cache[q] BY <3>6
            DEF RouterInv
    <3>8. cache' \in [Models!Request -> Models!ModelId \cup {Models!None, "openrouter/other"}]
            BY <3>4, <3>6 DEF RouterInv
    <3>9. \A x, q : Follows(x, q)' <=> Follows(x, q) BY <2>1 DEF Follows
    <3> QED BY <1>1, <2>1, <2>3, <3>4, <3>5, <3>7, <3>8, <3>9 DEF RouterInv
  <2>4. CASE resolved' = {} /\ UNCHANGED cache
               /\ pending' = pending \cup {[request |-> r, stage |-> "project"]}
               /\ read' = <<Models!Read(user), read[2]>>
    <3>1. Models!Read(user) \in UserConfig BY <1>1, ConfigRecords DEF RouterInv
    <3>2. \E u \in since : u[1] = Models!Read(user) BY <1>1 DEF RouterInv
    <3> HIDE DEF Models!Read
    <3>3. \A p \in pending' : p \in pending \/ p = [request |-> r, stage |-> "project"] BY <2>4
    <3>4. /\ pending' \subseteq [request : Models!Request, stage : {"project", "merge"}]
          /\ \A p \in pending' : p.stage = "merge" => p \in pending
      BY <1>1, <3>3 DEF RouterInv
    <3>5. /\ read' \in UserConfig \X Config /\ read'[2] = read[2]
          /\ \E u \in since : u[1] = read'[1]
      BY <2>4, <3>1, <3>2 DEF RouterInv
    <3>6. \A x, q : Follows(x, q)' <=> Follows(x, q) BY <2>1 DEF Follows
    <3>7. UNCHANGED <<Models!Read(user), Models!Read(project)>> BY <2>1 DEF Models!Read
    <3> QED BY <1>1, <2>1, <2>4, <3>4, <3>5, <3>6 DEF RouterInv
  <2> QED BY <1>1, <2>2, <2>3, <2>4 DEF Models!Resolve
<1>0. ASSUME NEW p \in pending, Models!ReadProject(p), subject' = subject PROVE RouterInv'
  <2>1. /\ pending' = (pending \ {p}) \cup {[p EXCEPT !.stage = "merge"]}
        /\ read' = <<read[1], Models!Read(project)>> /\ resolved' = {}
        /\ UNCHANGED <<user, project, cache, merged, since, caught>>
    BY <1>0 DEF Models!ReadProject, Models!files
  <2>2. subject = "router" /\ p.request \in Models!Request BY DEF RouterInv
  <2>3. Models!Read(project) \in Config BY <2>2, ConfigRecords DEF RouterInv
  <2>4. \E q \in since : q[2] = Models!Read(project) BY <2>2 DEF RouterInv
  <2>5. UNCHANGED <<Models!Read(user), Models!Read(project)>> BY <2>1 DEF Models!Read
  <2> HIDE DEF Models!Read
  <2>6. pending' \subseteq [request : Models!Request, stage : {"project", "merge"}]
    <3>1. p \in [request : Models!Request, stage : {"project", "merge"}] BY DEF RouterInv
    <3>2. [p EXCEPT !.stage = "merge"] \in [request : Models!Request, stage : {"project", "merge"}]
      BY <3>1
    <3> QED BY <2>1, <3>2 DEF RouterInv
  <2>7. /\ read' \in UserConfig \X Config /\ read'[1] = read[1]
        /\ \E q \in since : q[2] = read'[2]
    BY <2>1, <2>3, <2>4 DEF RouterInv
  <2>8. ~caught => \E u \in since : u[1] = read'[1] BY <2>7 DEF RouterInv
  <2>9. \A x, q : Follows(x, q)' <=> Follows(x, q) BY <2>1 DEF Follows
  <2> QED BY <1>0, <2>1, <2>2, <2>5, <2>6, <2>7, <2>8, <2>9 DEF RouterInv
<1>2. ASSUME NEW p \in pending, Models!Merge(p), subject' = subject PROVE RouterInv'
  <2> DEFINE pair == read
             m == Models!Resolved(pair, p.request)
  <2>1. /\ pending' = pending \ {p} /\ merged' = {pair} /\ p.stage = "merge"
             /\ cache' = [cache EXCEPT ![p.request] = m]
        /\ \A a \in resolved' : a.request = p.request /\ a.model = m
        /\ UNCHANGED <<user, project, read, since, caught>>
    BY <1>2 DEF Models!Merge, Models!Answer, Models!files
  <2>2. subject = "router" /\ p.request \in Models!Request BY DEF RouterInv
  <2>3. pair \in UserConfig \X Config BY DEF RouterInv
  <2>4. ~caught => \E q \in since : q[2] = pair[2] BY <2>1 DEF RouterInv
  <2>5. ~caught => \E u \in since : u[1] = pair[1] BY DEF RouterInv
  <2>6. Follows(m, p.request) /\ m \in Models!ModelId \cup {Models!None, "openrouter/other"}
          BY <2>2, <2>3, <2>4, <2>5, Resolving
  <2>10. UNCHANGED <<Models!Read(user), Models!Read(project)>> BY <2>1 DEF Models!Read
  <2> HIDE DEF m, Models!Read
  <2>7. \A q \in Models!Request : cache'[q] = IF q = p.request THEN m ELSE cache[q] BY <2>1, <2>2
          DEF RouterInv
  <2>8. cache' \in [Models!Request -> Models!ModelId \cup {Models!None, "openrouter/other"}]
          BY <2>1, <2>6 DEF RouterInv
  <2>9. \A x, q : Follows(x, q)' <=> Follows(x, q) BY <2>1 DEF Follows
  <2> QED BY <1>2, <2>1, <2>2, <2>3, <2>4, <2>5, <2>6, <2>7, <2>8, <2>9, <2>10 DEF RouterInv
<1>3. ASSUME Models!Edit, subject = "router", subject' = subject, resolved' = {} PROVE RouterInv'
  <2>1. /\ since' = since \cup {<<Models!Read(user'), Models!Read(project')>>}
        /\ UNCHANGED <<cache, merged, pending, read, caught>>
    BY <1>3 DEF Models!Edit
  <2>2. user' \subseteq UserConfig /\ project' \subseteq Config BY <1>3, Edited DEF RouterInv
  <2>3. Models!Read(user') \in UserConfig /\ Models!Read(project') \in Config BY <2>2,
          ConfigRecords
  <2>4. \A x, q : Follows(x, q) => Follows(x, q)' BY <2>1 DEF Follows
  <2>5. Models!Read(user)' = Models!Read(user') /\ Models!Read(project)' = Models!Read(project')
          BY DEF Models!Read
  <2> HIDE DEF Models!Read, UserConfig, Config
  <2> QED BY <1>3, <2>1, <2>2, <2>3, <2>4, <2>5 DEF RouterInv
<1>4. ASSUME Models!InvalidateCache, subject' = subject, subject = "router", resolved' = {}
               PROVE RouterInv'
  <2>1. /\ cache' = [r \in Models!Request |-> Models!None] /\ merged' = {}
             /\ since' = {<<Models!Read(user), Models!Read(project)>>}
        /\ caught \/ pending # {} => caught'
        /\ UNCHANGED <<user, project, pending, read>>
    BY <1>4 DEF Models!InvalidateCache, Models!files
  <2>2. Models!Read(user) \in UserConfig /\ Models!Read(project) \in Config BY <1>4,
          ConfigRecords DEF RouterInv
  <2>3. Models!Read(user)' = Models!Read(user) /\ Models!Read(project)' = Models!Read(project)
          BY <2>1 DEF Models!Read
  <2> HIDE DEF Models!Read
  <2> QED BY <1>4, <2>1, <2>2, <2>3 DEF RouterInv
<1>5. ASSUME UNCHANGED <<Models!router, resolved>>, subject' = subject, subject # "router"
               \/ UNCHANGED Models!files PROVE RouterInv'
  <2>1. UNCHANGED <<cache, merged, pending, read, since, caught, resolved>>
    BY <1>5 DEF Models!router
  <2>2. subject = "router" =>
          UNCHANGED <<user, project, Models!Read(user), Models!Read(project)>> BY <1>5
          DEF Models!files, Models!Read
  <2>3. \A x, q : Follows(x, q)' <=> Follows(x, q) BY <2>1 DEF Follows
  <2> HIDE DEF Models!Read
  <2> QED BY <1>5, <2>1, <2>2, <2>3 DEF RouterInv
<1>6. CASE UNCHANGED modelVars BY <1>5, <1>6 DEF modelVars, Models!router, Models!files
<1>7. ASSUME NEW c \in Command, Models!SaveConfig(c)
               \/ \E j \in Models!Job : Models!LoadConfig(c, j) PROVE UNCHANGED Models!router
  BY <1>7 DEF Models!SaveConfig, Models!LoadConfig
<1>8. Models!Spoil => UNCHANGED Models!router BY DEF Models!Spoil
<1> QED BY <1>0, <1>1, <1>2, <1>3, <1>4, <1>5, <1>6, <1>7, <1>8 DEF Models!Next

\* models.ts, model-router.ts and settings.ts: while commands do not overlap and the file can
\* be read, no key that was stored is lost, whichever is set after it; what the router
\* resolves follows from the configs since its cache was invalidated, with no resolution
\* under way then, although it reads them one after the other; and what was saved last is
\* what a service finds, unless one saved a copy older than the file.
THEOREM SettingsAreKept == SystemSpec => []SettingsKept
<1>1. SystemInit => KeysInv /\ ServiceInv /\ RouterInv BY PartSteps, ModelsInit
<1>2. KeysInv /\ ServiceInv /\ RouterInv /\ [SystemNext]_allVars => KeysInv' /\ ServiceInv'
        /\ RouterInv'
  BY PartSteps, KeysStep, ServiceStep, RouterStep
<1>3. KeysInv /\ ServiceInv /\ RouterInv => SettingsKept
  BY DEF KeysInv, ServiceInv, RouterInv, Follows, SettingsKept, Models!ResolvedSince
<1> QED BY <1>1, <1>2, <1>3, PTL DEF SystemSpec

-----------------------------------------------------------------------------
(* The proxies: who listens, and what is answered.                         *)

ProxyStage == {"new", "binding", "bound", "up", "closing", "dead"}
Working == {"binding", "bound", "up", "closing"}
ClientStage == {"idle", "native", "probe", "wait", "run", "asked", "fallback", "done", "failed"}
ProxyConfig == [agents : Proxies!Mapping, fallback : BOOLEAN]

ProxyType ==
  /\ conf \in ProxyConfig
  /\ stage \in [Proxies!Proxy -> ProxyStage]
       /\ kind \in [Proxies!Proxy -> Model \cup {Proxies!Router, "none"}]
  /\ loaded \in [Proxies!Proxy -> SUBSET ProxyConfig] /\ port \subseteq Proxies!Proxy
  /\ client \in [Proxies!Client -> [stage : ClientStage,
       model : Model \cup {Proxies!Router, "claude", "none"}]]

\* One proxy has the port at a time, the one that listens; and without a race one is at work.
ListenInv ==
  /\ \A p \in Proxies!Proxy : stage[p] \in {"bound", "up"} <=> p \in port
  /\ \A p, q \in port : p = q
  /\ ~raced => \A p, q \in Proxies!Proxy : stage[p] \in Working /\ stage[q] \in Working => p = q
  /\ Proxies!ListenerIsNamed

LEMMA ProxyInit == Proxies!Init => ProxyType /\ ListenInv
<1> SUFFICES ASSUME Proxies!Init PROVE ProxyType /\ ListenInv OBVIOUS
<1>1. Proxies!Idle \in [stage : ClientStage,
        model : Model \cup {Proxies!Router, "claude", "none"}] BY DEF Proxies!Idle, ClientStage
<1>2. ProxyType BY <1>1 DEF Proxies!Init, ProxyType, ProxyConfig, ProxyStage
<1>3. ListenInv BY DEF Proxies!Init, ListenInv, Proxies!ListenerIsNamed, Working
<1> QED BY <1>2, <1>3

\* A proxy is started: it was new, and races with any that is at work.
LEMMA SpawnStep ==
  ASSUME ProxyType, ListenInv, NEW p \in Proxies!Proxy, NEW k \in Model \cup {Proxies!Router},
           NEW background \in BOOLEAN,
         Proxies!Spawn(p, k, background)
  PROVE  /\ stage' \in [Proxies!Proxy -> ProxyStage]
         /\ kind' \in [Proxies!Proxy -> Model \cup {Proxies!Router, "none"}]
         /\ ListenInv' /\ stage[p] = "new" /\ kinds' = kinds \cup {k}
         /\ UNCHANGED <<loaded, port>>
         /\ \A q \in Proxies!Proxy : stage'[q] = (IF q = p THEN "binding" ELSE stage[q])
                             /\ kind'[q] = (IF q = p THEN k ELSE kind[q])
<1>1. /\ stage[p] = "new" /\ stage' = [stage EXCEPT ![p] = "binding"]
           /\ kind' = [kind EXCEPT ![p] = k]
      /\ pidFile' = IF background THEN {p} ELSE pidFile
      /\ raced \/ (\E q \in Proxies!Proxy : stage[q] \in Working) => raced'
      /\ kinds' = kinds \cup {k} /\ UNCHANGED <<loaded, port>>
  BY DEF Proxies!Spawn, Proxies!Fresh, Working
<1>2. \A q \in Proxies!Proxy : /\ stage'[q] = IF q = p THEN "binding" ELSE stage[q]
                       /\ kind'[q] = IF q = p THEN k ELSE kind[q]
  BY <1>1 DEF ProxyType
<1>3. stage' \in [Proxies!Proxy -> ProxyStage]
        /\ kind' \in [Proxies!Proxy -> Model \cup {Proxies!Router, "none"}]
  BY <1>1 DEF ProxyType, ProxyStage
<1>4. ~raced' => \A q \in Proxies!Proxy : stage[q] \notin Working BY <1>1 DEF Working
<1>5. ~raced' => port = {} BY <1>4 DEF ListenInv, Working, ProxyType
<1>6. ListenInv' BY <1>1, <1>2, <1>4, <1>5 DEF ListenInv, Proxies!ListenerIsNamed, Working
<1> QED BY <1>1, <1>2, <1>3, <1>6

\* What the proxies themselves do: no kind changes.
LEMMA ProxyMoves ==
  ASSUME ProxyType, ListenInv, NEW p \in Proxies!Proxy, Proxies!Bind(p) \/ Proxies!Name(p)
           \/ Proxies!Shutdown(p) \/ Proxies!Cleanup(p) \/ Proxies!Crash(p)
  PROVE  /\ ProxyType' /\ ListenInv' /\ stage[p] # "new"
         /\ UNCHANGED <<conf, changed, kind, kinds, client>> /\ asked' \subseteq asked
         /\ \A q \in Proxies!Proxy : q # p => stage'[q] = stage[q]
         /\ stage'[p] # "new"
         /\ \A q \in Proxies!Proxy : loaded'[q] \in {loaded[q], {}, {conf}}
<1>1. CASE Proxies!Bind(p)
  <2>1. /\ stage[p] = "binding"
        /\ UNCHANGED <<conf, changed, kind, kinds, pidFile, raced, client, asked>>
        /\ \/ port # {} /\ stage' = [stage EXCEPT ![p] = "dead"]
                /\ UNCHANGED <<loaded, port>>
           \/ /\ port = {} /\ stage' = [stage EXCEPT ![p] = "bound"] /\ port' = {p}
              /\ loaded' = [loaded EXCEPT ![p] = IF kind[p] = Proxies!Router THEN {conf} ELSE {}]
    BY <1>1 DEF Proxies!Bind, Proxies!Listen
  <2>2. ProxyType' BY <2>1 DEF ProxyType, ProxyStage
  <2>3. /\ \A q \in Proxies!Proxy : q # p => stage'[q] = stage[q]
        /\ stage'[p] = IF port # {} THEN "dead" ELSE "bound"
    BY <2>1 DEF ProxyType
  <2>4. ListenInv' BY <2>1, <2>3 DEF ListenInv, Proxies!ListenerIsNamed, Working, ProxyType
  <2>5. \A q \in Proxies!Proxy : loaded'[q] \in {loaded[q], {}, {conf}} BY <2>1 DEF ProxyType
  <2> QED BY <2>1, <2>2, <2>3, <2>4, <2>5
<1>2. CASE Proxies!Shutdown(p)
  <2>1. /\ stage[p] = "up" /\ stage' = [stage EXCEPT ![p] = "closing"] /\ port' = {}
             /\ asked' \subseteq asked
        /\ UNCHANGED <<conf, changed, kind, kinds, loaded, pidFile, raced, client>>
    BY <1>2 DEF Proxies!Shutdown
  <2>2. ProxyType' BY <2>1 DEF ProxyType, ProxyStage
  <2>3. \A q \in Proxies!Proxy : stage'[q] = IF q = p THEN "closing" ELSE stage[q] BY <2>1
          DEF ProxyType
  <2>4. ListenInv' BY <2>1, <2>3 DEF ListenInv, Proxies!ListenerIsNamed, Working, ProxyType
  <2> QED BY <2>1, <2>2, <2>3, <2>4
<1>3. CASE Proxies!Cleanup(p)
  <2>1. /\ stage[p] = "closing" /\ stage' = [stage EXCEPT ![p] = "dead"] /\ port' = port \ {p}
             /\ pidFile' = {}
        /\ UNCHANGED <<conf, changed, kind, kinds, loaded, raced, client, asked>>
    BY <1>3 DEF Proxies!Cleanup
  <2>2. ProxyType' BY <2>1 DEF ProxyType, ProxyStage
  <2>3. \A q \in Proxies!Proxy : stage'[q] = IF q = p THEN "dead" ELSE stage[q] BY <2>1
          DEF ProxyType
  <2>4. ~raced => port = {} BY <2>1 DEF ListenInv, Working, ProxyType
  <2>5. ListenInv' BY <2>1, <2>3, <2>4 DEF ListenInv, Proxies!ListenerIsNamed, Working, ProxyType
  <2> QED BY <2>1, <2>2, <2>3, <2>5
<1>4. CASE Proxies!Crash(p)
  <2>1. /\ stage[p] \in {"binding", "bound", "up", "closing"}
        /\ stage' = [stage EXCEPT ![p] = "dead"]
        /\ port' = port \ {p} /\ asked' \subseteq asked
        /\ UNCHANGED <<conf, changed, kind, kinds, loaded, pidFile, raced, client>>
    BY <1>4 DEF Proxies!Crash
  <2>2. ProxyType' BY <2>1 DEF ProxyType, ProxyStage
  <2>3. \A q \in Proxies!Proxy : stage'[q] = IF q = p THEN "dead" ELSE stage[q] BY <2>1
          DEF ProxyType
  <2>4. ListenInv' BY <2>1, <2>3 DEF ListenInv, Proxies!ListenerIsNamed, Working, ProxyType
  <2> QED BY <2>1, <2>2, <2>3, <2>4
<1>5. CASE Proxies!Name(p)
  <2>1. /\ stage[p] = "bound" /\ stage' = [stage EXCEPT ![p] = "up"] /\ pidFile' = {p}
        /\ UNCHANGED <<conf, changed, kind, kinds, loaded, port, raced, client, asked>>
    BY <1>5 DEF Proxies!Name
  <2>2. ProxyType' BY <2>1 DEF ProxyType, ProxyStage
  <2>3. \A q \in Proxies!Proxy : stage'[q] = IF q = p THEN "up" ELSE stage[q] BY <2>1
          DEF ProxyType
  <2>4. ListenInv' BY <2>1, <2>3 DEF ListenInv, Proxies!ListenerIsNamed, Working, ProxyType
  <2> QED BY <2>1, <2>2, <2>3, <2>4
<1> QED BY <1>1, <1>2, <1>3, <1>4, <1>5

\* Every kind at work was asked for; who waits for a proxy or works with it asked for its
\* kind; a request is of a client that waits for it; and a router has the mapping.
Needs(c) == client[c].stage \in {"probe", "wait", "run", "asked"}
AnswerInv ==
  /\ kinds \subseteq Model \cup {Proxies!Router} /\ IsFiniteSet(kinds)
  /\ \A p \in Proxies!Proxy : stage[p] # "new" => kind[p] \in kinds
  /\ ~changed => \A p \in Proxies!Proxy : loaded[p] \subseteq {conf}
  /\ \A c \in Proxies!Client : Needs(c) => client[c].model \in kinds
       /\ (client[c].model = Proxies!Router <=> c = Proxies!Session)
  /\ \A r \in asked : /\ r.at \in Proxies!Proxy /\ stage[r.at] # "new"
                      /\ r.client \in Proxies!Client
                      /\ r.client = Proxies!Session => client[Proxies!Session].stage = "run"
                      /\ r.client # Proxies!Session => client[r.client].stage = "asked"
                           /\ r.who = "main" /\ ~r.key
  /\ \A r, q \in asked : r.client = q.client => r = q
  /\ Proxies!AnsweredAsMapped

LEMMA AnswerInit == ASSUME Proxies!Init PROVE AnswerInv
<1>1. IsFiniteSet({}) BY FS_EmptySet
<1>2. \A c \in Proxies!Client : client[c].stage = "idle" BY DEF Proxies!Init, Proxies!Idle
<1> QED BY <1>1, <1>2 DEF Proxies!Init, AnswerInv, Needs, Proxies!AnsweredAsMapped

\* A client c goes on from one stage to another, with a kind that was asked for where it
\* needs one, and no request under way.
LEMMA ClientMoves ==
  ASSUME ProxyType, AnswerInv, NEW c \in Proxies!Client, NEW s \in ClientStage,
           NEW m \in Model \cup {Proxies!Router, "claude", "none"},
         client' = [client EXCEPT ![c] = [stage |-> s, model |-> m]],
         s \in {"probe", "wait", "run", "asked"} => m \in kinds'
           /\ (m = Proxies!Router <=> c = Proxies!Session),
         \A r \in asked : r.client # c,
         kinds' \subseteq Model \cup {Proxies!Router}, IsFiniteSet(kinds'),
           kinds \subseteq kinds',
         UNCHANGED <<conf, changed, loaded, asked>>, answer' = {},
         \A p \in Proxies!Proxy : stage'[p] # "new" => kind'[p] \in kinds',
         \A p \in Proxies!Proxy : stage[p] # "new" => stage'[p] # "new"
  PROVE  AnswerInv'
<1>1. \A d \in Proxies!Client : client'[d] = IF d = c THEN [stage |-> s,
        model |-> m] ELSE client[d]
  BY DEF ProxyType
<1>2. \A d \in Proxies!Client : Needs(d)' => client'[d].model \in kinds'
        /\ (client'[d].model = Proxies!Router <=> d = Proxies!Session)
  BY <1>1 DEF Needs, AnswerInv
<1>3. \A r \in asked' : /\ r.at \in Proxies!Proxy /\ stage'[r.at] # "new"
                        /\ r.client \in Proxies!Client
                        /\ r.client = Proxies!Session => client'[Proxies!Session].stage = "run"
                        /\ r.client # Proxies!Session => client'[r.client].stage = "asked"
                             /\ r.who = "main" /\ ~r.key
  BY <1>1 DEF AnswerInv
<1> QED BY <1>2, <1>3 DEF AnswerInv, Proxies!AnsweredAsMapped

LEMMA Entering ==
  ASSUME ProxyType, NEW c \in Proxies!Client, NEW s, client' = Proxies!Enter(c, s)
  PROVE  client' = [client EXCEPT ![c] = [stage |-> s, model |-> client[c].model]]
<1>1. client[c] \in [stage : ClientStage, model : Model \cup {Proxies!Router, "claude", "none"}]
        BY DEF ProxyType
<1>2. [client[c] EXCEPT !.stage = s] = [stage |-> s, model |-> client[c].model] BY <1>1
<1>3. Proxies!Enter(c, s) = [client EXCEPT ![c] = [client[c] EXCEPT !.stage = s]] BY
        DEF Proxies!Enter
<1> QED BY <1>2, <1>3

LEMMA OneKind == ASSUME NEW S, IsFiniteSet(S), Proxies!Cardinality(S) <= 1, NEW x \in S,
  NEW y \in S PROVE x = y
<1>1. Proxies!Cardinality(S) = Cardinality(S) BY DEF Proxies!Cardinality, Cardinality
<1>2. IsFiniteSet(S \ {x}) /\ Cardinality(S \ {x}) = Cardinality(S) - 1 BY FS_RemoveElement
<1>3. Cardinality(S) \in Nat /\ Cardinality(S \ {x}) \in Nat BY <1>2, FS_CardinalityType
<1>4. Cardinality(S \ {x}) = 0 BY <1>1, <1>2, <1>3
<1>5. S \ {x} = {} BY <1>2, <1>4, FS_EmptySet
<1> QED BY <1>5

\* An answer comes as its request has been routed.
LEMMA AnswerStep ==
  ASSUME ProxyType, AnswerInv, NEW r \in asked, NEW got, Proxies!Answer(r, got)
  PROVE  ProxyType' /\ AnswerInv'
<1> USE ProxyAssumption
<1>1. /\ got \in Proxies!Answers(r.at, r) /\ asked' = asked \ {r}
      /\ client' = IF r.client = Proxies!Session THEN client ELSE Proxies!Enter(r.client,
           IF got = "error" THEN "fallback" ELSE "done")
      /\ answer' = {[want |-> Proxies!Wanted(r), got |-> got]}
      /\ UNCHANGED <<conf, changed, stage, kind, loaded, port, pidFile, raced, kinds>>
  BY DEF Proxies!Answer, Proxies!proxies
<1>2. /\ r.at \in Proxies!Proxy /\ stage[r.at] # "new" /\ r.client \in Proxies!Client
      /\ r.client = Proxies!Session => client[Proxies!Session].stage = "run"
      /\ r.client # Proxies!Session => client[r.client].stage = "asked" /\ r.who = "main"
           /\ ~r.key
  BY DEF AnswerInv
<1>3. \A d \in Proxies!Client : d # r.client => client'[d] = client[d]
  BY <1>1, <1>2 DEF Proxies!Enter, ProxyType
<1>4. /\ client' \in [Proxies!Client -> [stage : ClientStage,
           model : Model \cup {Proxies!Router, "claude", "none"}]]
      /\ r.client = Proxies!Session => client' = client
      /\ r.client # Proxies!Session => client'[r.client].stage \in {"fallback", "done"}
  BY <1>1, <1>2 DEF Proxies!Enter, ProxyType, ClientStage
<1>5. ProxyType' BY <1>1, <1>4 DEF ProxyType
<1>6. \A d \in Proxies!Client : Needs(d)' => Needs(d) /\ client'[d] = client[d]
  BY <1>3, <1>4 DEF Needs
<1>7. \A q \in asked' : q \in asked /\ q.client # r.client BY <1>1 DEF AnswerInv
<1>8. Proxies!AnsweredAsMapped'
  <2> SUFFICES ASSUME ~changed, Proxies!Cardinality(kinds) <= 1
                        PROVE got \in {Proxies!Wanted(r), "claude", "error"}
    BY <1>1 DEF Proxies!AnsweredAsMapped
  <2>1. \A x, y \in kinds : x = y BY OneKind DEF AnswerInv
  <2>2. kind[r.at] \in kinds /\ client[r.client].model \in kinds
        /\ (client[r.client].model = Proxies!Router <=> r.client = Proxies!Session)
    BY <1>2 DEF AnswerInv, Needs
  <2>3. kind[r.at] = client[r.client].model BY <2>1, <2>2
  <2>4. CASE r.client # Proxies!Session
    <3>1. got \in {kind[r.at], "error"} BY <1>1, <2>2, <2>3, <2>4 DEF Proxies!Answers,
            Proxies!ModelMessages
    <3>2. Proxies!Wanted(r) = client[r.client].model BY <2>4 DEF Proxies!Wanted
    <3> QED BY <2>3, <3>1, <3>2
  <2>5. CASE r.client = Proxies!Session
    <3>1. \E c \in loaded[r.at] : got \in Proxies!RouteMessages(c, r)
      BY <1>1, <2>2, <2>3, <2>5 DEF Proxies!Answers, Proxies!RouterMessages
    <3>2. got \in Proxies!RouteMessages(conf, r) BY <1>2, <3>1 DEF AnswerInv
    <3>3. Proxies!Wanted(r) = Proxies!Route(conf, r.who) BY <2>5 DEF Proxies!Wanted, Proxies!Route
    <3>4. got \in {Proxies!Route(conf, r.who), "claude", "error"} BY <3>2
            DEF Proxies!RouteMessages
    <3> QED BY <3>3, <3>4
  <2> QED BY <2>4, <2>5
<1>9. \A q \in asked' : /\ q.client = Proxies!Session => client'[Proxies!Session].stage = "run"
                        /\ q.client # Proxies!Session => client'[q.client].stage = "asked"
                             /\ q.who = "main" /\ ~q.key
  BY <1>3, <1>7 DEF AnswerInv
<1>10. AnswerInv'
  BY <1>1, <1>6, <1>7, <1>8, <1>9 DEF AnswerInv
<1> QED BY <1>5, <1>10

LEMMA ProxiesStep == ProxyType /\ ListenInv /\ AnswerInv /\ [Proxies!Next]_proxyVars =>
  ProxyType' /\ ListenInv' /\ AnswerInv'
<1> SUFFICES ASSUME ProxyType, ListenInv, AnswerInv, [Proxies!Next]_proxyVars PROVE ProxyType'
                      /\ ListenInv' /\ AnswerInv'
  OBVIOUS
<1> USE ProxyAssumption
<1>1. ASSUME NEW r \in asked, NEW got, Proxies!Answer(r, got) PROVE ProxyType' /\ ListenInv'
               /\ AnswerInv'
  <2>1. UNCHANGED <<stage, port, pidFile, raced>> BY <1>1 DEF Proxies!Answer, Proxies!proxies
  <2> QED BY <1>1, <2>1, AnswerStep DEF ListenInv, Proxies!ListenerIsNamed
<1>2. ASSUME NEW p \in Proxies!Proxy, Proxies!Bind(p) \/ Proxies!Name(p)
               \/ Proxies!Shutdown(p) \/ Proxies!Cleanup(p) \/ Proxies!Crash(p), answer' = {}
      PROVE  ProxyType' /\ ListenInv' /\ AnswerInv'
  <2>1. /\ ProxyType' /\ ListenInv' /\ stage[p] # "new"
        /\ UNCHANGED <<conf, changed, kind, kinds, client>> /\ asked' \subseteq asked
        /\ \A q \in Proxies!Proxy : q # p => stage'[q] = stage[q]
        /\ stage'[p] # "new"
        /\ \A q \in Proxies!Proxy : loaded'[q] \in {loaded[q], {}, {conf}}
    BY <1>2, ProxyMoves
  <2>2. \A c : Needs(c)' <=> Needs(c) BY <2>1 DEF Needs
  <2>3. Proxies!AnsweredAsMapped' BY <1>2 DEF Proxies!AnsweredAsMapped
  <2>4. \A r \in asked' : /\ r.at \in Proxies!Proxy /\ stage'[r.at] # "new"
                          /\ r.client \in Proxies!Client
                          /\ r.client = Proxies!Session => client'[Proxies!Session].stage = "run"
                          /\ r.client # Proxies!Session => client'[r.client].stage = "asked"
                               /\ r.who = "main" /\ ~r.key
    BY <2>1 DEF AnswerInv
  <2>5. ~changed' => \A q \in Proxies!Proxy : loaded'[q] \subseteq {conf'} BY <2>1 DEF AnswerInv
  <2>6. AnswerInv' BY <2>1, <2>2, <2>3, <2>4, <2>5 DEF AnswerInv
  <2> QED BY <2>1, <2>6
<1>3. ASSUME NEW p \in Proxies!Proxy, Proxies!Main(p), answer' = {} PROVE ProxyType'
               /\ ListenInv' /\ AnswerInv'
  <2>1. PICK k \in Model \cup {Proxies!Router},
          background \in BOOLEAN : Proxies!Spawn(p, k, background) BY <1>3 DEF Proxies!Main
  <2>2. UNCHANGED <<conf, changed, client, asked>> BY <1>3 DEF Proxies!Main
  <2>3. /\ stage' \in [Proxies!Proxy -> ProxyStage]
             /\ kind' \in [Proxies!Proxy -> Model \cup {Proxies!Router, "none"}]
        /\ ListenInv' /\ stage[p] = "new" /\ kinds' = kinds \cup {k} /\ UNCHANGED <<loaded, port>>
        /\ \A q \in Proxies!Proxy : stage'[q] = (IF q = p THEN "binding" ELSE stage[q])
                            /\ kind'[q] = (IF q = p THEN k ELSE kind[q])
    BY <2>1, SpawnStep
  <2>4. ProxyType' BY <2>2, <2>3 DEF ProxyType
  <2>5. \A c : Needs(c)' <=> Needs(c) BY <2>2 DEF Needs
  <2>6. IsFiniteSet(kinds') BY <2>3, FS_AddElement DEF AnswerInv
  <2>7. \A q \in Proxies!Proxy : stage'[q] # "new" => kind'[q] \in kinds' BY <2>3 DEF AnswerInv
  <2>8. AnswerInv' BY <1>3, <2>2, <2>3, <2>5, <2>6, <2>7 DEF AnswerInv, Proxies!AnsweredAsMapped
  <2> QED BY <2>3, <2>4, <2>8
<1>4. ASSUME NEW c \in Proxies!Client, Proxies!Probe(c), port = {}, answer' = {} PROVE ProxyType'
               /\ ListenInv' /\ AnswerInv'
  <2> DEFINE k == client[c].model
  <2>1. /\ client[c].stage = "probe" /\ client' = Proxies!Enter(c, "wait")
             /\ UNCHANGED <<conf, changed, asked>>
        /\ \E p \in Proxies!Proxy : Proxies!Spawn(p, k, c = Proxies!Session)
    BY <1>4 DEF Proxies!Probe
  <2>2. k \in kinds /\ k \in Model \cup {Proxies!Router}
          /\ (k = Proxies!Router <=> c = Proxies!Session) BY <2>1 DEF AnswerInv, Needs
  <2> HIDE DEF k
  <2>3. PICK p \in Proxies!Proxy : Proxies!Spawn(p, k, c = Proxies!Session) BY <2>1
  <2>4. (c = Proxies!Session) \in BOOLEAN BY Zenon
  <2>5. /\ stage' \in [Proxies!Proxy -> ProxyStage]
             /\ kind' \in [Proxies!Proxy -> Model \cup {Proxies!Router, "none"}]
        /\ ListenInv' /\ stage[p] = "new" /\ kinds' = kinds \cup {k} /\ UNCHANGED <<loaded, port>>
        /\ \A q \in Proxies!Proxy : stage'[q] = (IF q = p THEN "binding" ELSE stage[q])
                            /\ kind'[q] = (IF q = p THEN k ELSE kind[q])
    BY <2>2, <2>3, <2>4, SpawnStep
  <2>6. client' = [client EXCEPT ![c] = [stage |-> "wait", model |-> k]] BY <2>1, Entering DEF k
  <2>7. "wait" \in ClientStage BY DEF ClientStage
  <2>8. ProxyType' BY <2>1, <2>2, <2>5, <2>6, <2>7 DEF ProxyType
  <2>9. kinds' = kinds BY <2>2, <2>5
  <2>10. \A r \in asked : r.client # c BY <2>1 DEF AnswerInv
  <2>11. \A q \in Proxies!Proxy : stage'[q] # "new" => kind'[q] \in kinds' BY <2>2, <2>5
           DEF AnswerInv
  <2>12. kinds' \subseteq Model \cup {Proxies!Router} /\ IsFiniteSet(kinds') BY <2>9 DEF AnswerInv
  <2>13. \A q \in Proxies!Proxy : stage[q] # "new" => stage'[q] # "new" BY <2>5
  <2>14. k \in Model \cup {Proxies!Router, "claude", "none"} BY <2>2
  <2>15. AnswerInv'
    BY <1>4, <2>1, <2>2, <2>5, <2>6, <2>7, <2>9, <2>10, <2>11, <2>12, <2>13, <2>14, ClientMoves
  <2> QED BY <2>5, <2>8, <2>15
<1>5. ASSUME NEW c \in Proxies!Client, NEW s \in ClientStage,
               NEW k \in Model \cup {Proxies!Router, "claude", "none"},
             client' = [client EXCEPT ![c] = [stage |-> s, model |-> k]],
             s \in {"probe", "wait", "run", "asked"} => k \in kinds'
               /\ (k = Proxies!Router <=> c = Proxies!Session),
             \A r \in asked : r.client # c,
             kinds \subseteq kinds', kinds' \subseteq Model \cup {Proxies!Router},
               IsFiniteSet(kinds'),
             UNCHANGED <<conf, changed, stage, kind, loaded, port, pidFile, raced, asked>>,
               answer' = {}
      PROVE  ProxyType' /\ ListenInv' /\ AnswerInv'
  <2>1. ListenInv' BY <1>5 DEF ListenInv, Proxies!ListenerIsNamed
  <2>2. ProxyType' BY <1>5 DEF ProxyType
  <2>3. \A p \in Proxies!Proxy : stage[p] # "new" => stage'[p] # "new" BY <1>5
  <2>4. \A p \in Proxies!Proxy : stage'[p] # "new" => kind'[p] \in kinds' BY <1>5 DEF AnswerInv
  <2>5. AnswerInv' BY <1>5, <2>3, <2>4, ClientMoves
  <2> QED BY <2>1, <2>2, <2>5
<1>6. ASSUME NEW c \in Proxies!Client, NEW s \in ClientStage, client' = Proxies!Enter(c, s),
             s \in {"probe", "wait", "run", "asked"} => Needs(c),
             \A r \in asked : r.client # c,
             UNCHANGED <<conf, changed, Proxies!proxies, kinds, asked>>, answer' = {}
      PROVE  ProxyType' /\ ListenInv' /\ AnswerInv'
  <2> DEFINE k == client[c].model
  <2>1. client' = [client EXCEPT ![c] = [stage |-> s, model |-> k]] BY <1>6, Entering
  <2>2. k \in Model \cup {Proxies!Router, "claude", "none"} BY DEF ProxyType
  <2>3. s \in {"probe", "wait", "run", "asked"} => k \in kinds'
          /\ (k = Proxies!Router <=> c = Proxies!Session)
    BY <1>6 DEF AnswerInv
  <2> HIDE DEF k
  <2>4. UNCHANGED <<conf, changed, stage, kind, loaded, port, pidFile, raced, asked>>
          /\ kinds' = kinds
    BY <1>6 DEF Proxies!proxies
  <2>5. kinds \subseteq kinds' /\ kinds' \subseteq Model \cup {Proxies!Router}
          /\ IsFiniteSet(kinds')
    BY <2>4 DEF AnswerInv
  <2> QED BY <1>5, <1>6, <2>1, <2>2, <2>3, <2>4, <2>5
<1>7. ASSUME NEW c \in Proxies!Client, Proxies!Poll(c) \/ Proxies!GiveUp(c) \/ Proxies!Lost(c)
               \/ (Proxies!Probe(c) /\ port # {}), answer' = {}
      PROVE  ProxyType' /\ ListenInv' /\ AnswerInv'
  <2>1. \A r \in asked : r.client # c
    BY <1>7 DEF Proxies!Poll, Proxies!GiveUp, Proxies!Lost, Proxies!Probe, AnswerInv
  <2>2. UNCHANGED <<conf, changed, Proxies!proxies, kinds, asked>> BY <1>7 DEF Proxies!Poll,
          Proxies!GiveUp, Proxies!Lost, Proxies!Probe
  <2>3. \E s \in {"run", "fallback", "failed"} : client' = Proxies!Enter(c, s)
          /\ (s = "run" => Needs(c))
    BY <1>7 DEF Proxies!Poll, Proxies!GiveUp, Proxies!Lost, Proxies!Probe, Needs
  <2>4. PICK s \in {"run", "fallback", "failed"} : client' = Proxies!Enter(c, s)
          /\ (s = "run" => Needs(c)) BY <2>3
  <2>5. s \in ClientStage BY DEF ClientStage
  <2> QED BY <1>6, <1>7, <2>1, <2>2, <2>4, <2>5
<1>8. ASSUME NEW c \in Proxies!Client, Proxies!Again(c), answer' = {} PROVE ProxyType'
               /\ ListenInv' /\ AnswerInv'
  <2>1. /\ \A r \in asked : r.client # c
        /\ client' = [client EXCEPT ![c] = [stage |-> "idle", model |-> "none"]]
        /\ UNCHANGED <<conf, changed, stage, kind, loaded, port, pidFile, raced, asked>>
             /\ kinds' = kinds
    BY <1>8 DEF Proxies!Again, Proxies!Idle, Proxies!proxies
  <2>2. "idle" \in ClientStage BY DEF ClientStage
  <2>3. kinds \subseteq kinds' /\ kinds' \subseteq Model \cup {Proxies!Router}
          /\ IsFiniteSet(kinds')
    BY <2>1 DEF AnswerInv
  <2>4. "none" \in Model \cup {Proxies!Router, "claude", "none"} OBVIOUS
  <2> QED BY <1>5, <1>8, <2>1, <2>2, <2>3, <2>4
<1>9. ASSUME NEW c \in Proxies!Client, NEW k \in Model \cup {Proxies!Router, "claude", "none"},
               answer' = {},
             \/ Proxies!Begin(c, TRUE, k) /\ k \in Model \cup {Proxies!Router}
                  /\ (k = Proxies!Router <=> c = Proxies!Session)
             \/ Proxies!Begin(c, FALSE, k)
      PROVE  ProxyType' /\ ListenInv' /\ AnswerInv'
  <2>1. /\ client[c].stage = "idle"
        /\ UNCHANGED <<conf, changed, stage, kind, loaded, port, pidFile, raced, asked>>
        /\ \/ /\ client' = [client EXCEPT ![c] = [stage |-> "probe", model |-> k]]
              /\ kinds' = kinds \cup {k} /\ k \in Model \cup {Proxies!Router}
                   /\ (k = Proxies!Router <=> c = Proxies!Session)
           \/ client' = [client EXCEPT ![c] = [stage |-> "native", model |-> k]] /\ kinds' = kinds
    BY <1>9 DEF Proxies!Begin, Proxies!proxies
  <2>2. \A r \in asked : r.client # c BY <2>1 DEF AnswerInv
  <2>3. "probe" \in ClientStage /\ "native" \in ClientStage BY DEF ClientStage
  <2>4. IsFiniteSet(kinds \cup {k}) BY FS_AddElement DEF AnswerInv
  <2>5. kinds \subseteq kinds' /\ kinds' \subseteq Model \cup {Proxies!Router}
          /\ IsFiniteSet(kinds')
    BY <2>1, <2>4 DEF AnswerInv
  <2>6. CASE client' = [client EXCEPT ![c] = [stage |-> "probe", model |-> k]]
             /\ k \in kinds' /\ (k = Proxies!Router <=> c = Proxies!Session)
    BY <1>5, <1>9, <2>1, <2>2, <2>3, <2>5, <2>6
  <2>7. CASE client' = [client EXCEPT ![c] = [stage |-> "native", model |-> k]]
    BY <1>5, <1>9, <2>1, <2>2, <2>3, <2>5, <2>7
  <2> QED BY <2>1, <2>6, <2>7
<1>10. ASSUME Proxies!BeginSession, answer' = {} PROVE ProxyType' /\ ListenInv' /\ AnswerInv'
  <2>1. Proxies!Begin(Proxies!Session, TRUE, Proxies!Router)
          \/ Proxies!Begin(Proxies!Session, FALSE, Proxies!Router) BY <1>10
             DEF Proxies!BeginSession, Proxies!Begin
  <2> QED BY <1>9, <1>10, <2>1 DEF Proxies!Client
<1>11. ASSUME NEW a \in Agent, Proxies!BeginAgent(a), answer' = {} PROVE ProxyType' /\ ListenInv'
                /\ AnswerInv'
  <2> DEFINE k == conf.agents[a]
  <2>1. k \in Model \cup {"claude", "none"} BY DEF ProxyType, ProxyConfig, Proxies!Mapping
  <2>2. (Proxies!Begin(a, TRUE, k) /\ k \in Model) \/ Proxies!Begin(a, FALSE, k) BY <1>11
          DEF Proxies!BeginAgent, Proxies!Begin
  <2>3. a \in Proxies!Client /\ a # Proxies!Session BY DEF Proxies!Client
  <2> HIDE DEF k
  <2> QED BY <1>9, <1>11, <2>1, <2>2, <2>3
<1>12. ASSUME NEW a \in Agent, NEW k \in Model \cup {"claude"}, Proxies!SetModel(a, k),
                answer' = {}
       PROVE  ProxyType' /\ ListenInv' /\ AnswerInv'
  <2>1. /\ conf' = [conf EXCEPT !.agents[a] = k] /\ changed'
        /\ UNCHANGED <<stage, kind, loaded, port, pidFile, raced, kinds, client, asked>>
    BY <1>12 DEF Proxies!SetModel, Proxies!proxies
  <2>2. conf' \in ProxyConfig BY <2>1 DEF ProxyType, ProxyConfig, Proxies!Mapping
  <2>3. ProxyType' BY <2>1, <2>2 DEF ProxyType
  <2>4. ListenInv' BY <2>1 DEF ListenInv, Proxies!ListenerIsNamed
  <2>5. \A c : Needs(c)' <=> Needs(c) BY <2>1 DEF Needs
  <2>6. Proxies!AnsweredAsMapped' BY <2>1 DEF Proxies!AnsweredAsMapped
  <2>7. AnswerInv' BY <2>1, <2>5, <2>6 DEF AnswerInv
  <2> QED BY <2>3, <2>4, <2>7
<1>13. ASSUME NEW c \in Proxies!Client, NEW who \in Agent \cup {"main"}, c = Proxies!Session
                \/ who = c, Proxies!Ask(c, who), answer' = {}
       PROVE  ProxyType' /\ ListenInv' /\ AnswerInv'
  <2>1. /\ client[c].stage = "run" /\ \A r \in asked : r.client # c
        /\ UNCHANGED <<conf, changed, Proxies!proxies, kinds>>
    BY <1>13 DEF Proxies!Ask
  <2>2. UNCHANGED <<conf, changed, stage, kind, loaded, port, pidFile, raced, kinds>> BY <2>1
          DEF Proxies!proxies
  <2>3. Needs(c) BY <2>1 DEF Needs
  <2>4. "fallback" \in ClientStage /\ "asked" \in ClientStage BY DEF ClientStage
  <2>5. CASE port = {} /\ c # Proxies!Session
    <3>1. client' = Proxies!Enter(c, "fallback") /\ asked' = asked BY <1>13, <2>5 DEF Proxies!Ask
    <3> QED BY <1>6, <1>13, <2>1, <2>4, <3>1
  <2>6. CASE port = {} /\ c = Proxies!Session
    <3>1. UNCHANGED <<client, asked>> BY <1>13, <2>6 DEF Proxies!Ask
    <3>2. ProxyType' BY <2>2, <3>1 DEF ProxyType
    <3>3. ListenInv' BY <2>2 DEF ListenInv, Proxies!ListenerIsNamed
    <3>4. \A d : Needs(d)' <=> Needs(d) BY <3>1 DEF Needs
    <3>5. AnswerInv' BY <1>13, <2>2, <3>1, <3>4 DEF AnswerInv, Proxies!AnsweredAsMapped
    <3> QED BY <3>2, <3>3, <3>5
  <2>7. CASE port # {}
    <3> DEFINE server == CHOOSE p \in port : TRUE
    <3>1. server \in port BY <2>7
    <3>2. server \in Proxies!Proxy /\ stage[server] \in {"bound", "up"}
      BY <3>1 DEF ListenInv, ProxyType
    <3> HIDE DEF server
    <3> DEFINE newcomer ==
          [client |-> c, who |-> IF c = Proxies!Session THEN who ELSE "main",
          key |-> c = Proxies!Session, at |-> server]
    <3>3. asked' = asked \cup {newcomer}
            /\ client' = IF c = Proxies!Session THEN client ELSE Proxies!Enter(c, "asked")
      BY <1>13, <2>7 DEF Proxies!Ask, server
    <3>4. newcomer.client = c /\ newcomer.at = server
            /\ (c # Proxies!Session => newcomer.who = "main" /\ ~newcomer.key) OBVIOUS
    <3> HIDE DEF newcomer
    <3>5. client' \in [Proxies!Client -> [stage : ClientStage,
            model : Model \cup {Proxies!Router, "claude", "none"}]]
      BY <2>4, <3>3 DEF ProxyType, Proxies!Enter
    <3>6. \A d \in Proxies!Client : /\ d # c => client'[d] = client[d]
                            /\ client'[d].model = client[d].model
                            /\ client'[c].stage = IF c = Proxies!Session THEN "run" ELSE "asked"
      BY <2>1, <3>3 DEF ProxyType, Proxies!Enter
    <3>7. ProxyType' BY <2>2, <3>5 DEF ProxyType
    <3>8. ListenInv' BY <2>2 DEF ListenInv, Proxies!ListenerIsNamed
    <3>9. \A d \in Proxies!Client : Needs(d)' => Needs(d) BY <2>3, <3>6 DEF Needs
    <3>10. \A d \in Proxies!Client : Needs(d)' => client'[d].model \in kinds'
             /\ (client'[d].model = Proxies!Router <=> d = Proxies!Session)
      BY <2>2, <3>6, <3>9 DEF AnswerInv
    <3>11. \A r \in asked' : /\ r.at \in Proxies!Proxy /\ stage'[r.at] # "new"
                             /\ r.client \in Proxies!Client
                             /\ r.client = Proxies!Session =>
                                  client'[Proxies!Session].stage = "run"
                             /\ r.client # Proxies!Session => client'[r.client].stage = "asked"
                                  /\ r.who = "main" /\ ~r.key
      <4>1. /\ newcomer.at \in Proxies!Proxy /\ stage'[newcomer.at] # "new"
                 /\ newcomer.client \in Proxies!Client
            /\ newcomer.client = Proxies!Session => client'[Proxies!Session].stage = "run"
            /\ newcomer.client # Proxies!Session => client'[newcomer.client].stage = "asked"
                 /\ newcomer.who = "main" /\ ~newcomer.key
        BY <2>2, <3>2, <3>4, <3>6
      <4> SUFFICES ASSUME NEW r \in asked' 
                   PROVE /\ r.at \in Proxies!Proxy /\ stage'[r.at] # "new"
                         /\ r.client \in Proxies!Client
                         /\ r.client = Proxies!Session => client'[Proxies!Session].stage = "run"
                         /\ r.client # Proxies!Session => client'[r.client].stage = "asked"
                              /\ r.who = "main" /\ ~r.key
        OBVIOUS
      <4>2. CASE r \in asked
        BY <2>1, <2>2, <3>6, <4>2 DEF AnswerInv
      <4>3. CASE r = newcomer BY <4>1, <4>3
      <4> QED BY <3>3, <4>2, <4>3
    <3>12. \A r, q \in asked' : r.client = q.client => r = q BY <2>1, <3>3, <3>4 DEF AnswerInv
    <3>13. Proxies!AnsweredAsMapped' BY <1>13 DEF Proxies!AnsweredAsMapped
    <3>14. AnswerInv' BY <2>2, <3>10, <3>11, <3>12, <3>13 DEF AnswerInv
    <3> QED BY <3>7, <3>8, <3>14
  <2> QED BY <2>5, <2>6, <2>7
<1>14. ASSUME UNCHANGED proxyVars PROVE ProxyType' /\ ListenInv' /\ AnswerInv'
  <2>1. UNCHANGED <<conf, changed, stage, kind, loaded, port, pidFile, raced, kinds, client,
          asked, answer>>
    BY <1>14 DEF proxyVars
  <2>2. \A c : Needs(c)' <=> Needs(c) BY <2>1 DEF Needs
  <2>3. ProxyType' BY <2>1 DEF ProxyType
  <2>4. ListenInv' BY <2>1 DEF ListenInv, Proxies!ListenerIsNamed
  <2>5. AnswerInv' BY <2>1, <2>2 DEF AnswerInv, Proxies!AnsweredAsMapped
  <2> QED BY <2>3, <2>4, <2>5
<1>15. ASSUME Proxies!Others, answer' = {} PROVE ProxyType' /\ ListenInv' /\ AnswerInv'
  <2>1. ASSUME NEW p \in Proxies!Proxy, Proxies!Main(p) \/ Proxies!Bind(p) \/ Proxies!Name(p)
                 \/ Proxies!Shutdown(p) \/ Proxies!Cleanup(p) \/ Proxies!Crash(p)
        PROVE  ProxyType' /\ ListenInv' /\ AnswerInv'
    BY <1>2, <1>3, <1>15, <2>1
  <2>2. ASSUME NEW c \in Proxies!Client, Proxies!Probe(c) \/ Proxies!Poll(c) \/ Proxies!GiveUp(c)
                 \/ Proxies!Lost(c) \/ Proxies!Again(c)
        PROVE  ProxyType' /\ ListenInv' /\ AnswerInv'
    <3>1. CASE Proxies!Probe(c)
      <4>1. CASE port = {} BY <1>4, <1>15, <3>1, <4>1
      <4>2. CASE port # {} BY <1>7, <1>15, <3>1, <4>2
      <4> QED BY <4>1, <4>2
    <3>2. CASE Proxies!Poll(c) \/ Proxies!GiveUp(c) \/ Proxies!Lost(c) BY <1>7, <1>15, <3>2
    <3>3. CASE Proxies!Again(c) BY <1>8, <1>15, <3>3
    <3> QED BY <2>2, <3>1, <3>2, <3>3
  <2>3. \/ \E p \in Proxies!Proxy : Proxies!Main(p) \/ Proxies!Bind(p) \/ Proxies!Name(p)
             \/ Proxies!Shutdown(p) \/ Proxies!Cleanup(p) \/ Proxies!Crash(p)
        \/ \E c \in Proxies!Client : Proxies!Probe(c) \/ Proxies!Poll(c) \/ Proxies!GiveUp(c)
             \/ Proxies!Lost(c) \/ Proxies!Again(c)
        \/ \E c \in Proxies!Client,
             who \in Agent \cup {"main"} : (c = Proxies!Session \/ who = c) /\ Proxies!Ask(c, who)
        \/ Proxies!BeginSession
        \/ \E a \in Agent : Proxies!BeginAgent(a)
        \/ \E a \in Agent, k \in Model \cup {"claude"} : Proxies!SetModel(a, k)
    BY <1>15 DEF Proxies!Others
  <2>4. CASE \E p \in Proxies!Proxy : Proxies!Main(p) \/ Proxies!Bind(p) \/ Proxies!Name(p)
               \/ Proxies!Shutdown(p) \/ Proxies!Cleanup(p) \/ Proxies!Crash(p) BY <2>1, <2>4
  <2>5. CASE \E c \in Proxies!Client : Proxies!Probe(c) \/ Proxies!Poll(c) \/ Proxies!GiveUp(c)
               \/ Proxies!Lost(c) \/ Proxies!Again(c) BY <2>2, <2>5
  <2>6. CASE \E c \in Proxies!Client,
               who \in Agent \cup {"main"} : (c = Proxies!Session \/ who = c)
               /\ Proxies!Ask(c, who)
    BY <1>13, <1>15, <2>6
  <2>7. CASE Proxies!BeginSession BY <1>10, <1>15, <2>7
  <2>8. CASE \E a \in Agent : Proxies!BeginAgent(a) BY <1>11, <1>15, <2>8
  <2>9. CASE \E a \in Agent, k \in Model \cup {"claude"} : Proxies!SetModel(a, k) BY <1>12,
               <1>15, <2>9
  <2> QED BY <2>3, <2>4, <2>5, <2>6, <2>7, <2>8, <2>9
<1> QED BY <1>1, <1>14, <1>15 DEF Proxies!Next
\* An answer comes from the model that its client is due or from Claude, whatever proxy
\* took the port, was killed or was started by hand, while all are of one kind and the
\* mapping stays (start-proxy.ts, services/model-proxy.ts, agent-model-check.ts, oss-launch);
\* and where proxies do not race, the one that listens is named in the pid file.
THEOREM AnswersAreMapped == SystemSpec => []AnsweredAsMapped
<1>1. SystemInit => ProxyType /\ ListenInv /\ AnswerInv BY PartSteps, ProxyInit, AnswerInit
<1>2. ProxyType /\ ListenInv /\ AnswerInv /\ [SystemNext]_allVars => ProxyType' /\ ListenInv'
        /\ AnswerInv'
  BY PartSteps, ProxiesStep
<1>3. ProxyType /\ ListenInv /\ AnswerInv => AnsweredAsMapped BY DEF AnsweredAsMapped, AnswerInv,
        ListenInv
<1> QED BY <1>1, <1>2, <1>3, PTL DEF SystemSpec

-----------------------------------------------------------------------------
(* Telegram: the questions.                                                *)

HookStep == {"none", "skip", "store", "send", "name", "answered"}
KnownAnswer == {"telegram", "terminal"}

\* The question that is about to be asked, asked or just answered.
Present == screen \cup ({hook.q} \cap Chat!Question)

TellType ==
  /\ hook \in [step : HookStep, q : Chat!Question \cup {0}] /\ (hook.step = "none" <=> hook.q = 0)
  /\ screen \subseteq Chat!Question /\ (\A p, q \in screen : p = q) /\ (screen # {} => hook.q = 0)
  /\ reader \in [Chat!Question -> {"none", "reads", "writes", "types", "ended"}]
  /\ api \in [Chat!Question -> {"none", "open", "unknown"} \cup KnownAnswer]
  /\ idFile \subseteq Chat!Question /\ reports \subseteq Chat!Question \X Chat!Question

\* Its hook has stored the id, or passed it over.
Stored == screen # {} \/ hook.step \in {"send", "name", "answered"}

\* Where nothing has outlived its question, the files are of the question that is present:
\* its id is stored unless the API does not know it, and its answer is one of Telegram's.
TellInv ==
  /\ hook.step \in {"skip", "store", "send"} => api[hook.q] = "none"
  /\ \A q \in Chat!Question : reader[q] \in {"writes", "types"} => api[q] \in KnownAnswer
  /\ byHand \subseteq Chat!Question /\ \A q \in byHand : api[q] # "none"
  /\ \A q \in Present : hook.step \notin {"skip", "store", "send"} => api[q] # "none"
  /\ left = {} =>
       /\ (Stored => idFile \subseteq Present) /\ answerFile \subseteq Present
       /\ \A q \in answerFile : api[q] \in KnownAnswer
       /\ \A q \in Present : hook.step \in {"none", "name", "answered"} /\ q \notin idFile =>
            api[q] = "unknown"
       /\ hook.step = "send" => hook.q \in idFile
  /\ Chat!AnswersAreTold

LEMMA TellInit == ASSUME Chat!Init PROVE TellType /\ TellInv
<1>1. /\ hook = [step |-> "none", q |-> 0] /\ screen = {} /\ idFile = {} /\ answerFile = {}
      /\ reader = [q \in Chat!Question |-> "none"] /\ api = [q \in Chat!Question |-> "none"]
      /\ reports = {} /\ byHand = {} /\ left = {}
  BY DEF Chat!Init, Chat!NoHook
<1>2. 0 \notin Chat!Question BY ChatAssumption DEF Chat!Question
<1>3. TellType BY <1>1 DEF TellType, HookStep
<1>4. Present = {} BY <1>1, <1>2 DEF Present
<1>5. TellInv BY <1>1, <1>4 DEF TellInv, Chat!AnswersAreTold
<1> QED BY <1>3, <1>5

\* What the questions are is not touched.
LEMMA TellKept ==
  ASSUME TellType, TellInv,
           UNCHANGED <<hook, screen, idFile, answerFile, reader, api, reports, byHand, untold, left>>
  PROVE  TellType' /\ TellInv'
<1>1. Present' = Present /\ Stored' = Stored BY DEF Present, Stored
<1>2. TellType' BY DEF TellType
<1>3. Chat!AnswersAreTold' BY DEF Chat!AnswersAreTold, TellInv
<1>4. TellInv' BY <1>1, <1>3 DEF TellInv
<1> QED BY <1>2, <1>4

LEMMA AskStep == ASSUME TellType, TellInv, Chat!Ask PROVE TellType' /\ TellInv'
<1>1. hook.q = 0 /\ screen = {}
        /\ UNCHANGED <<screen, idFile, answerFile, reader, api, reports, byHand, untold, left>>
  BY DEF Chat!Ask, Chat!NoHook, Chat!files, Chat!listeners
<1>2. PICK q \in Chat!Question : /\ \A p \in Chat!Question : p < q <=> api[p] # "none"
                                 /\ \E next \in {"skip", "store"} : hook' = [step |-> next, q |-> q]
  BY DEF Chat!Ask
<1>3. q \in Nat \ {0} BY ChatAssumption DEF Chat!Question
<1>4. api[q] = "none" BY <1>2, <1>3
<1>5. hook'.q = q /\ hook'.step \in {"store", "skip"} BY <1>2
<1>6. 0 \notin Chat!Question BY ChatAssumption DEF Chat!Question
<1>7. Present = {} /\ Present' = {q} /\ ~Stored' BY <1>1, <1>5, <1>6 DEF Present, Stored
<1>8. TellType' BY <1>1, <1>2, <1>3 DEF TellType, HookStep
<1>9. Chat!AnswersAreTold' BY <1>1 DEF Chat!AnswersAreTold, TellInv
<1>10. TellInv' BY <1>1, <1>4, <1>5, <1>7, <1>9 DEF TellInv
<1> QED BY <1>8, <1>10

\* The hook goes on, to its next step or to the terminal.
LEMMA HookSteps ==
  ASSUME TellType, TellInv, Chat!Skip \/ Chat!Store \/ Chat!Send \/ Chat!NameListener
           PROVE TellType' /\ TellInv'
<1> DEFINE h == hook.q
<1>1. h \in Chat!Question /\ screen = {} /\ 0 \notin Chat!Question
  BY ChatAssumption DEF Chat!Skip, Chat!Store, Chat!Send, Chat!NameListener, TellType,
       Chat!Question
<1>2. Present = {h} BY <1>1 DEF Present
<1>3. \/ /\ hook' = [step |-> "none", q |-> 0] /\ screen' = {h}
              /\ hook.step \in {"skip", "name", "send"}
      \/ /\ hook' = [step |-> "send", q |-> h] /\ screen' = {} /\ hook.step = "store"
      \/ /\ hook' = [step |-> "name", q |-> h] /\ screen' = {} /\ hook.step = "send"
  BY <1>1 DEF Chat!Skip, Chat!Store, Chat!Send, Chat!NameListener, Chat!Shows, Chat!Goto,
       Chat!NoHook, TellType
<1>4. Present' = {h} BY <1>1, <1>3 DEF Present
<1>5. /\ answerFile' = answerFile /\ reports' = reports /\ byHand' = byHand /\ untold' = untold
      /\ left' = IF hook.step = "skip" THEN left \cup idFile ELSE left
      /\ idFile' = IF hook.step = "store" THEN {h} ELSE idFile
  BY DEF Chat!Skip, Chat!Store, Chat!Send, Chat!NameListener, Chat!files
<1>6. /\ hook.step \in {"store", "name"} => api' = api /\ reader' = reader
      /\ hook.step = "skip" => api' = [api EXCEPT ![h] = "unknown"] /\ reader' = reader
      /\ hook.step = "send" =>
           \/ \E state \in {"open", "unknown"} : api' = [api EXCEPT ![h] = state]
                /\ reader' = reader
           \/ api' = [api EXCEPT ![h] = "open"] /\ reader' = [reader EXCEPT ![h] = "reads"]
  BY DEF Chat!Skip, Chat!Store, Chat!Send, Chat!NameListener, Chat!listeners
<1>7. hook'.step \in {"none", "send", "name"} /\ hook'.q \in {0, h} BY <1>3
<1>8. TellType' BY <1>1, <1>3, <1>5, <1>6 DEF TellType, HookStep
<1>9. \A q \in Chat!Question : q # h => api'[q] = api[q] /\ reader'[q] = reader[q] BY <1>1, <1>3,
        <1>6 DEF TellType
<1>10. /\ hook.step = "store" => api'[h] = "none" /\ reader'[h] = reader[h]
       /\ hook.step = "name" => api'[h] = api[h] /\ reader'[h] = reader[h]
       /\ hook.step = "skip" => api'[h] = "unknown" /\ reader'[h] = reader[h]
       /\ hook.step = "send" => api'[h] \in {"open", "unknown"}
            /\ reader'[h] \in {reader[h], "reads"}
  BY <1>1, <1>6 DEF TellType, TellInv
<1>11. hook.step \in {"skip", "store", "send"} => /\ h \notin byHand
                                                  /\ reader[h] \notin {"writes", "types"}
                                                  /\ left = {} => h \notin answerFile
  BY <1>1 DEF TellInv, KnownAnswer
<1>12. Chat!AnswersAreTold'
  <2>1. left' = {} => left = {} BY <1>5
  <2> QED BY <1>3, <1>5, <1>9, <1>10, <1>11, <2>1 DEF Chat!AnswersAreTold, TellInv
<1>13. \A q \in Chat!Question : reader'[q] \in {"writes", "types"} => api'[q] \in KnownAnswer
  BY <1>3, <1>9, <1>10, <1>11 DEF TellInv
<1>14. byHand' \subseteq Chat!Question /\ \A q \in byHand' : api'[q] # "none"
  BY <1>3, <1>5, <1>9, <1>10, <1>11 DEF TellInv
<1>15. hook'.step \in {"skip", "store", "send"} => api'[hook'.q] = "none" BY <1>3, <1>10
<1>16. \A q \in Present' : hook'.step \notin {"skip", "store", "send"} => api'[q] # "none"
  BY <1>2, <1>3, <1>4, <1>10 DEF TellInv
<1>17. ASSUME left' = {}
       PROVE  /\ (Stored' => idFile' \subseteq Present') /\ answerFile' \subseteq Present'
              /\ \A q \in answerFile' : api'[q] \in KnownAnswer
              /\ \A q \in Present' :
                   hook'.step \in {"none", "name", "answered"} /\ q \notin idFile' =>
                     api'[q] = "unknown"
              /\ hook'.step = "send" => hook'.q \in idFile'
  <2>0. left = {} /\ (hook.step = "skip" => idFile = {}) BY <1>5, <1>17
  <2>1. (Stored' => idFile' \subseteq Present') /\ answerFile' \subseteq Present'
    <3>1. hook.step \in {"name", "send"} => Stored BY DEF Stored
    <3> QED BY <1>2, <1>3, <1>4, <1>5, <2>0, <3>1 DEF TellInv
  <2>2. \A q \in answerFile' : api'[q] \in KnownAnswer
    BY <1>2, <1>3, <1>5, <1>10, <1>11, <2>0 DEF TellInv
  <2>3. hook'.step \in {"none", "name", "answered"} /\ h \notin idFile' => api'[h] = "unknown"
    BY <1>2, <1>3, <1>5, <1>10, <2>0 DEF TellInv
  <2>4. hook'.step = "send" => hook'.q \in idFile' BY <1>3, <1>5
  <2> QED BY <1>4, <2>1, <2>2, <2>3, <2>4
<1>18. TellInv' BY <1>12, <1>13, <1>14, <1>15, <1>16, <1>17 DEF TellInv
<1> QED BY <1>8, <1>18

\* A listener goes on.
LEMMA ListenerSteps ==
  ASSUME TellType, TellInv, NEW q \in Chat!Question, Chat!Receive(q) \/ Chat!WriteAnswer(q)
           \/ Chat!Close(q)
  PROVE  TellType' /\ TellInv'
<1>1. /\ UNCHANGED <<hook, screen, idFile, api, reports, byHand, untold>>
      /\ \/ reader[q] = "reads" /\ api[q] \in KnownAnswer
              /\ reader' = [reader EXCEPT ![q] = "writes"]
            /\ UNCHANGED <<answerFile, left>>
         \/ reader[q] = "writes" /\ reader' = [reader EXCEPT ![q] = "types"] /\ answerFile' = {q}
            /\ left' = IF q \in screen \cup {hook.q} THEN left ELSE left \cup {q}
         \/ reader' = [reader EXCEPT ![q] = "ended"] /\ UNCHANGED <<answerFile, left>>
  BY DEF Chat!Receive, Chat!WriteAnswer, Chat!Close, Chat!files, KnownAnswer
<1>2. Present' = Present /\ Stored' = Stored BY <1>1 DEF Present, Stored
<1>3. TellType' BY <1>1 DEF TellType
<1>4. \A p \in Chat!Question : reader'[p] \in {"writes", "types"} => api'[p] \in KnownAnswer
  BY <1>1 DEF TellType, TellInv
<1>5. left' = {} => /\ left = {}
                    /\ answerFile' = answerFile
                         \/ (answerFile' = {q} /\ q \in Present /\ api[q] \in KnownAnswer)
  BY <1>1 DEF Present, TellInv
<1>6. Chat!AnswersAreTold' BY <1>1, <1>5 DEF Chat!AnswersAreTold, TellInv
<1>7. TellInv' BY <1>1, <1>2, <1>4, <1>5, <1>6 DEF TellInv
<1> QED BY <1>3, <1>7

\* The question in the terminal is answered, by hand or by a listener.
LEMMA TerminalSteps ==
  ASSUME TellType, TellInv, NEW p \in screen, screen' = {},
           hook' = [step |-> "answered", q |-> p],
         UNCHANGED <<idFile, answerFile, api, reports, byHand, untold, left>>,
         reader' = reader \/ (\E q \in Chat!Question : reader' = [reader EXCEPT ![q] = "ended"])
  PROVE  TellType' /\ TellInv'
<1>1. 0 \notin Chat!Question /\ p \in Chat!Question /\ hook.q = 0 /\ hook.step = "none"
        /\ screen = {p}
  <2>1. \A q \in screen : q = p BY DEF TellType
  <2>2. screen = {p} BY <2>1
  <2>3. 0 \notin Chat!Question BY ChatAssumption DEF Chat!Question
  <2> QED BY <2>2, <2>3 DEF TellType
<1>2. Present = {p} /\ Present' = {p} /\ Stored BY <1>1 DEF Present, Stored
<1>3. TellType' BY <1>1 DEF TellType, HookStep
<1>4. \A q \in Chat!Question : reader'[q] \in {"writes", "types"} => api'[q] \in KnownAnswer
  BY DEF TellType, TellInv
<1>5. Chat!AnswersAreTold' BY DEF Chat!AnswersAreTold, TellInv
<1>6. hook'.step = "answered" OBVIOUS
<1>7. TellInv' BY <1>1, <1>2, <1>4, <1>5, <1>6 DEF TellInv
<1> QED BY <1>3, <1>7

\* The question is dismissed.
LEMMA DismissStep == ASSUME TellType, TellInv, Chat!Dismiss PROVE TellType' /\ TellInv'
<1>1. /\ screen # {} /\ screen' = {} /\ left' = left \cup answerFile
      /\ UNCHANGED <<hook, idFile, answerFile, reader, api, reports, byHand, untold>>
  BY DEF Chat!Dismiss, Chat!files, Chat!listeners
<1>2. hook.q = 0 /\ hook.step = "none" BY <1>1 DEF TellType
<1>3. 0 \notin Chat!Question BY ChatAssumption DEF Chat!Question
<1>4. Present' = {} /\ ~Stored' BY <1>1, <1>2, <1>3 DEF Present, Stored
<1>5. TellType' BY <1>1, <1>2 DEF TellType
<1>6. left' = {} => left = {} /\ answerFile = {} BY <1>1
<1>7. Chat!AnswersAreTold' BY <1>1, <1>6 DEF Chat!AnswersAreTold, TellInv
<1>8. TellInv' BY <1>1, <1>2, <1>4, <1>6, <1>7 DEF TellInv
<1> QED BY <1>5, <1>8

\* The hook after an answer: the API is told of it, or knows it, or never knew the question.
LEMMA AnsweredStep == ASSUME TellType, TellInv, Chat!Answered PROVE TellType' /\ TellInv'
<1> DEFINE h == hook.q
<1>1. h \in Chat!Question /\ screen = {} /\ hook.step = "answered" /\ 0 \notin Chat!Question
  BY ChatAssumption DEF Chat!Answered, TellType, Chat!Question
<1>2. Present = {h} /\ Stored BY <1>1 DEF Present, Stored
<1>3. /\ hook' = [step |-> "none", q |-> 0] /\ UNCHANGED <<screen, reader, api>>
      /\ \/ /\ reports' = IF answerFile = {} THEN reports \cup (idFile \X {h}) ELSE reports
            /\ byHand' = byHand \cup {h} /\ idFile' = {} /\ answerFile' = {} /\ left' = left
            /\ untold' = untold
         \/ /\ reports' = reports /\ untold' = untold \cup {h}
            /\ byHand' = byHand \cup {h} /\ idFile' = {} /\ answerFile' = {} /\ left' = left
         \/ /\ left' = left \cup {h} /\ UNCHANGED <<reports, idFile, answerFile>>
            /\ byHand' \in {byHand, byHand \cup {h}}
  BY DEF Chat!Answered, Chat!NoHook, Chat!CleanupPending, Chat!files
<1>4. Present' = {} BY <1>1, <1>3 DEF Present
<1>5. api[h] # "none" BY <1>1, <1>2 DEF TellInv
<1>6. TellType'
  <2>1. hook' \in [step : HookStep, q : Chat!Question \cup {0}] /\ hook'.step = "none"
          /\ hook'.q = 0
    BY <1>3 DEF HookStep
  <2> QED BY <1>1, <1>3, <2>1 DEF TellType
<1>7. Chat!AnswersAreTold'
  <2> SUFFICES ASSUME left' = {}
               PROVE  /\ \A q \in byHand' \ untold' :
                           api[q] = "open" => \E r \in reports' : r[1] = q
                      /\ \A r \in reports' : r[1] = r[2]
    BY <1>3 DEF Chat!AnswersAreTold
  <2>1. /\ left = {} /\ byHand' = byHand \cup {h} /\ untold \subseteq untold'
        /\ \/ reports' = IF answerFile = {} THEN reports \cup (idFile \X {h}) ELSE reports
           \/ reports' = reports /\ h \in untold'
    BY <1>3
  <2>2. /\ \A q \in byHand \ untold : api[q] = "open" => \E r \in reports : r[1] = q
        /\ \A r \in reports : r[1] = r[2]
    BY <2>1 DEF TellInv, Chat!AnswersAreTold
  <2>3. idFile \subseteq {h} /\ (answerFile = {} \/ api[h] \in KnownAnswer)
          /\ (h \notin idFile => api[h] = "unknown")
    BY <1>1, <1>2, <2>1 DEF TellInv
  <2>4. \A r \in idFile \X {h} : r[1] = r[2] BY <2>3
  <2>5. h \notin untold' /\ api[h] = "open" => \E r \in reports' : r[1] = h
    <3> SUFFICES ASSUME h \notin untold', api[h] = "open" PROVE <<h, h>> \in reports' OBVIOUS
    <3> QED BY <2>1, <2>3 DEF KnownAnswer
  <2>6. reports \subseteq reports' BY <2>1
  <2> QED BY <2>1, <2>2, <2>4, <2>5, <2>6
<1>8. byHand' \subseteq Chat!Question /\ \A q \in byHand' : api'[q] # "none" BY <1>1, <1>3, <1>5
        DEF TellInv
<1>9. left' = {} => idFile' = {} /\ answerFile' = {} BY <1>3
<1>10. hook'.step = "none" BY <1>3
<1>11. \A q \in Chat!Question : reader'[q] \in {"writes", "types"} => api'[q] \in KnownAnswer
         BY <1>3 DEF TellInv
<1>12. TellInv' BY <1>4, <1>7, <1>8, <1>9, <1>10, <1>11 DEF TellInv
<1> QED BY <1>6, <1>12

\* The API hears of an answer, and takes the first one.
LEMMA ApiSteps ==
  ASSUME TellType, TellInv, (\E q \in Chat!Question : Chat!AnswerInChat(q))
           \/ (\E r \in reports : Chat!Report(r))
  PROVE  TellType' /\ TellInv'
<1>1. /\ UNCHANGED <<hook, screen, idFile, answerFile, reader, byHand, left>>
           /\ reports' \subseteq reports /\ untold \subseteq untold'
      /\ \E q \in Chat!Question :
           \/ /\ \A r \in reports : r \notin reports' => r[1] = q
              /\ \/ api[q] = "open" /\ \E state \in KnownAnswer : api' = [api EXCEPT ![q] = state]
                 \/ api[q] # "open" /\ api' = api
           \/ /\ \A r \in reports : r \notin reports' => r[2] = q
              /\ q \in untold' /\ api' = api
  <2>1. CASE \E q \in Chat!Question : Chat!AnswerInChat(q) BY <2>1 DEF Chat!AnswerInChat,
               Chat!files, Chat!listeners, KnownAnswer
  <2>2. ASSUME NEW r \in reports, Chat!Report(r)
        PROVE  /\ reports' = reports \ {r} /\ r[1] \in Chat!Question /\ r[2] \in Chat!Question
               /\ UNCHANGED <<hook, screen, idFile, answerFile, reader, byHand, left>>
               /\ untold \subseteq untold'
               /\ \/ api[r[1]] = "open" /\ api' = [api EXCEPT ![r[1]] = "terminal"]
                  \/ api[r[1]] # "open" /\ api' = api
                  \/ r[2] \in untold' /\ api' = api
    BY <2>2 DEF Chat!Report, Chat!files, Chat!listeners, TellType
  <2> QED BY <2>1, <2>2 DEF KnownAnswer
<1>2. PICK q \in Chat!Question :
        \/ /\ \A r \in reports : r \notin reports' => r[1] = q
           /\ \/ api[q] = "open" /\ \E state \in KnownAnswer : api' = [api EXCEPT ![q] = state]
              \/ api[q] # "open" /\ api' = api
        \/ (\A r \in reports : r \notin reports' => r[2] = q) /\ q \in untold' /\ api' = api
  BY <1>1
<1>3. /\ \A p \in Chat!Question : p # q => api'[p] = api[p]
      /\ (api'[q] # "open" /\ \A r \in reports : r \notin reports' => r[1] = q)
           \/ (q \in untold' /\ \A r \in reports : r \notin reports' => r[2] = q)
      /\ (api[q] # "open" => api'[q] = api[q])
      /\ (api[q] = "open" => api'[q] \in KnownAnswer \cup {"open"})
  BY <1>2 DEF TellType, KnownAnswer
<1>4. TellType' BY <1>1, <1>2 DEF TellType
<1>5. Present' = Present /\ Stored' = Stored BY <1>1 DEF Present, Stored
<1>6. Chat!AnswersAreTold'
  <2> SUFFICES ASSUME left = {}
               PROVE  /\ \A p \in byHand \ untold' :
                           api'[p] = "open" => \E r \in reports' : r[1] = p
                      /\ \A r \in reports' : r[1] = r[2]
    BY <1>1 DEF Chat!AnswersAreTold
  <2>1. /\ \A p \in byHand \ untold : api[p] = "open" => \E r \in reports : r[1] = p
        /\ \A r \in reports : r[1] = r[2]
    BY DEF TellInv, Chat!AnswersAreTold
  <2>2. ASSUME NEW p \in byHand \ untold', api'[p] = "open" PROVE \E r \in reports' : r[1] = p
    <3>1. p \in Chat!Question BY DEF TellInv
    <3>2. p # q BY <1>3, <2>2
    <3>3. api[p] = "open" /\ p \notin untold BY <1>1, <1>3, <2>2, <3>1, <3>2
    <3>4. PICK r \in reports : r[1] = p BY <2>1, <3>3
    <3>5. r \in reports' BY <1>3, <2>1, <3>2, <3>4
    <3> QED BY <3>4, <3>5
  <2> QED BY <1>1, <2>1, <2>2
<1>7. /\ \A p \in Chat!Question : api[p] # "none" => api'[p] # "none"
      /\ \A p \in Chat!Question : api[p] = "none" => api'[p] = "none"
      /\ \A p \in Chat!Question : api[p] = "unknown" => api'[p] = "unknown"
      /\ \A p \in Chat!Question : api[p] \in KnownAnswer => api'[p] \in KnownAnswer
  BY <1>3 DEF KnownAnswer
<1>8. Present \subseteq Chat!Question
        /\ (hook.step \in {"skip", "store", "send"} => hook.q \in Chat!Question)
  BY DEF Present, TellType
<1>9. TellInv' BY <1>1, <1>5, <1>6, <1>7, <1>8 DEF TellInv
<1> QED BY <1>4, <1>9

LEMMA TellStep == TellType /\ TellInv /\ [Chat!Next]_chatVars => TellType' /\ TellInv'
<1> SUFFICES ASSUME TellType, TellInv, [Chat!Next]_chatVars PROVE TellType' /\ TellInv'
  OBVIOUS
<1>1. CASE UNCHANGED <<hook, screen, idFile, answerFile, reader, api, reports, byHand, untold,
                       left>>
  BY <1>1, TellKept
<1>2. CASE Chat!Ask BY <1>2, AskStep
<1>3. CASE Chat!Skip \/ Chat!Store \/ Chat!Send \/ Chat!NameListener BY <1>3, HookSteps
<1>4. CASE Chat!Answered BY <1>4, AnsweredStep
<1>5. CASE \E q \in Chat!Question : Chat!Receive(q) \/ Chat!WriteAnswer(q) \/ Chat!Close(q)
             BY <1>5, ListenerSteps
<1>6. CASE (\E q \in Chat!Question : Chat!AnswerInChat(q)) \/ (\E r \in reports : Chat!Report(r))
             BY <1>6, ApiSteps
<1>7. CASE Chat!AnswerInTerminal \/ \E q \in Chat!Question : Chat!Inject(q)
  <2>1. CASE screen = {}
    <3>1. PICK q \in Chat!Question : Chat!Inject(q) BY <1>7, <2>1 DEF Chat!AnswerInTerminal
    <3>2. UNCHANGED <<hook, screen, idFile, answerFile, api, reports, byHand, untold, left>>
          /\ reader' = [reader EXCEPT ![q] = "ended"]
      BY <2>1, <3>1 DEF Chat!Inject, Chat!files
    <3>3. TellType' BY <3>2 DEF TellType
    <3>4. Present' = Present /\ Stored' = Stored BY <3>2 DEF Present, Stored
    <3>5. Chat!AnswersAreTold' BY <3>2 DEF Chat!AnswersAreTold, TellInv
    <3>6. \A p \in Chat!Question : reader'[p] \in {"writes", "types"} => api'[p] \in KnownAnswer
      BY <3>2 DEF TellType, TellInv
    <3>7. TellInv' BY <3>2, <3>4, <3>5, <3>6 DEF TellInv
    <3> QED BY <3>3, <3>7
  <2>2. CASE screen # {}
    <3> DEFINE p == CHOOSE p \in screen : TRUE
    <3>1. p \in screen BY <2>2
    <3>2. /\ screen' = {} /\ hook' = [step |-> "answered", q |-> p]
          /\ UNCHANGED <<idFile, answerFile, api, reports, byHand, untold, left>>
          /\ reader' = reader
               \/ (\E q \in Chat!Question : reader' = [reader EXCEPT ![q] = "ended"])
      BY <1>7, <2>2 DEF Chat!AnswerInTerminal, Chat!Inject, Chat!files, Chat!listeners
    <3> HIDE DEF p
    <3> QED BY <3>1, <3>2, TerminalSteps
  <2> QED BY <2>1, <2>2
<1>8. CASE \E q \in Chat!Question : Chat!Cleanup(q) BY <1>1, <1>8 DEF Chat!Cleanup
<1>9. CASE UNCHANGED Chat!questions BY <1>1, <1>9 DEF Chat!questions, Chat!files, Chat!listeners
<1>10. CASE UNCHANGED chatVars BY <1>1, <1>10 DEF chatVars
<1>11. CASE Chat!Dismiss BY <1>11, DismissStep
<1> QED BY <1>2, <1>3, <1>4, <1>5, <1>6, <1>7, <1>8, <1>9, <1>10, <1>11
        DEF Chat!Next, Chat!Configure

-----------------------------------------------------------------------------
(* Telegram: the waits.                                                    *)

WaitStage == {"new", "sent", "polls", "works", "done", "over"}
Update == [id : Nat, of : Waiter \cup {"chat"}]
Expects(w) == wait[w].stage \in {"sent", "polls", "works"}

\* Updates are numbered as they happen; a batch is what the server had, so that what comes
\* later has a higher number.
UpdateInv ==
  /\ lastUpdate \in Nat /\ updates \subseteq Update /\ \A u \in updates : u.id <= lastUpdate
  /\ wait \in [Waiter -> [stage : WaitStage, last : Nat, batch : SUBSET Update]]
  /\ \A w \in Waiter :
       /\ wait[w].last <= lastUpdate /\ \A u \in wait[w].batch : u.id <= lastUpdate
       /\ wait[w].stage \in {"new", "sent", "polls"} => wait[w].batch = {}
       /\ \A u \in updates, v \in wait[w].batch : u \in wait[w].batch \/ v.id < u.id

StillThere(w) == w \in failedWaits \/ \E u \in updates \cup wait[w].batch : u.of = w
  /\ u.id > wait[w].last

\* Nobody has pressed a button that is not there yet; and where one message is waited for at
\* a time, its press is kept from the moment it is sent.
PressInv ==
  /\ pressed \subseteq Waiter /\ \A w \in pressed : wait[w].stage # "new"
  /\ ~together => /\ \A v, w \in Waiter : Expects(v) /\ Expects(w) => v = w
                  /\ \A w \in pressed : Expects(w) => StillThere(w)

LEMMA PressInit == ASSUME Chat!Init PROVE UpdateInv /\ PressInv
<1>1. /\ updates = {} /\ lastUpdate = 0 /\ pressed = {}
      /\ wait = [w \in Waiter |-> [stage |-> "new", last |-> 0, batch |-> {}]]
  BY DEF Chat!Init, Chat!New
<1>2. UpdateInv BY <1>1 DEF UpdateInv, WaitStage
<1>3. PressInv BY <1>1 DEF PressInv, Expects
<1> QED BY <1>2, <1>3

\* A set of numbers has a least element, and a bounded one a greatest.
LEMMA Lowest == ASSUME NEW S \in SUBSET Nat, S # {} PROVE \E c \in S : \A d \in S : c <= d
<1>1. \E c \in S : \A d \in S : ~(<<d, c>> \in OpToRel(<, Nat)) BY NatLessThanWellFounded, WFMin
<1>2. \E c \in S : \A d \in S : ~(d < c) BY <1>1, Zenon DEF OpToRel
<1> QED BY <1>2

LEMMA Greatest ==
  ASSUME NEW n \in Nat, NEW S \in SUBSET (0..n), S # {}
  PROVE  LET g == CHOOSE i \in S : \A j \in S : j <= i IN g \in S /\ \A j \in S : j <= g
<1> DEFINE Below == {n - i : i \in S}
<1>1. Below \in SUBSET Nat /\ Below # {}
  <2>1. \A i \in S : n - i \in Nat OBVIOUS
  <2>2. \A b \in Below : b \in Nat BY <2>1
  <2> QED BY <2>2
<1>2. PICK b \in Below : \A c \in Below : b <= c
  <2> HIDE DEF Below
  <2> QED BY <1>1, Lowest
<1>3. PICK i \in S : b = n - i OBVIOUS
<1>4. \A j \in S : n - i <= n - j BY <1>2, <1>3
<1>5. \A j \in S : j \in Int /\ i \in Int /\ j <= i
  <2> HIDE DEF Below
  <2> QED BY <1>4
<1> QED BY <1>5

\* A wait goes on without a look at the updates.
LEMMA StageStep ==
  ASSUME UpdateInv, PressInv, NEW w \in Waiter, Chat!SendMessage(w) \/ Chat!WaitForCallback(w)
           \/ Chat!GiveUp(w)
  PROVE  UpdateInv' /\ PressInv'
<1>1. /\ UNCHANGED <<updates, lastUpdate, pressed, failedWaits>>
      /\ \/ /\ wait[w].stage = "new"
            /\ \/ wait' = [wait EXCEPT ![w].stage = "over"]
               \/ /\ wait' = [wait EXCEPT ![w].stage = "sent"]
                  /\ ~together' => \A v \in Waiter : ~Expects(v)
            /\ together => together'
         \/ /\ wait[w].stage = "sent" /\ together' = together
            /\ wait' = [wait EXCEPT ![w].stage = "polls"]
                 \/ wait' = [wait EXCEPT ![w].stage = "over"]
         \/ /\ Expects(w) /\ together' = together
            /\ wait' = [wait EXCEPT ![w].stage = "over"]
  BY DEF Chat!SendMessage, Chat!WaitForCallback, Chat!GiveUp, Chat!Ends, Expects, Chat!Busy
<1>2. PICK s \in {"sent", "polls", "over"} :
        /\ wait' = [wait EXCEPT ![w].stage = s]
        /\ s = "polls" => wait[w].stage = "sent"
        /\ s = "sent" => wait[w].stage = "new" /\ (~together' => \A v \in Waiter : ~Expects(v))
  BY <1>1
<1>3. /\ \A v \in Waiter : v # w => wait'[v] = wait[v]
      /\ wait'[w] = [wait[w] EXCEPT !.stage = s]
  BY <1>2 DEF UpdateInv
<1>4. wait[w] \in [stage : WaitStage, last : Nat, batch : SUBSET Update] BY DEF UpdateInv
<1>5. wait'[w].stage = s /\ wait'[w].last = wait[w].last /\ wait'[w].batch = wait[w].batch
  BY <1>3, <1>4
<1>6. s \in WaitStage BY DEF WaitStage
<1>7. s = "polls" => wait[w].stage = "sent" BY <1>2
<1>8. s = "sent" => wait[w].stage = "new" /\ (~together' => \A v \in Waiter : ~Expects(v))
  BY <1>2
<1>9. wait' \in [Waiter -> [stage : WaitStage, last : Nat, batch : SUBSET Update]]
  BY <1>2, <1>6 DEF UpdateInv
<1>10. UpdateInv' BY <1>1, <1>3, <1>5, <1>7, <1>8, <1>9 DEF UpdateInv
<1>11. ~together' => ~together BY <1>1
<1>12. \A v \in Waiter : v # w => (Expects(v)' <=> Expects(v))
         /\ (StillThere(v)' <=> StillThere(v))
  BY <1>1, <1>3 DEF Expects, StillThere
<1>13. Expects(w)' => s # "over" BY <1>5 DEF Expects
<1>14. s = "polls" => Expects(w) BY <1>7 DEF Expects
<1>15. StillThere(w) => StillThere(w)' BY <1>1, <1>5 DEF StillThere
<1>16. \A v \in pressed' : wait'[v].stage # "new" BY <1>1, <1>3, <1>5 DEF PressInv
<1>17. ASSUME ~together', NEW u \in Waiter, NEW v \in Waiter, Expects(u)', Expects(v)' PROVE u = v
  BY <1>8, <1>11, <1>12, <1>13, <1>14, <1>17 DEF PressInv
<1>18. ASSUME ~together', NEW v \in pressed', Expects(v)' PROVE StillThere(v)'
  BY <1>1, <1>8, <1>11, <1>12, <1>13, <1>14, <1>15, <1>18 DEF PressInv
<1>19. PressInv' BY <1>1, <1>16, <1>17, <1>18 DEF PressInv
<1> QED BY <1>10, <1>19

\* Something happens in the chat.
LEMMA HappenStep ==
  ASSUME UpdateInv, PressInv, NEW m \in Waiter \cup {"chat"}, Chat!Happen(m) PROVE UpdateInv'
           /\ PressInv'
<1> DEFINE u == [id |-> lastUpdate + 1, of |-> m]
<1>1. /\ lastUpdate' = lastUpdate + 1 /\ updates' = updates \cup {u}
      /\ m \in Waiter => wait[m].stage \notin {"new", "over"}
      /\ pressed' = pressed \cup ({m} \cap Waiter) /\ failedWaits' = failedWaits \ {m}
      /\ wait' = wait /\ together' = together
  BY DEF Chat!Happen
<1>2. lastUpdate \in Nat /\ u \in Update /\ u.id = lastUpdate + 1 /\ u.of = m BY DEF UpdateInv,
        Update
<1> HIDE DEF u
<1>3. /\ updates' \subseteq Update /\ lastUpdate' \in Nat
           /\ \A x \in updates' : x.id <= lastUpdate'
  BY <1>1, <1>2 DEF UpdateInv, Update
<1>4. \A w \in Waiter : /\ wait[w].last \in Nat /\ wait[w].last <= lastUpdate
                        /\ \A x \in wait[w].batch : x.id \in Nat /\ x.id <= lastUpdate
  BY DEF UpdateInv, Update
<1>5. \A w \in Waiter : /\ wait[w].last <= lastUpdate'
                        /\ \A x \in wait[w].batch : x.id <= lastUpdate'
                        /\ \A x \in updates', y \in wait[w].batch : x \in wait[w].batch
                             \/ y.id < x.id
  BY <1>1, <1>2, <1>4 DEF UpdateInv
<1>6. UpdateInv' BY <1>1, <1>3, <1>5 DEF UpdateInv
<1>7. \A w : Expects(w)' <=> Expects(w) BY <1>1 DEF Expects
<1>8. \A w \in Waiter : StillThere(w) /\ w # m => StillThere(w)' BY <1>1 DEF StillThere
<1>9. m \in Waiter => StillThere(m)' BY <1>1, <1>2, <1>4 DEF StillThere
<1>10. PressInv' BY <1>1, <1>7, <1>8, <1>9 DEF PressInv
<1> QED BY <1>6, <1>10

\* The server forgets what the wait has seen.
LEMMA PollStep == ASSUME UpdateInv, PressInv, NEW w \in Waiter, Chat!Poll(w) PROVE UpdateInv'
  /\ PressInv'
<1> DEFINE rest == {u \in updates : u.id >= wait[w].last + 1}
<1>1. /\ wait[w].stage = "polls" /\ updates' = rest
      /\ wait' = [wait EXCEPT ![w].batch = rest, ![w].stage = "works"]
      /\ UNCHANGED <<lastUpdate, pressed, failedWaits, together>>
  BY DEF Chat!Poll
<1>2. wait[w] \in [stage : WaitStage, last : Nat, batch : SUBSET Update] /\ wait[w].batch = {}
  BY <1>1 DEF UpdateInv
<1>3. updates' \subseteq updates /\ rest \in SUBSET Update BY <1>1 DEF UpdateInv
<1>4. /\ \A v \in Waiter : v # w => wait'[v] = wait[v]
      /\ wait'[w].stage = "works" /\ wait'[w].last = wait[w].last /\ wait'[w].batch = updates'
  BY <1>1, <1>2 DEF UpdateInv
<1>5. wait' \in [Waiter -> [stage : WaitStage, last : Nat, batch : SUBSET Update]]
  BY <1>1, <1>3 DEF UpdateInv, WaitStage
<1>6. UpdateInv' BY <1>1, <1>3, <1>4, <1>5 DEF UpdateInv
<1>7. Expects(w) BY <1>1 DEF Expects
<1>8. \A v \in Waiter : Expects(v)' <=> Expects(v) BY <1>4, <1>7 DEF Expects
<1>9. StillThere(w) => StillThere(w)'
  <2>1. \A u \in updates : u.id \in Nat BY DEF UpdateInv, Update
  <2>2. \A u \in updates : u.id > wait[w].last => u \in updates' BY <1>1, <1>2, <2>1
  <2> QED BY <1>1, <1>2, <1>4, <2>2 DEF StillThere
<1>10. ASSUME ~together, NEW v \in pressed, Expects(v) PROVE v = w BY <1>7, <1>10 DEF PressInv
<1>11. \A v \in pressed' : wait'[v].stage # "new" BY <1>1, <1>4 DEF PressInv
<1>12. PressInv' BY <1>1, <1>8, <1>9, <1>10, <1>11 DEF PressInv
<1> QED BY <1>6, <1>12

\* A batch is gone through, up to a press of its own.
LEMMA BatchStep == ASSUME UpdateInv, PressInv, NEW w \in Waiter, Chat!Work(w) PROVE UpdateInv'
  /\ PressInv'
<1> DEFINE b == wait[w].batch
           own == {u.id : u \in {v \in b : v.of = w}}
           first == CHOOSE i \in own : \A j \in own : i <= j
           seen == {wait[w].last} \cup {u.id : u \in {v \in b : own = {} \/ v.id <= first}}
           high == CHOOSE i \in seen : \A j \in seen : j <= i
<1>1. /\ wait[w].stage = "works" /\ UNCHANGED <<updates, lastUpdate, pressed, together>>
      /\ \E ok \in BOOLEAN :
           /\ own = {} => ok
           /\ wait' = [wait EXCEPT ![w] = [stage |-> IF own # {} /\ ok THEN "done" ELSE "polls",
                                          last |-> high, batch |-> {}]]
           /\ failedWaits' = IF ok THEN failedWaits ELSE failedWaits \cup {w}
  BY DEF Chat!Work
<1>2. /\ lastUpdate \in Nat /\ wait[w].last \in 0..lastUpdate
      /\ \A u \in b : u.id \in 0..lastUpdate
  BY DEF UpdateInv, Update
<1>3. seen \in SUBSET (0..lastUpdate) /\ seen # {} BY <1>2
<1>4. high \in seen
  <2> HIDE DEF seen
  <2> QED BY <1>2, <1>3, Greatest
<1>5. own = {} => \A u \in b : u.of # w OBVIOUS
<1>6. high = wait[w].last \/ \E v \in b : high = v.id
  <2> HIDE DEF own, first, high
  <2> QED BY <1>4
<1>7. high \in 0..lastUpdate BY <1>3, <1>4
<1> HIDE DEF own, seen, high
<1>8. PICK ok \in BOOLEAN :
        /\ own = {} => ok
        /\ wait' = [wait EXCEPT ![w] = [stage |-> IF own # {} /\ ok THEN "done" ELSE "polls",
                                       last |-> high, batch |-> {}]]
        /\ failedWaits' = IF ok THEN failedWaits ELSE failedWaits \cup {w}
  BY <1>1
<1>9. /\ \A v \in Waiter : v # w => wait'[v] = wait[v]
      /\ wait'[w].stage = IF own # {} /\ ok THEN "done" ELSE "polls"
      /\ wait'[w].last = high /\ wait'[w].batch = {}
  BY <1>8 DEF UpdateInv
<1>10. wait' \in [Waiter -> [stage : WaitStage, last : Nat, batch : SUBSET Update]]
  BY <1>2, <1>7, <1>8 DEF UpdateInv, WaitStage
<1>11. UpdateInv' BY <1>1, <1>2, <1>7, <1>9, <1>10 DEF UpdateInv
<1>12. Expects(w) BY <1>1 DEF Expects
<1>13. \A v \in Waiter : Expects(v)' => Expects(v) BY <1>9, <1>12 DEF Expects
<1>14. ASSUME NEW v \in pressed, ~together, Expects(v)' PROVE v = w /\ StillThere(w)
  BY <1>12, <1>13, <1>14 DEF PressInv
<1>15. StillThere(w) /\ Expects(w)' => StillThere(w)'
  <2> SUFFICES ASSUME StillThere(w), Expects(w)', w \notin failedWaits'
               PROVE  \E u \in updates' : u.of = w /\ u.id > high
    BY <1>9 DEF StillThere
  <2>1. ok /\ own = {} /\ w \notin failedWaits BY <1>8, <1>9 DEF Expects
  <2>2. PICK u \in updates \cup b : u.of = w /\ u.id > wait[w].last BY <2>1 DEF StillThere
  <2>3. u \in updates /\ u \notin b BY <1>5, <2>1, <2>2
  <2>4. \A v \in b : v.id < u.id BY <2>3 DEF UpdateInv
  <2>5. u.id \in Nat BY <2>3 DEF UpdateInv, Update
  <2>6. u.id > high BY <1>2, <1>6, <2>2, <2>4, <2>5
  <2> QED BY <1>1, <2>2, <2>3, <2>6
<1>16. \A v \in pressed' : wait'[v].stage # "new" BY <1>1, <1>9 DEF PressInv
<1>17. ~together' => \A u, v \in Waiter : Expects(u)' /\ Expects(v)' => u = v
  BY <1>1, <1>13 DEF PressInv
<1>18. PressInv' BY <1>1, <1>14, <1>15, <1>16, <1>17 DEF PressInv
<1> QED BY <1>11, <1>18

LEMMA PressStep == UpdateInv /\ PressInv /\ [Chat!Next]_chatVars => UpdateInv' /\ PressInv'
<1> SUFFICES ASSUME UpdateInv, PressInv, [Chat!Next]_chatVars PROVE UpdateInv' /\ PressInv'
  OBVIOUS
<1>1. CASE UNCHANGED <<updates, lastUpdate, wait, pressed, failedWaits, together>>
  <2>1. \A w : (Expects(w)' <=> Expects(w)) /\ (StillThere(w)' <=> StillThere(w)) BY <1>1
          DEF Expects, StillThere
  <2> QED BY <1>1, <2>1 DEF UpdateInv, PressInv
<1>2. CASE UNCHANGED Chat!waits BY <1>1, <1>2 DEF Chat!waits
<1>3. CASE UNCHANGED chatVars BY <1>1, <1>3 DEF chatVars
<1>4. CASE \E w \in Waiter : Chat!SendMessage(w) \/ Chat!WaitForCallback(w) \/ Chat!GiveUp(w)
             BY <1>4, StageStep
<1>5. CASE \E w \in Waiter : Chat!Poll(w) BY <1>5, PollStep
<1>6. CASE \E w \in Waiter : Chat!Work(w) BY <1>6, BatchStep
<1>7. CASE \E m \in Waiter \cup {"chat"} : Chat!Happen(m) BY <1>7, HappenStep
<1> QED BY <1>2, <1>3, <1>4, <1>5, <1>6, <1>7 DEF Chat!Next, Chat!Configure

\* Of an answer given in the terminal the API is told once, of its own question, unless
\* its hook had nothing to tell it with, its one call failed or something outlived an
\* earlier question (oss-ask-telegram.sh, oss-ask-telegram-answered.sh,
\* sse-telegram-listener.sh); and a press under a message that is waited for alone stays on
\* the server or in the batch until it is found (services/telegram.ts).
THEOREM AnswersReachTheirQuestion == SystemSpec => []AnswersAreKept
<1>1. SystemInit => TellType /\ TellInv /\ UpdateInv /\ PressInv BY PartSteps, TellInit, PressInit
<1>2. TellType /\ TellInv /\ UpdateInv /\ PressInv /\ [SystemNext]_allVars
        => TellType' /\ TellInv' /\ UpdateInv' /\ PressInv'
  BY PartSteps, TellStep, PressStep
<1>3. PressInv => Chat!PressIsKept
  BY DEF PressInv, Chat!PressIsKept, Chat!Busy, Expects, StillThere
<1>4. TellType /\ TellInv /\ UpdateInv /\ PressInv => AnswersAreKept BY <1>3 DEF AnswersAreKept,
        TellInv
<1> QED BY <1>1, <1>2, <1>4, PTL DEF SystemSpec
==================================================================================
