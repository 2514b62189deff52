--------------------------- MODULE PRMonitorProofs ---------------------------
(***************************************************************************)
(* Proofs about PRMonitor: its type, that no comment is handled twice      *)
(* unless a process was lost or two intervals ticked, that replies are     *)
(* bounded (AckInv accounts for them), and that a stopped                  *)
(* agent starts no poll.  HandledOnce is not inductive: OnceInv says where *)
(* a comment that has a task is remembered (in memory once the process is  *)
(* ready, in the file before), SavedInv that a start forgets nothing, and  *)
(* OneInv that one poll at a time replies, to a comment not remembered.    *)
(***************************************************************************)
EXTENDS PRMonitor, FiniteSetTheorems, WellFoundedInduction, TLAPS

\* A set of numbers has a least element.
LEMMA LeastIsElement ==
  ASSUME NEW S \in SUBSET Nat, S # {}
  PROVE  /\ Least(S) \in S
         /\ \A d \in S : Least(S) <= d
<1>1. \E c \in S : \A d \in S : ~(<<d, c>> \in OpToRel(<, Nat))
  BY NatLessThanWellFounded, WFMin
<1>2. \E c \in S : \A d \in S : ~(d < c)
  BY <1>1, Zenon DEF OpToRel
<1>3. \E c \in S : \A d \in S : c <= d
  BY <1>2
<1> QED
  BY <1>3, Zenon DEF Least

\* A finite set of at most one element holds nothing but the one it holds.
LEMMA OnlyElement ==
  ASSUME NEW S, IsFiniteSet(S), Cardinality(S) <= 1, NEW x \in S
  PROVE  S = {x}
<1>1. /\ IsFiniteSet(S \ {x})
      /\ Cardinality(S \ {x}) = Cardinality(S) - 1
  BY FS_RemoveElement
<1>2. Cardinality(S \ {x}) = 0
  BY <1>1, FS_CardinalityType
<1>3. S \ {x} = {}
  BY <1>1, <1>2, FS_EmptySet
<1> QED
  BY <1>3

-----------------------------------------------------------------------------
(* Types.                                                                  *)

\* The loop of a poll keeps the types of the poll.
LEMMA GoesOnType ==
  ASSUME TypeOK, posted' = posted, NEW t \in Timer, NEW rest \in SUBSET posted, NEW rem,
         GoesOn(t, rest, rem)
  PROVE  /\ pc' \in [Timer -> {"idle", "fetch", "reply"}]
         /\ batch' \in [Timer -> SUBSET posted]
         /\ current' \in [Timer -> posted \cup {0}]
         /\ \A u \in Timer : pc'[u] = "reply" => current'[u] # 0
         /\ errors' \in Nat
<1> USE DEF TypeOK
<1> DEFINE new == rest \ rem
<1>1. CASE new = {}
  <2>1. /\ pc' = [pc EXCEPT ![t] = "idle"]
        /\ batch' = [batch EXCEPT ![t] = {}]
        /\ current' = [current EXCEPT ![t] = 0]
        /\ errors' = 0
    BY <1>1 DEF GoesOn
  <2> QED
    BY <2>1
<1>2. CASE new # {}
  <2>1. Least(new) \in new /\ new \subseteq Nat \ {0}
    BY <1>2, LeastIsElement, ConstantsAssumption
  <2>2. /\ pc' = [pc EXCEPT ![t] = "reply"]
        /\ current' = [current EXCEPT ![t] = Least(new)]
        /\ batch' = [batch EXCEPT ![t] = {c \in new : c > Least(new)}]
        /\ errors' = errors
    BY <1>2 DEF GoesOn
  <2>3. {c \in new : c > Least(new)} \in SUBSET posted /\ Least(new) \in posted
    BY <2>1
  <2> HIDE DEF new
  <2> QED
    BY <2>1, <2>2, <2>3
<1> QED
  BY <1>1, <1>2

\* A start keeps the types of what it sets.
LEMMA StartsType ==
  ASSUME TypeOK, NEW n \in {1, 2}, Starts(n)
  PROVE  /\ known' \subseteq Comment
         /\ timers' \in 0..MaxTimers /\ live' \subseteq 1..timers'
         /\ handle' \in live' \cup {0}
         /\ doubled' \in BOOLEAN
<1> USE ConstantsAssumption DEF TypeOK
<1>1. known' \subseteq Comment
  BY DEF Starts, Loaded, NoFile
<1>2. timers \in Nat /\ timers' = timers + n /\ timers + n \in 1..MaxTimers
  BY DEF Starts, Timer
<1>3. live' = live \cup (timers + 1)..(timers + n) /\ handle' = timers + n
  BY DEF Starts
<1>4. live' \subseteq 1..timers' /\ handle' \in live'
  BY <1>2, <1>3
<1>5. doubled' \in BOOLEAN
  BY DEF Starts
<1> QED
  BY <1>1, <1>2, <1>4, <1>5

LEMMA InitType == Init => TypeOK
<1> SUFFICES ASSUME Init PROVE TypeOK
  OBVIOUS
<1> USE ConstantsAssumption DEF Init
<1>1. queue \in Seq(Comment) /\ Len(queue) <= MaxQueue
  OBVIOUS
<1>2. /\ pc \in [Timer -> {"idle", "fetch", "reply"}]
      /\ batch \in [Timer -> SUBSET posted]
      /\ current \in [Timer -> posted \cup {0}]
      /\ \A t \in Timer : pc[t] = "reply" => current[t] # 0
  OBVIOUS
<1>3. /\ timers \in 0..MaxTimers /\ live \subseteq 1..timers /\ handle \in live \cup {0}
      /\ failures \in 0..MaxFailures /\ exits \in 0..MaxExits /\ losses \in 0..exits
  OBVIOUS
<1> QED
  BY <1>1, <1>2, <1>3 DEF TypeOK

\* A queue that was given a task.
LEMMA AddedType ==
  ASSUME TypeOK, NEW c \in Comment
  PROVE  Added(c) \in Seq(Comment) /\ Len(Added(c)) <= MaxQueue
  BY ConstantsAssumption DEF TypeOK, Added

\* A count of comments that goes up by one.
LEMMA CountedType ==
  ASSUME NEW f \in [Comment -> Nat], NEW c \in Comment
  PROVE  [f EXCEPT ![c] = @ + 1] \in [Comment -> Nat]
  OBVIOUS

LEMMA NextType == TypeOK /\ [Next]_vars => TypeOK'
<1> SUFFICES ASSUME TypeOK, [Next]_vars PROVE TypeOK'
  OBVIOUS
<1> USE ConstantsAssumption DEF TypeOK, vars, poll, bounds, config
<1>1. ASSUME NEW c \in Comment, Post(c) PROVE TypeOK'
  BY <1>1 DEF Post
<1>2. CASE SessionStart
  <2>1. CASE enabled
    BY <1>2, <2>1, StartsType DEF SessionStart
  <2>2. CASE ~enabled
    BY <1>2, <2>2 DEF SessionStart, Loaded, NoFile
  <2> QED
    BY <2>1, <2>2
<1>3. CASE SessionEnd
  BY <1>3 DEF SessionEnd, Stops, Running
<1>4. CASE Enable
  BY <1>4, StartsType DEF Enable
<1>5. CASE Disable
  BY <1>5 DEF Disable, Stops
<1>6. CASE Exit
  <2>1. PICK A \in SUBSET {t \in Timer : pc[t] = "reply"} : Exit!(A)
    BY <1>6 DEF Exit
  <2>2. \A c \in Comment : Cardinality({t \in A : current[t] = c}) \in Nat
    <3> TAKE c \in Comment
    <3>1. IsFiniteSet(Timer)
      BY FS_Interval DEF Timer
    <3>2. {t \in A : current[t] = c} \in SUBSET Timer
      OBVIOUS
    <3> QED
      BY <3>1, <3>2, FS_Subset, FS_CardinalityType
  <2>3. acks' \in [Comment -> Nat]
    BY <2>1, <2>2
  <2>4. exits' \in 0..MaxExits /\ losses' \in 0..exits'
    BY <2>1
  <2>5. /\ pc' \in [Timer -> {"idle", "fetch", "reply"}]
        /\ batch' \in [Timer -> SUBSET posted]
        /\ current' \in [Timer -> posted \cup {0}]
        /\ \A t \in Timer : pc'[t] = "reply" => current'[t] # 0
    BY <2>1
  <2>6. /\ queue' \in Seq(Comment) /\ Len(queue') <= MaxQueue
        /\ known' = {} /\ timers' = 0 /\ live' = {} /\ handle' = 0 /\ errors' = 0
        /\ UNCHANGED <<posted, doubled, saved, queued, failures>>
    BY <2>1
  <2>7. ready' \in BOOLEAN /\ session' \in BOOLEAN /\ enabled' \in BOOLEAN
    BY <2>1
  <2>8. timers' \in 0..MaxTimers /\ live' \subseteq 1..timers' /\ handle' \in live' \cup {0}
    BY <2>6
  <2> QED
    BY <2>3, <2>4, <2>5, <2>6, <2>7, <2>8
<1>7. ASSUME NEW t \in Timer, Tick(t) PROVE TypeOK'
  BY <1>7 DEF Tick
<1>8. ASSUME NEW t \in Timer, Fetched(t) PROVE TypeOK'
  BY <1>8, GoesOnType DEF Fetched
<1>9. ASSUME NEW t \in Timer, Replied(t) PROVE TypeOK'
  <2>1. current[t] \in Comment /\ batch[t] \in SUBSET posted
    BY <1>9 DEF Replied
  <2>2. /\ posted' = posted /\ GoesOn(t, batch[t], known')
        /\ queue' = Added(current[t])
        /\ known' = known \cup {current[t]}
        /\ acks' = [acks EXCEPT ![current[t]] = @ + 1]
        /\ queued' = [queued EXCEPT ![current[t]] = @ + 1]
        /\ UNCHANGED <<timers, live, handle, ready, enabled, session, doubled, saved,
                       failures, exits, losses>>
    BY <1>9 DEF Replied
  <2>3. /\ pc' \in [Timer -> {"idle", "fetch", "reply"}]
        /\ batch' \in [Timer -> SUBSET posted]
        /\ current' \in [Timer -> posted \cup {0}]
        /\ \A u \in Timer : pc'[u] = "reply" => current'[u] # 0
        /\ errors' \in Nat
    BY <2>1, <2>2, GoesOnType
  <2>4. queue' \in Seq(Comment) /\ Len(queue') <= MaxQueue
    BY <2>1, <2>2, AddedType
  <2>5. /\ known' \subseteq Comment
        /\ acks' \in [Comment -> Nat] /\ queued' \in [Comment -> Nat]
    BY <2>1, <2>2, CountedType
  <2> QED
    BY <2>2, <2>3, <2>4, <2>5
<1>10. ASSUME NEW t \in Timer, Fails(t) PROVE TypeOK'
  <2>1. /\ failures' \in 0..MaxFailures /\ errors' \in Nat
        /\ pc' = [pc EXCEPT ![t] = "idle"]
        /\ batch' = [batch EXCEPT ![t] = {}]
        /\ current' = [current EXCEPT ![t] = 0]
        /\ UNCHANGED <<posted, timers, live, handle, ready, enabled, session, doubled,
                       known, queue, saved, queued, exits, losses>>
    BY <1>10 DEF Fails
  <2>2. acks' \in [Comment -> Nat]
    BY <1>10 DEF Fails
  <2> QED
    BY <2>1, <2>2
<1>11. CASE Dequeue
  BY <1>11 DEF Dequeue
<1>12. CASE UNCHANGED vars
  BY <1>12
<1> QED
  BY <1>1, <1>2, <1>3, <1>4, <1>5, <1>6, <1>7, <1>8, <1>9, <1>10, <1>11, <1>12
  DEF Next

\* Every variable keeps its type.
THEOREM TypeCorrect == Spec => []TypeOK
  BY InitType, NextType, PTL DEF Spec

-----------------------------------------------------------------------------
(* No comment is handled twice.                                            *)

Idle(t) == pc[t] = "idle"

\* What a process remembers: nothing before it is initialized, all that was saved
\* after; and nothing was started as long as nothing was saved or is running.
SavedInv ==
  /\ session => ready
  /\ ~ready => live = {} /\ known = {} /\ \A t \in Timer : Idle(t)
  /\ ready /\ saved # NoFile => saved \subseteq known
  /\ saved = NoFile /\ handle = 0 => live = {} /\ known = {} /\ \A t \in Timer : Idle(t)

\* Without a second interval one poll runs at a time.
OneInv ==
  ~doubled =>
    /\ live \subseteq {handle}
    /\ \A t, u \in Timer : ~Idle(t) /\ ~Idle(u) => t = u
    /\ \A t \in Timer : pc[t] = "reply" => current[t] \notin known

\* A comment that has a task is remembered.
OnceInv ==
  ~doubled /\ losses = 0 =>
    \A c \in Comment : /\ queued[c] <= 1
                       /\ queued[c] > 0 => c \in IF ready THEN known ELSE saved

IInv == TypeOK /\ SavedInv /\ OneInv /\ OnceInv

LEMMA InitIInv == Init => IInv
<1> SUFFICES ASSUME Init PROVE IInv
  OBVIOUS
<1>1. TypeOK
  BY InitType
<1>2. SavedInv
  BY DEF Init, SavedInv, Idle
<1>3. OneInv
  BY DEF Init, OneInv, Idle
<1>4. OnceInv
  BY DEF Init, OnceInv
<1> QED
  BY <1>1, <1>2, <1>3, <1>4 DEF IInv

\* The loop touches its own poll only, and goes on to a comment that is not known.
LEMMA GoesOnPoll ==
  ASSUME TypeOK, NEW t \in Timer, NEW rest \in SUBSET posted, NEW rem, GoesOn(t, rest, rem)
  PROVE  /\ \A u \in Timer : u # t => pc'[u] = pc[u] /\ current'[u] = current[u]
         /\ pc'[t] \in {"idle", "reply"}
         /\ pc'[t] = "reply" => current'[t] \notin rem
<1> DEFINE new == rest \ rem
<1>1. pc \in [Timer -> {"idle", "fetch", "reply"}] /\ current \in [Timer -> posted \cup {0}]
  BY DEF TypeOK
<1>2. CASE new = {}
  <2>1. pc' = [pc EXCEPT ![t] = "idle"] /\ current' = [current EXCEPT ![t] = 0]
    BY <1>2 DEF GoesOn
  <2> QED
    BY <1>1, <2>1
<1>3. CASE new # {}
  <2>1. Least(new) \in new
    BY <1>3, LeastIsElement, ConstantsAssumption DEF TypeOK
  <2>2. pc' = [pc EXCEPT ![t] = "reply"] /\ current' = [current EXCEPT ![t] = Least(new)]
    BY <1>3 DEF GoesOn
  <2> QED
    BY <1>1, <2>1, <2>2
<1> QED
  BY <1>2, <1>3

\* A start that leaves one interval only was made when none ticked; then it adds
\* what was saved to what the process remembers.
LEMMA StartsAlone ==
  ASSUME IInv, NEW n \in {1, 2}, Starts(n)
  PROVE  /\ known' = Loaded /\ handle' # 0
         /\ doubled => doubled'
         /\ ~doubled' => /\ live = {} /\ live' = {handle'}
                         /\ handle = 0
<1> USE DEF IInv, TypeOK
<1>1. /\ timers \in Nat /\ timers + n \in 1..MaxTimers /\ live \subseteq 1..timers
      /\ handle' = timers + n /\ live' = live \cup (timers + 1)..(timers + n)
      /\ known' = Loaded
      /\ doubled' = (doubled \/ Cardinality(live') > 1)
  BY DEF Starts, Timer
<1>2. ASSUME ~doubled' PROVE live = {} /\ live' = {handle'}
  <2>1. live' \in SUBSET (1..(timers + n))
    BY <1>1
  <2>2. IsFiniteSet(live')
    <3>1. 1 \in Int /\ timers + n \in Int
      BY <1>1
    <3> QED
      BY <2>1, <3>1, FS_Interval, FS_Subset
  <2>3. Cardinality(live') \in Nat /\ ~(Cardinality(live') > 1)
    BY <1>1, <1>2, <2>2, FS_CardinalityType
  <2>4. timers + n \in live'
    BY <1>1
  <2>5. live' = {timers + n}
    BY <2>2, <2>3, <2>4, OnlyElement
  <2> QED
    BY <1>1, <2>5
<1> QED
  BY <1>1, <1>2

\* What a start does to the invariant, ready or not.
LEMMA StartsIInv ==
  ASSUME IInv, NEW n \in {1, 2}, Starts(n), TypeOK', ready',
         UNCHANGED <<poll, saved, queued, losses>>
  PROVE  SavedInv' /\ OneInv' /\ OnceInv'
<1> USE DEF IInv
<1>1. /\ known' = Loaded /\ handle' # 0
      /\ doubled => doubled'
      /\ ~doubled' => live = {} /\ live' = {handle'} /\ handle = 0
  BY StartsAlone
<1>2. UNCHANGED <<pc, current, saved, queued, losses>>
  BY DEF poll
<1>3. 0 \notin Comment
  BY ConstantsAssumption
<1>4. SavedInv'
  BY <1>1, <1>2 DEF SavedInv, Loaded
<1>5. ASSUME ~doubled' PROVE /\ ready => known' = known
                             /\ ~ready => saved = NoFile \/ known' = saved
                             /\ ~ready => \A t \in Timer : Idle(t)
  BY <1>1, <1>5 DEF SavedInv, Loaded
<1>6. ASSUME ~doubled' PROVE /\ live' \subseteq {handle'}
                             /\ \A t, u \in Timer : ~Idle(t)' /\ ~Idle(u)' => t = u
                             /\ \A t \in Timer : pc'[t] = "reply" => current'[t] \notin known'
  <2>1. ~doubled
    BY <1>1, <1>6
  <2>2. pc' = pc /\ current' = current
    BY <1>2
  <2>3. live' \subseteq {handle'}
    BY <1>1, <1>6
  <2>4. \A t, u \in Timer : ~Idle(t)' /\ ~Idle(u)' => t = u
    BY <2>1, <2>2 DEF OneInv, Idle
  <2>5. \A t \in Timer : pc[t] = "reply" => current[t] \notin known
    BY <2>1 DEF OneInv
  <2>6. CASE ready
    BY <1>5, <1>6, <2>2, <2>3, <2>4, <2>5, <2>6
  <2>7. CASE ~ready
    BY <1>5, <1>6, <2>2, <2>3, <2>4, <2>7 DEF Idle
  <2> QED
    BY <2>6, <2>7
<1>7. ASSUME ~doubled', losses' = 0
      PROVE  \A c \in Comment : /\ queued'[c] <= 1
                                /\ queued'[c] > 0 => c \in known'
  <2>1. ~doubled /\ losses = 0
    BY <1>1, <1>2, <1>7
  <2>2. \A c \in Comment : /\ queued[c] <= 1
                           /\ queued[c] > 0 => c \in IF ready THEN known ELSE saved
    BY <2>1 DEF OnceInv
  <2>3. \A c \in Comment : (c \in IF ready THEN known ELSE saved) => c \in known'
    BY <1>3, <1>5, <1>7 DEF NoFile
  <2> QED
    BY <1>2, <2>2, <2>3
<1> QED
  BY <1>4, <1>6, <1>7 DEF OneInv, OnceInv

\* A stop, of the session or of the user.
LEMMA StopsIInv ==
  ASSUME IInv, Stops, session,
         UNCHANGED <<ready, doubled, poll, known, queued, losses>>
  PROVE  SavedInv' /\ OneInv' /\ OnceInv'
<1> USE DEF IInv, Stops
<1>1. UNCHANGED <<pc, current, ready, doubled, known, queued, losses>>
  BY DEF poll
<1>2. NoFile # known
  BY ConstantsAssumption DEF NoFile, TypeOK
<1>3. SavedInv'
  BY <1>1, <1>2 DEF SavedInv
<1>4. OneInv'
  BY <1>1 DEF OneInv, Idle
<1>5. OnceInv'
  BY <1>1 DEF OnceInv, SavedInv
<1> QED
  BY <1>3, <1>4, <1>5

\* The process ends: either something is lost or all of it is in the file.
LEMMA ExitIInv == ASSUME IInv, Exit, TypeOK' PROVE SavedInv' /\ OneInv' /\ OnceInv'
<1> USE DEF IInv
<1>1. PICK A \in SUBSET {t \in Timer : pc[t] = "reply"} : Exit!(A)
  BY DEF Exit
<1>2. /\ ~ready' /\ ~session' /\ live' = {} /\ handle' = 0 /\ known' = {}
      /\ pc' = [t \in Timer |-> "idle"]
      /\ UNCHANGED <<doubled, saved, queued>>
  BY <1>1
<1>3. SavedInv'
  BY <1>2 DEF SavedInv, Idle
<1>4. OneInv'
  BY <1>2 DEF OneInv, Idle
<1>5. losses' = 0 => losses = 0 /\ known \subseteq saved
  BY <1>1 DEF TypeOK
<1>6. ready
  BY <1>1
<1>7. OnceInv'
  BY <1>2, <1>5, <1>6 DEF OnceInv
<1> QED
  BY <1>3, <1>4, <1>7

\* The steps of a poll.
LEMMA TickIInv ==
  ASSUME IInv, NEW t \in Timer, Tick(t) PROVE SavedInv' /\ OneInv' /\ OnceInv'
<1> USE DEF IInv
<1>1. /\ t \in live /\ \A u \in Timer \ live : Idle(u)
      /\ pc' = [pc EXCEPT ![t] = "fetch"]
      /\ UNCHANGED <<live, handle, ready, session, doubled, current, known, saved, queued,
                     losses>>
  BY DEF Tick, Idle, bounds, config
<1>2. SavedInv'
  BY <1>1 DEF SavedInv
<1>3. ASSUME ~doubled PROVE \A u \in Timer : u # t => Idle(u)
  BY <1>1, <1>3 DEF OneInv
<1>4. pc \in [Timer -> {"idle", "fetch", "reply"}]
  BY DEF TypeOK
<1>5. OneInv'
  BY <1>1, <1>3, <1>4 DEF OneInv, Idle
<1>6. OnceInv'
  BY <1>1 DEF OnceInv
<1> QED
  BY <1>2, <1>5, <1>6

LEMMA FetchedIInv ==
  ASSUME IInv, NEW t \in Timer, Fetched(t) PROVE SavedInv' /\ OneInv' /\ OnceInv'
<1> USE DEF IInv
<1>1. /\ pc[t] = "fetch"
      /\ UNCHANGED <<live, handle, ready, session, doubled, known, saved, queued, losses>>
  BY DEF Fetched, bounds, config
<1>2. /\ \A u \in Timer : u # t => pc'[u] = pc[u] /\ current'[u] = current[u]
      /\ pc'[t] = "reply" => current'[t] \notin known
  BY GoesOnPoll DEF Fetched, TypeOK
<1>3. SavedInv'
  BY <1>1, <1>2 DEF SavedInv, Idle
<1>4. OneInv'
  BY <1>1, <1>2 DEF OneInv, Idle
<1>5. OnceInv'
  BY <1>1 DEF OnceInv
<1> QED
  BY <1>3, <1>4, <1>5

LEMMA RepliedIInv ==
  ASSUME IInv, NEW t \in Timer, Replied(t) PROVE SavedInv' /\ OneInv' /\ OnceInv'
<1> USE DEF IInv
<1> DEFINE c == current[t]
<1>1. /\ pc[t] = "reply"
      /\ known' = known \cup {c}
      /\ queued' = [queued EXCEPT ![c] = @ + 1]
      /\ UNCHANGED <<live, handle, ready, session, doubled, saved, losses>>
  BY DEF Replied, bounds, config
<1>2. /\ \A u \in Timer : u # t => pc'[u] = pc[u] /\ current'[u] = current[u]
      /\ pc'[t] = "reply" => current'[t] \notin known'
  <2>1. batch[t] \in SUBSET posted
    BY DEF TypeOK
  <2> QED
    BY <2>1, GoesOnPoll DEF Replied
<1>3. ready /\ ~(saved = NoFile /\ handle = 0)
  BY <1>1 DEF SavedInv, Idle
<1>4. SavedInv'
  BY <1>1, <1>3 DEF SavedInv
<1>5. ~doubled => \A u \in Timer : u # t => Idle(u)
  BY <1>1 DEF OneInv, Idle
<1>6. OneInv'
  BY <1>1, <1>2, <1>5 DEF OneInv, Idle
<1>7. queued \in [Comment -> Nat] /\ c \in Comment
  BY <1>1 DEF TypeOK
<1>8. ASSUME ~doubled, losses = 0
      PROVE  \A d \in Comment : /\ queued'[d] <= 1
                                /\ queued'[d] > 0 => d \in known'
  <2>1. \A d \in Comment : queued[d] <= 1 /\ (queued[d] > 0 => d \in known)
    BY <1>3, <1>8 DEF OnceInv
  <2>2. c \notin known
    BY <1>1, <1>8 DEF OneInv
  <2>3. queued[c] = 0
    BY <1>7, <2>1, <2>2
  <2> HIDE DEF c
  <2> QED
    BY <1>1, <1>7, <2>1, <2>3
<1>9. OnceInv'
  BY <1>1, <1>3, <1>8 DEF OnceInv
<1> QED
  BY <1>4, <1>6, <1>9

LEMMA FailsIInv ==
  ASSUME IInv, NEW t \in Timer, Fails(t) PROVE SavedInv' /\ OneInv' /\ OnceInv'
<1> USE DEF IInv
<1>1. /\ pc[t] # "idle"
      /\ pc' = [pc EXCEPT ![t] = "idle"] /\ current' = [current EXCEPT ![t] = 0]
      /\ UNCHANGED <<live, handle, ready, session, doubled, known, saved, queued, losses>>
  BY DEF Fails, config
<1>2. /\ \A u \in Timer : u # t => pc'[u] = pc[u] /\ current'[u] = current[u]
      /\ pc'[t] = "idle"
  BY <1>1 DEF TypeOK
<1>3. SavedInv'
  BY <1>1, <1>2 DEF SavedInv, Idle
<1>4. OneInv'
  BY <1>1, <1>2 DEF OneInv, Idle
<1>5. OnceInv'
  BY <1>1 DEF OnceInv
<1> QED
  BY <1>3, <1>4, <1>5

LEMMA NextIInv == IInv /\ [Next]_vars => IInv'
<1> SUFFICES ASSUME IInv, [Next]_vars PROVE IInv'
  OBVIOUS
<1>0. TypeOK /\ TypeOK' /\ SavedInv /\ OneInv /\ OnceInv
  BY NextType DEF IInv
<1> SUFFICES SavedInv' /\ OneInv' /\ OnceInv'
  BY <1>0 DEF IInv
<1>1. ASSUME UNCHANGED <<poll, live, handle, config, doubled, known, saved, queued, losses>>
      PROVE  SavedInv' /\ OneInv' /\ OnceInv'
  BY <1>0, <1>1 DEF poll, config, SavedInv, OneInv, OnceInv, Idle
<1>2. ASSUME NEW c \in Comment, Post(c) PROVE SavedInv' /\ OneInv' /\ OnceInv'
  BY <1>1, <1>2 DEF Post, bounds
<1>3. CASE SessionStart
  <2>1. CASE enabled
    BY <1>0, <1>3, <2>1, StartsIInv DEF SessionStart, bounds
  <2>2. CASE ~enabled
    <3>1. /\ ready' /\ known' = IF ready THEN known ELSE Loaded
          /\ UNCHANGED <<live, handle, doubled, pc, current, saved, queued, losses>>
      BY <1>3, <2>2 DEF SessionStart, poll, bounds
    <3>2. CASE ready
      BY <1>0, <3>1, <3>2 DEF SavedInv, OneInv, OnceInv, Idle
    <3>3. CASE ~ready
      <4>1. /\ live = {} /\ known = {} /\ handle = 0 /\ \A t \in Timer : Idle(t)
            /\ known' = IF saved = NoFile THEN {} ELSE saved
        BY <1>0, <3>1, <3>3 DEF SavedInv, Loaded, TypeOK
      <4>2. SavedInv'
        BY <3>1, <4>1 DEF SavedInv, Idle
      <4>3. OneInv'
        BY <3>1, <4>1 DEF OneInv, Idle
      <4>4. \A c \in Comment : c \in saved => c \in known'
        BY <4>1, ConstantsAssumption DEF NoFile
      <4>5. OnceInv'
        BY <1>0, <3>1, <3>3, <4>4 DEF OnceInv
      <4> QED
        BY <4>2, <4>3, <4>5
    <3> QED
      BY <3>2, <3>3
  <2> QED
    BY <2>1, <2>2
<1>4. CASE SessionEnd
  <2>1. CASE Running
    BY <1>4, <2>1, StopsIInv DEF SessionEnd, poll, bounds
  <2>2. CASE ~Running
    BY <1>0, <1>4, <2>2 DEF SessionEnd, poll, bounds, SavedInv, OneInv, OnceInv, Idle
  <2> QED
    BY <2>1, <2>2
<1>5. CASE Enable
  BY <1>0, <1>5, StartsIInv DEF Enable, SavedInv, bounds
<1>6. CASE Disable
  BY <1>6, StopsIInv DEF Disable, bounds
<1>7. CASE Exit
  BY <1>0, <1>7, ExitIInv
<1>8. ASSUME NEW t \in Timer, Tick(t) \/ Fetched(t) \/ Replied(t) \/ Fails(t)
      PROVE  SavedInv' /\ OneInv' /\ OnceInv'
  BY <1>8, TickIInv, FetchedIInv, RepliedIInv, FailsIInv
<1>9. CASE Dequeue
  BY <1>1, <1>9 DEF Dequeue, bounds
<1>10. CASE UNCHANGED vars
  BY <1>1, <1>10 DEF vars, bounds
<1> QED
  BY <1>2, <1>3, <1>4, <1>5, <1>6, <1>7, <1>8, <1>9, <1>10 DEF Next

\* A comment is handled twice only after a process was lost, or when an interval
\* was set while another one ticked.
THEOREM CommentsAreHandledOnce == Spec => []HandledOnce
<1>1. IInv => HandledOnce
  BY DEF IInv, TypeOK, OnceInv, HandledOnce
<1> QED
  BY <1>1, InitIInv, NextIInv, PTL DEF Spec

\* Unless an interval was set while another one ticked, a poll starts only while
\* the agent runs.
THEOREM StoppedAgentIsQuiet == Spec => StoppedIsQuiet
<1>1. ASSUME IInv, [Next]_vars, NEW t \in Timer, pc[t] = "idle", pc'[t] = "fetch"
      PROVE  Running \/ doubled
  <2> USE <1>1 DEF IInv, TypeOK
  <2>1. \A u \in Timer : ~Replied(u) /\ ~Fetched(u)
    <3> SUFFICES ASSUME NEW u \in Timer, Replied(u) \/ Fetched(u) PROVE FALSE
      OBVIOUS
    <3>1. \E rest \in SUBSET posted : \E rem : GoesOn(u, rest, rem)
      BY DEF Replied, Fetched
    <3>2. (u # t => pc'[t] = pc[t]) /\ pc'[u] \in {"idle", "reply"}
      BY <3>1, GoesOnPoll
    <3> QED
      BY <3>2
  <2>2. \A u \in Timer : ~Fails(u)
    BY DEF Fails
  <2>3. ~Exit
    BY DEF Exit
  <2>4. \E u \in Timer : Tick(u)
    BY <2>1, <2>2, <2>3
    DEF Next, vars, poll, Post, SessionStart, SessionEnd, Enable, Disable, Dequeue
  <2>5. t \in live
    BY <2>4 DEF Tick
  <2> QED
    BY <2>5 DEF OneInv, Running, Timer
<1>2. IInv /\ [Next]_vars =>
        \A t \in Timer : pc[t] = "idle" /\ pc'[t] = "fetch" => Running \/ doubled
  BY <1>1
<1> QED
  BY <1>2, InitIInv, NextIInv, PTL DEF Spec, StoppedIsQuiet

-----------------------------------------------------------------------------
(* The replies to a comment.                                               *)

\* Where a comment is remembered: in memory once the process is ready.
Remembered(c) == c \in IF ready THEN known ELSE saved

\* The reply to a comment that is not remembered is accounted for by a call that
\* failed or a process that was lost.
AckInv ==
  ~doubled =>
    \A c \in Comment : acks[c] <= losses + failures + (IF Remembered(c) THEN 1 ELSE 0)

LEMMA InitAckInv == Init => AckInv
<1> SUFFICES ASSUME Init PROVE AckInv
  OBVIOUS
<1>1. \A c \in Comment : acks[c] = 0 /\ losses = 0 /\ failures = 0
  BY DEF Init
<1> QED
  BY <1>1 DEF AckInv

\* What neither replies nor forgets keeps the account.
LEMMA NoReplyAckInv ==
  ASSUME IInv, AckInv, UNCHANGED <<acks, losses, failures>>, doubled => doubled',
         \A c \in Comment : ~doubled' /\ Remembered(c) => Remembered(c)'
  PROVE  AckInv'
<1>1. acks \in [Comment -> Nat] /\ losses \in Nat /\ failures \in Nat
  BY ConstantsAssumption DEF IInv, TypeOK
<1> QED
  BY <1>1 DEF AckInv

\* A start forgets nothing.
LEMMA StartsRemember ==
  ASSUME IInv, NEW n \in {1, 2}, Starts(n), ready', UNCHANGED saved, NEW c \in Comment,
         ~doubled', Remembered(c)
  PROVE  Remembered(c)'
<1> USE DEF IInv
<1>1. known' = Loaded /\ handle = 0
  BY StartsAlone
<1>2. 0 \notin Comment
  BY ConstantsAssumption
<1> QED
  BY <1>1, <1>2 DEF Remembered, Loaded, SavedInv, NoFile

LEMMA RepliedAckInv ==
  ASSUME IInv, AckInv, NEW t \in Timer, Replied(t)
  PROVE  AckInv'
<1> USE DEF IInv
<1> DEFINE c == current[t]
<1>1. /\ pc[t] = "reply" /\ acks' = [acks EXCEPT ![c] = @ + 1] /\ known' = known \cup {c}
      /\ UNCHANGED <<ready, doubled, saved, losses, failures>>
  BY DEF Replied, bounds, config
<1>2. ready
  BY <1>1 DEF SavedInv, Idle
<1>3. acks \in [Comment -> Nat] /\ losses \in Nat /\ failures \in Nat /\ c \in Comment
  <2>1. losses \in Nat /\ failures \in Nat
    BY ConstantsAssumption DEF TypeOK
  <2>2. acks \in [Comment -> Nat] /\ c \in Comment
    BY <1>1 DEF TypeOK
  <2> QED
    BY <2>1, <2>2
<1>4. ~doubled => c \notin known
  BY <1>1 DEF OneInv
<1> HIDE DEF c
<1>5. ASSUME ~doubled', NEW d \in Comment
      PROVE  acks'[d] <= losses' + failures' + (IF Remembered(d)' THEN 1 ELSE 0)
  <2>1. acks[d] <= losses + failures + (IF d \in known THEN 1 ELSE 0)
    BY <1>1, <1>2, <1>5 DEF AckInv, Remembered
  <2>2. Remembered(d)' <=> d \in known'
    BY <1>1, <1>2 DEF Remembered
  <2>3. CASE d = c
    BY <1>1, <1>3, <1>4, <1>5, <2>1, <2>2, <2>3
  <2>4. CASE d # c
    BY <1>1, <1>3, <2>1, <2>2, <2>4
  <2> QED
    BY <2>3, <2>4
<1> QED
  BY <1>5 DEF AckInv

LEMMA FailsAckInv ==
  ASSUME IInv, AckInv, NEW t \in Timer, Fails(t)
  PROVE  AckInv'
<1>1. /\ failures' = failures + 1 /\ UNCHANGED <<ready, doubled, known, saved, losses>>
      /\ \/ acks' = acks
         \/ acks' = [acks EXCEPT ![current[t]] = @ + 1]
  BY DEF Fails, config
<1>2. acks \in [Comment -> Nat] /\ losses \in Nat /\ failures \in Nat
  BY ConstantsAssumption DEF IInv, TypeOK
<1>3. \A d \in Comment : acks'[d] <= acks[d] + 1
  BY <1>1, <1>2
<1>4. \A d \in Comment : Remembered(d)' <=> Remembered(d)
  BY <1>1 DEF Remembered
<1>5. \A d \in Comment : acks'[d] \in Nat
  BY <1>1, <1>2
<1> QED
  BY <1>1, <1>2, <1>3, <1>4, <1>5 DEF AckInv

\* A process that ends may have sent the one reply it was about, and is lost then.
LEMMA ExitAckInv ==
  ASSUME IInv, AckInv, Exit
  PROVE  AckInv'
<1> USE DEF IInv
<1>1. PICK A \in SUBSET {t \in Timer : pc[t] = "reply"} : Exit!(A)
  BY DEF Exit
<1> DEFINE Sent(c) == {t \in A : current[t] = c}
<1>2. /\ ready /\ ~ready'
      /\ losses' = losses + (IF known \subseteq saved /\ A = {} THEN 0 ELSE 1)
      /\ acks' = [c \in Comment |-> acks[c] + Cardinality(Sent(c))]
      /\ UNCHANGED <<doubled, saved, failures>>
  BY <1>1
<1>3. acks \in [Comment -> Nat] /\ losses \in Nat /\ failures \in Nat
  BY ConstantsAssumption DEF TypeOK
<1>4. ASSUME ~doubled', NEW c \in Comment
      PROVE  acks'[c] <= losses' + failures' + (IF Remembered(c)' THEN 1 ELSE 0)
  <2>1. ~doubled
    BY <1>2, <1>4
  <2>2. acks[c] <= losses + failures + (IF c \in known THEN 1 ELSE 0)
    BY <1>2, <2>1 DEF AckInv, Remembered
  <2>3. CASE Sent(c) = {}
    <3>1. acks'[c] = acks[c]
      BY <1>2, <1>3, <2>3, FS_EmptySet
    <3>2. CASE known \subseteq saved /\ A = {}
      BY <1>2, <1>3, <2>2, <3>1, <3>2 DEF Remembered
    <3>3. CASE ~(known \subseteq saved /\ A = {})
      BY <1>2, <1>3, <2>2, <3>1, <3>3
    <3> QED
      BY <3>2, <3>3
  <2>4. CASE Sent(c) # {}
    <3>1. PICK t \in A : current[t] = c
      BY <2>4
    <3>2. t \in Timer /\ pc[t] = "reply"
      BY <1>1
    <3>3. \A u \in A : u = t
      BY <2>1, <3>2 DEF OneInv, Idle
    <3>4. Sent(c) = {t}
      BY <3>1, <3>3
    <3>5. Cardinality(Sent(c)) = 1
      BY <3>4, FS_Singleton
    <3>6. c \notin known
      BY <2>1, <3>1, <3>2 DEF OneInv
    <3>7. A # {}
      BY <3>1
    <3> HIDE DEF Sent
    <3> QED
      BY <1>2, <1>3, <2>2, <3>5, <3>6, <3>7
  <2> QED
    BY <2>3, <2>4
<1> QED
  BY <1>4 DEF AckInv

LEMMA NextAckInv == IInv /\ AckInv /\ [Next]_vars => AckInv'
<1> SUFFICES ASSUME IInv, AckInv, [Next]_vars PROVE AckInv'
  OBVIOUS
<1>1. ASSUME UNCHANGED <<acks, losses, failures, ready, known, saved, doubled>> PROVE AckInv'
  BY <1>1 DEF AckInv, Remembered
<1>2. ASSUME NEW c \in Comment, Post(c) PROVE AckInv'
  BY <1>1, <1>2 DEF Post, bounds, config
<1>3. CASE SessionStart
  <2>1. UNCHANGED <<acks, losses, failures, saved>> /\ ready'
    BY <1>3 DEF SessionStart, bounds
  <2>2. CASE enabled
    <3>1. PICK n \in {1, 2} : Starts(n)
      BY <1>3, <2>2 DEF SessionStart
    <3>2. doubled => doubled'
      BY <3>1 DEF Starts
    <3> QED
      BY <2>1, <3>1, <3>2, NoReplyAckInv, StartsRemember
  <2>3. CASE ~enabled
    <3>1. known' = (IF ready THEN known ELSE Loaded) /\ UNCHANGED doubled
      BY <1>3, <2>3 DEF SessionStart
    <3>2. \A c \in Comment : Remembered(c) => Remembered(c)'
      BY <2>1, <3>1, ConstantsAssumption DEF Remembered, Loaded, NoFile
    <3> QED
      BY <2>1, <3>1, <3>2, NoReplyAckInv
  <2> QED
    BY <2>2, <2>3
<1>4. CASE SessionEnd \/ Disable
  <2>1. UNCHANGED <<acks, losses, failures, ready, known, doubled>> /\ ready
    BY <1>4 DEF SessionEnd, Disable, bounds, IInv, SavedInv
  <2>2. \A c \in Comment : Remembered(c) => Remembered(c)'
    BY <2>1 DEF Remembered
  <2> QED
    BY <2>1, <2>2, NoReplyAckInv
<1>5. CASE Enable
  <2>1. /\ UNCHANGED <<acks, losses, failures, saved>> /\ ready' /\ Starts(1)
        /\ doubled => doubled'
    BY <1>5 DEF Enable, bounds, IInv, SavedInv, Starts
  <2> QED
    BY <2>1, NoReplyAckInv, StartsRemember
<1>6. CASE Exit
  BY <1>6, ExitAckInv
<1>7. ASSUME NEW t \in Timer, Tick(t) \/ Fetched(t) PROVE AckInv'
  BY <1>1, <1>7 DEF Tick, Fetched, GoesOn, bounds, config
<1>8. ASSUME NEW t \in Timer, Replied(t) \/ Fails(t) PROVE AckInv'
  BY <1>8, RepliedAckInv, FailsAckInv
<1>9. CASE Dequeue
  BY <1>1, <1>9 DEF Dequeue, bounds, config
<1>10. CASE UNCHANGED vars
  BY <1>1, <1>10 DEF vars, bounds, config
<1> QED
  BY <1>2, <1>3, <1>4, <1>5, <1>6, <1>7, <1>8, <1>9, <1>10 DEF Next

\* A reviewer is told once that a comment is being addressed, and again only for a
\* call that failed, a process that was lost or a second interval: a reply is sent
\* only to a comment that is remembered nowhere (processChangeRequest).
THEOREM RepliesAreBounded == Spec => []AckedOnce
<1>1. IInv /\ AckInv => AckedOnce
  <2> SUFFICES ASSUME IInv, AckInv, NEW c \in Comment, ~doubled
               PROVE  acks[c] <= 1 + losses + failures
    BY DEF AckedOnce
  <2>1. acks[c] \in Nat /\ losses \in Nat /\ failures \in Nat
    BY ConstantsAssumption DEF IInv, TypeOK
  <2> QED
    BY <2>1 DEF AckInv
<1> QED
  BY <1>1, InitIInv, NextIInv, InitAckInv, NextAckInv, PTL DEF Spec
=============================================================================
