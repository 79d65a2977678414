------------------------- MODULE DockerStageProofs --------------------------
(***************************************************************************)
(* What run_stage promises of a daemon that it does not control, whatever  *)
(* commands are cut off, fail, or take effect after their client is gone.  *)
(***************************************************************************)
EXTENDS DockerStage, SequenceTheorems, WellFoundedInduction, TLAPS

-----------------------------------------------------------------------------
(* Lists of containers *)

(* A set of positions has a first one. *)
LEMMA FirstPosition ==
    ASSUME NEW I \in SUBSET Nat, I # {}
    PROVE  Min(I) \in I
<1> DEFINE R == OpToRel(<, Nat)
<1>1. IsWellFoundedOn(R, Nat)
  BY NatLessThanWellFounded
<1>2. \A y, x \in Nat : <<y, x>> \in R <=> y < x
  BY DEF OpToRel
<1> HIDE DEF R
<1>3. PICK x \in I : \A y \in I : ~(<<y, x>> \in R)
  BY <1>1, WFMin
<1>4. \A y \in I : x =< y
  <2> SUFFICES ASSUME NEW y \in I PROVE x =< y
    OBVIOUS
  <2>1. x \in Nat /\ y \in Nat
    OBVIOUS
  <2>2. ~(y < x)
    BY <1>2, <1>3, <2>1
  <2> QED BY <2>1, <2>2
<1> QED BY <1>4 DEF Min

(* list.remove takes out one occurrence of the name and nothing else. *)
LEMMA RemovedFrom ==
    ASSUME NEW s \in Seq(Containers), NEW n
    PROVE  /\ RemoveFirst(s, n) \in Seq(Containers)
           /\ \A m : Contains(s, m) /\ m # n => Contains(RemoveFirst(s, n), m)
<1>1. CASE ~\E i \in 1 .. Len(s) : s[i] = n
  BY <1>1 DEF RemoveFirst
<1>2. CASE \E i \in 1 .. Len(s) : s[i] = n
  <2> DEFINE I == { i \in 1 .. Len(s) : s[i] = n }
             k == Min(I)
  <2>1. k \in I
    <3>1. I # {} /\ I \subseteq Nat
      BY <1>2
    <3> QED BY <3>1, FirstPosition
  <2>2. RemoveFirst(s, n) = RemoveAt(s, k)
    BY <1>2 DEF RemoveFirst, SelectInSeq
  <2> HIDE DEF k
  <2>3. k \in 1 .. Len(s) /\ s[k] = n
    BY <2>1
  <2> DEFINE a == SubSeq(s, 1, k - 1)
             b == SubSeq(s, k + 1, Len(s))
  <2>4. /\ a \in Seq(Containers) /\ Len(a) = k - 1
        /\ \A i \in 1 .. k - 1 : a[i] = s[i]
    BY <2>3
  <2>5. /\ b \in Seq(Containers) /\ Len(b) = Len(s) - k
        /\ \A i \in 1 .. Len(s) - k : b[i] = s[k + i]
    BY <2>3
  <2>6. RemoveFirst(s, n) = a \o b
    BY <2>2 DEF RemoveAt
  <2> HIDE DEF a, b
  <2>7. ASSUME NEW m, Contains(s, m), m # n PROVE Contains(a \o b, m)
    <3>1. PICK i \in 1 .. Len(s) : s[i] = m
      BY <2>7 DEF Contains
    <3>2. CASE i < k
      <4>1. i \in 1 .. Len(a \o b) /\ (a \o b)[i] = m
        BY <2>3, <2>4, <2>5, <3>1, <3>2
      <4> QED BY <4>1 DEF Contains
    <3>3. CASE i > k
      <4>1. i - k \in 1 .. Len(s) - k /\ k + (i - k) = i
        BY <2>3, <3>1, <3>3
      <4>2. b[i - k] = m
        BY <2>5, <3>1, <4>1
      <4>3. i - 1 \in 1 .. Len(a \o b) /\ (i - 1) - Len(a) = i - k
        BY <2>3, <2>4, <2>5, <3>1, <3>3
      <4>4. (a \o b)[i - 1] = b[(i - 1) - Len(a)]
        BY <2>3, <2>4, <2>5, <3>1, <3>3
      <4>5. (a \o b)[i - 1] = m
        BY <4>2, <4>3, <4>4
      <4> QED BY <4>3, <4>5 DEF Contains
    <3> QED BY <2>3, <2>7, <3>1, <3>2, <3>3
  <2>8. a \o b \in Seq(Containers)
    BY <2>4, <2>5
  <2> QED BY <2>6, <2>7, <2>8
<1> QED BY <1>1, <1>2

(* The first of a list leaves the rest. *)
LEMMA TailOf ==
    ASSUME NEW s \in Seq(Containers), s # <<>>
    PROVE  Head(s) \in Containers /\ Tail(s) \in Seq(Containers)
  OBVIOUS

(* An empty list contains nothing. *)
LEMMA EmptyContains ==
    ASSUME NEW n
    PROVE  ~Contains(<<>>, n)
  BY DEF Contains

(* Appending a name lists it and keeps the others. *)
LEMMA AppendContains ==
    ASSUME NEW s \in Seq(Containers), NEW n \in Containers
    PROVE  /\ Append(s, n) \in Seq(Containers)
           /\ Contains(Append(s, n), n)
           /\ \A m : Contains(s, m) => Contains(Append(s, n), m)
<1>1. Len(Append(s, n)) = Len(s) + 1 /\ Append(s, n)[Len(s) + 1] = n
  OBVIOUS
<1>2. \A i \in 1 .. Len(s) : Append(s, n)[i] = s[i]
  OBVIOUS
<1> QED BY <1>1, <1>2 DEF Contains

(* A list in reverse. *)
LEMMA ReverseOf ==
    ASSUME NEW s \in Seq(Containers)
    PROVE  Reverse(s) \in Seq(Containers)
  BY DEF Reverse

-----------------------------------------------------------------------------
(* The invariant *)

(* Up to the start of the subject, a command that is cut off ends the stage. *)
Preparing ==
    {"inputs", "mkvolume", "createKeeper", "startKeeper", "createInitializer", "startInitializer",
     "inspectInitializer", "createSubject", "startSubject"}

Commands == {"create", "start", "kill", "rm", "mkvolume", "rmvolume"}

StageType ==
    /\ pc \in Preparing \cup {"killSubject", "inspectSubject", "report", "cleanup", "done"}
    /\ containers \in Seq(Containers) /\ todo \in Seq(Containers)
    /\ volumes \in BOOLEAN /\ terminated \in BOOLEAN /\ tree \in BOOLEAN /\ blocked \in BOOLEAN
    /\ raised \in {"none", "stage", "escaped"}
    /\ daemon \in [Containers -> {"absent", "created", "running", "exited"}]
    /\ volume \in BOOLEAN /\ late \in BOOLEAN
    /\ pending \subseteq Commands \X Containers

(* A container is not started before its creation was acknowledged. *)
PendingOK ==
    /\ pc \in Preparing => pending = {}
    /\ pc \notin {"cleanup", "done"} => \A n \in Containers : <<"create", n>> \notin pending
    /\ \A n \in Containers : ~(<<"create", n>> \in pending /\ <<"start", n>> \in pending)

(* Neither the container nor a command that is under way can become a       *)
(* process: it would have to be created and started.                        *)
Quiet(n) ==
    \/ daemon[n] = "absent" /\ <<"create", n>> \notin pending
    \/ daemon[n] \in {"absent", "created"} /\ <<"start", n>> \notin pending

(* What is started is listed, and what is not listed is quiet. *)
ListedOK ==
    /\ pc = "startKeeper" => Contains(containers, "keeper")
    /\ pc = "startInitializer" => Contains(containers, "initializer")
    /\ pc = "startSubject" => Contains(containers, "subject")
    /\ \A n \in Containers : ~Contains(containers, n) => Quiet(n)

(* The subject is started once: a start that is under way has not happened. *)
SubjectOK ==
    /\ pc = "startSubject" => daemon["subject"] = "created"
    /\ <<"start", "subject">> \in pending => daemon["subject"] \in {"absent", "created"}
    /\ terminated => /\ pc \in {"report", "cleanup", "done"}
                     /\ <<"start", "subject">> \notin pending /\ daemon["subject"] # "running"
    /\ tree => terminated /\ pc \in {"cleanup", "done"}
    /\ Reports /\ tree => containers = <<>> /\ ~volumes

(* What exists is owned, unless it came late. *)
OwnedOK ==
    /\ ~late => \A n \in Containers : daemon[n] # "absent" => Contains(containers, n)
    /\ ~late => (volume => volumes)
    /\ pc \in Preparing \ {"inputs", "mkvolume"} => volumes

(* A blocker is on its way before it is needed. *)
BlockedOK ==
    /\ pc = "killSubject" => blocked
    /\ pc = "report" /\ ~terminated => blocked
    /\ pc = "cleanup" /\ raised = "none" /\ (~tree \/ ~terminated) => blocked
    /\ Reports /\ (~tree \/ ~terminated \/ containers # <<>> \/ volumes) => blocked

StageInv == StageType /\ PendingOK /\ ListedOK /\ SubjectOK /\ OwnedOK /\ BlockedOK

(* A stage begins with nothing asked for and nothing there. *)
LEMMA StageInitial == StageInit => StageInv
<1> SUFFICES ASSUME StageInit PROVE StageInv
  OBVIOUS
<1>1. StageType
  <2>1. <<>> \in Seq(Containers)
    OBVIOUS
  <2> QED BY <2>1 DEF StageInit, StageType, Preparing
<1>2. PendingOK /\ ListedOK /\ SubjectOK /\ OwnedOK /\ BlockedOK
  BY DEF StageInit, PendingOK, ListedOK, Quiet, SubjectOK, OwnedOK, BlockedOK, Preparing, Reports,
         Done
<1> QED BY <1>1, <1>2 DEF StageInv

-----------------------------------------------------------------------------
(* The daemon *)

(* What a command of the stage may do to the daemon, at once or later. *)
Does(cmd, n, from, to) ==
    /\ late' = late
    /\ pending' \in {pending, pending \cup {<<cmd, n>>}}
    /\ \/ daemon' = daemon
       \/ daemon[n] \in from /\ daemon' = [daemon EXCEPT ![n] = to]

(* What each command of a cut-off client may have done. *)
LEMMA CreateDoes ==
    ASSUME StageType, NEW n \in Containers, CutOff("create", n)
    PROVE  Does("create", n, {"absent"}, "created") /\ volume' \in BOOLEAN
  BY DEF StageType, CutOff, Acknowledged, Legal, Effect, Does, daemonVars

LEMMA StartDoes ==
    ASSUME StageType, NEW n \in Containers, CutOff("start", n)
    PROVE  Does("start", n, {"created", "exited"}, "running") /\ volume' = volume
  BY DEF StageType, CutOff, Acknowledged, Legal, Effect, Does, daemonVars

LEMMA KillDoes ==
    ASSUME StageType, NEW n \in Containers, CutOff("kill", n)
    PROVE  Does("kill", n, {"running"}, "exited") /\ volume' = volume
  BY DEF StageType, CutOff, Acknowledged, Legal, Effect, Does, daemonVars

LEMMA RemoveDoes ==
    ASSUME StageType, NEW n \in Containers, CutOff("rm", n)
    PROVE  /\ Does("rm", n, {"absent", "created", "running", "exited"}, "absent")
           /\ volume' = volume
  BY DEF StageType, CutOff, Acknowledged, Legal, Effect, Does, daemonVars

LEMMA VolumeDoes ==
    ASSUME StageType, NEW cmd \in {"mkvolume", "rmvolume"}, NEW n \in Containers, CutOff(cmd, n)
    PROVE  Does(cmd, n, {}, "absent") /\ volume' \in BOOLEAN
  BY DEF StageType, CutOff, Acknowledged, Legal, Effect, Does, daemonVars

-----------------------------------------------------------------------------
(* The steps *)

(* cleanup begins, in the order opposite to the creations. *)
LEMMA CleanupBegins ==
    ASSUME NEW listed \in Seq(Containers), NEW e, ToCleanup(listed, e)
    PROVE  pc' = "cleanup" /\ containers' = listed /\ todo' \in Seq(Containers) /\ raised' = e
  BY ReverseOf DEF ToCleanup

(* Commands of containers that are not this one change nothing for it. *)
LEMMA QuietStays ==
    ASSUME NEW cmd, NEW n, NEW m \in Containers, m # n, NEW from, NEW to, Does(cmd, n, from, to),
           StageType, Quiet(m)
    PROVE  Quiet(m)'
  BY DEF Does, Quiet, StageType

(* Writing the inputs touches no container. *)
LEMMA InputsKeep ==
    ASSUME StageInv, StageInputs
    PROVE  StageInv'
<1> USE DEF StageInv, StageInputs, daemonVars, resultVars
<1>1. CASE pc' = "mkvolume" /\ UNCHANGED <<containers, todo, raised>>
  BY <1>1 DEF StageType, PendingOK, ListedOK, Quiet, SubjectOK, OwnedOK, BlockedOK, Preparing,
              Reports, Done
<1>2. ASSUME NEW e \in Exceptions, ToCleanup(containers, e) PROVE StageInv'
  <2>1. /\ pc' = "cleanup" /\ containers' = containers /\ todo' \in Seq(Containers)
        /\ raised' \in {"stage", "escaped"}
    BY <1>2, CleanupBegins DEF StageType, Exceptions
  <2> QED BY <2>1 DEF StageType, PendingOK, ListedOK, Quiet, SubjectOK, OwnedOK, BlockedOK,
                      Preparing, Reports, Done
<1> QED BY <1>1, <1>2

(* A container is listed, and then its creation is asked for. *)
LEMMA CreateKeeps ==
    ASSUME StageInv, NEW at \in {"createKeeper", "createInitializer", "createSubject"},
           NEW n \in Containers, CreateContainer(at, n),
           n = CASE at = "createKeeper" -> "keeper" [] at = "createInitializer" -> "initializer"
                 [] OTHER -> "subject"
    PROVE  StageInv'
<1> USE DEF StageInv
<1>1. /\ pc = at /\ pc \in Preparing /\ pending = {} /\ volumes /\ ~terminated /\ ~tree
      /\ UNCHANGED <<terminated, tree, blocked>> /\ volumes'
    BY DEF CreateContainer, PrepareCommand, Preparing, PendingOK, OwnedOK, SubjectOK, resultVars,
           StageType
<1>2. /\ Append(containers, n) \in Seq(Containers) /\ Contains(Append(containers, n), n)
      /\ \A m : Contains(containers, m) => Contains(Append(containers, n), m)
  BY AppendContains DEF StageType
<1>3. CutOff("create", n)
  BY DEF CreateContainer, PrepareCommand, CutOff
<1>4. Does("create", n, {"absent"}, "created") /\ volume' \in BOOLEAN
  BY <1>3, CreateDoes
<1>5. /\ containers' = Append(containers, n) /\ todo' \in Seq(Containers)
      /\ \/ /\ pc' = "cleanup" /\ raised' \in {"stage", "escaped"}
         \/ /\ pc' = AfterPrepare[at] /\ raised' = raised
            /\ Acknowledged("create", n)
  <2>1. CASE \E e \in Exceptions : ToCleanup(Append(containers, n), e)
    BY <1>2, <2>1, CleanupBegins DEF Exceptions
  <2> QED BY <2>1 DEF CreateContainer, PrepareCommand, StageType
<1>6. /\ pc' = AfterPrepare[at] =>
           pc' \in {"startKeeper", "createInitializer", "startInitializer", "startSubject"}
      /\ pc' = "startKeeper" => n = "keeper"
      /\ pc' = "startInitializer" => n = "initializer"
      /\ pc' = "startSubject" => n = "subject"
  BY <1>5 DEF AfterPrepare
<1>7. StageType'
  BY <1>1, <1>2, <1>4, <1>5, <1>6 DEF StageType, Does, Commands, Preparing
<1>8. PendingOK'
  BY <1>1, <1>4, <1>5, <1>6 DEF PendingOK, Does, Preparing, Acknowledged
<1>9. ListedOK'
  <2>1. ASSUME NEW m \in Containers, ~Contains(containers', m) PROVE Quiet(m)'
    BY <1>2, <1>4, <1>5, <2>1, QuietStays DEF ListedOK
  <2> QED BY <1>2, <1>5, <1>6, <2>1 DEF ListedOK
<1>10. SubjectOK'
  BY <1>1, <1>4, <1>5, <1>6 DEF SubjectOK, Does, Acknowledged, Legal, Effect, StageType, Reports,
                                Done
<1>11. OwnedOK'
  BY <1>1, <1>2, <1>4, <1>5 DEF OwnedOK, Does, StageType
<1>12. BlockedOK'
  BY <1>1, <1>5, <1>6 DEF BlockedOK, Reports, Done
<1> QED BY <1>7, <1>8, <1>9, <1>10, <1>11, <1>12

(* The workspace volume is made; the keeper and the initializer start. *)
LEMMA PrepareKeeps ==
    ASSUME StageInv, NEW at, NEW cmd, NEW n \in Containers, PrepareCommand(at, cmd, n),
           \/ at = "mkvolume" /\ cmd = "mkvolume"
           \/ at = "startKeeper" /\ cmd = "start" /\ n = "keeper"
           \/ at = "startInitializer" /\ cmd = "start" /\ n = "initializer"
    PROVE  StageInv'
<1> USE DEF StageInv
<1>1. /\ pc = at /\ pc \in Preparing /\ pending = {} /\ ~terminated /\ ~tree /\ cmd # "create"
      /\ UNCHANGED <<terminated, tree, blocked>> /\ volumes'
  BY DEF PrepareCommand, Preparing, PendingOK, OwnedOK, SubjectOK, resultVars, StageType
<1>2. CutOff(cmd, n)
  BY DEF PrepareCommand, CutOff
<1>3. /\ volume' \in BOOLEAN
      /\ \/ Does(cmd, n, {}, "absent") /\ cmd = "mkvolume"
         \/ Does(cmd, n, {"created", "exited"}, "running") /\ cmd = "start"
  BY <1>2, StartDoes, VolumeDoes DEF StageType
<1>4. /\ containers' = containers /\ todo' \in Seq(Containers)
      /\ \/ /\ pc' = "cleanup" /\ raised' \in {"stage", "escaped"}
         \/ pc' = AfterPrepare[at] /\ raised' = raised /\ pending' = pending
  <2>1. CASE \E e \in Exceptions : ToCleanup(containers, e)
    BY <2>1, CleanupBegins DEF Exceptions, StageType
  <2> QED BY <1>1, <2>1 DEF PrepareCommand, StageType, Acknowledged
<1>5. pc' = AfterPrepare[at] => pc' \in {"createKeeper", "createInitializer", "inspectInitializer"}
  BY <1>1 DEF AfterPrepare
<1>6. StageType'
  BY <1>1, <1>3, <1>4, <1>5 DEF StageType, Does, Commands, Preparing
<1>7. PendingOK'
  BY <1>1, <1>3, <1>4, <1>5 DEF PendingOK, Does, Preparing
<1>8. ListedOK'
  <2>1. ASSUME NEW m \in Containers, ~Contains(containers, m) PROVE Quiet(m)'
    <3>1. Quiet(m)
      BY <2>1 DEF ListedOK
    <3>2. CASE cmd = "mkvolume"
      BY <1>1, <1>3, <3>1, <3>2 DEF Does, Quiet
    <3>3. CASE cmd = "start"
      <4>1. m # n
        BY <1>1, <2>1, <3>3 DEF ListedOK
      <4> QED BY <1>3, <3>1, <3>3, <4>1, QuietStays
    <3> QED BY <1>3, <3>2, <3>3
  <2> QED BY <1>4, <1>5, <2>1 DEF ListedOK
<1>9. SubjectOK'
  BY <1>1, <1>3, <1>4, <1>5 DEF SubjectOK, Does, StageType, Reports, Done
<1>10. OwnedOK'
  BY <1>1, <1>3, <1>4 DEF OwnedOK, Does, StageType
<1>11. BlockedOK'
  BY <1>1, <1>4, <1>5 DEF BlockedOK, Reports, Done
<1> QED BY <1>6, <1>7, <1>8, <1>9, <1>10, <1>11

(* A look at the initializer only decides where the stage goes on. *)
LEMMA InspectInitializerKeeps ==
    ASSUME StageInv, InspectInitializer
    PROVE  StageInv'
<1> USE DEF StageInv, InspectInitializer, daemonVars, resultVars
<1>1. CASE pc' = "createSubject" /\ UNCHANGED <<containers, todo, raised>>
  BY <1>1 DEF StageType, PendingOK, ListedOK, Quiet, SubjectOK, OwnedOK, BlockedOK, Preparing,
              Reports, Done
<1>2. ASSUME NEW e \in Exceptions, ToCleanup(containers, e) PROVE StageInv'
  <2>1. /\ pc' = "cleanup" /\ containers' = containers /\ todo' \in Seq(Containers)
        /\ raised' \in {"stage", "escaped"}
    BY <1>2, CleanupBegins DEF StageType, Exceptions
  <2> QED BY <2>1 DEF StageType, PendingOK, ListedOK, Quiet, SubjectOK, OwnedOK, BlockedOK,
                      Preparing, Reports, Done
<1> QED BY <1>1, <1>2

(* The subject starts, and is killed. *)
LEMMA SubjectKeeps ==
    ASSUME StageInv, StartSubject \/ KillSubject
    PROVE  StageInv'
<1> USE DEF StageInv
<1>1. PICK cmd \in {"start", "kill"} :
        /\ CutOff(cmd, "subject")
        /\ \/ cmd = "start" /\ StartSubject
           \/ cmd = "kill" /\ KillSubject
  BY DEF StartSubject, KillSubject, CutOff
<1>2. /\ volume' = volume
      /\ \/ Does(cmd, "subject", {"created", "exited"}, "running") /\ cmd = "start"
         \/ Does(cmd, "subject", {"running"}, "exited") /\ cmd = "kill"
  BY <1>1, StartDoes, KillDoes DEF Containers
<1>3. /\ UNCHANGED <<volumes, terminated, tree, containers>> /\ ~terminated /\ ~tree
      /\ todo' \in Seq(Containers)
      /\ \/ pc' = "cleanup" /\ raised' = "escaped"
         \/ pc' \in {"killSubject", "inspectSubject", "report"} /\ raised' = raised
      /\ pc' \in {"killSubject", "report"} => blocked'
      /\ blocked' \in BOOLEAN
  <2>1. CASE ToCleanup(containers, "escaped")
    BY <1>1, <2>1, CleanupBegins DEF StartSubject, KillSubject, resultVars, SubjectOK, StageType
  <2>2. CASE StartSubject /\ ~ToCleanup(containers, "escaped")
    <3>1. /\ UNCHANGED <<volumes, terminated, tree, containers, todo, raised>>
          /\ pc = "startSubject" /\ pc' \in {"killSubject", "inspectSubject", "report"}
      BY <2>2 DEF StartSubject
    <3>2. /\ pc' \in {"killSubject", "report"} => blocked'
          /\ blocked' \in BOOLEAN
      BY <2>2 DEF StartSubject
    <3> QED BY <3>1, <3>2 DEF SubjectOK, StageType
  <2>3. CASE KillSubject /\ ~ToCleanup(containers, "escaped")
    <3>1. /\ UNCHANGED <<volumes, terminated, tree, blocked, containers, todo, raised>>
          /\ pc = "killSubject" /\ pc' \in {"inspectSubject", "report"}
      BY <2>3 DEF KillSubject, resultVars
    <3> QED BY <3>1 DEF SubjectOK, StageType, BlockedOK
  <2> QED BY <1>1, <2>1, <2>2, <2>3
<1>4. /\ pc \in {"startSubject", "killSubject"}
      /\ \A n \in Containers : <<"create", n>> \notin pending
      /\ cmd = "start" => pending = {} /\ Contains(containers, "subject")
                          /\ daemon["subject"] = "created"
  BY <1>1 DEF StartSubject, KillSubject, PendingOK, ListedOK, SubjectOK, Preparing
<1>5. StageType'
  BY <1>2, <1>3 DEF StageType, Does, Commands, Containers, Preparing
<1>6. PendingOK'
  BY <1>2, <1>3, <1>4 DEF PendingOK, Does, Preparing
<1>7. ListedOK'
  <2>1. ASSUME NEW m \in Containers, ~Contains(containers, m) PROVE Quiet(m)'
    <3>1. Quiet(m)
      BY <2>1 DEF ListedOK
    <3>2. CASE m = "subject"
      BY <1>2, <1>4, <2>1, <3>1, <3>2 DEF Does, Quiet, StageType
    <3>3. CASE m # "subject"
      BY <1>2, <3>1, <3>3, QuietStays
    <3> QED BY <3>2, <3>3
  <2> QED BY <1>3, <2>1 DEF ListedOK
<1>8. SubjectOK'
  BY <1>1, <1>2, <1>3, <1>4, CutOff(cmd, "subject")
     DEF SubjectOK, Does, StageType, Reports, Done, CutOff, Acknowledged, Effect, Legal, daemonVars,
         Containers
<1>9. OwnedOK'
  BY <1>2, <1>3, <1>4 DEF OwnedOK, Does, StageType, Preparing
<1>10. BlockedOK'
  BY <1>3 DEF BlockedOK, Reports, Done
<1> QED BY <1>5, <1>6, <1>7, <1>8, <1>9, <1>10

(* What inspect saw of the subject. *)
LEMMA InspectSubjectKeeps ==
    ASSUME StageInv, InspectSubject
    PROVE  StageInv'
<1> USE DEF StageInv
<1>1. /\ pc = "inspectSubject" /\ UNCHANGED <<volumes, tree, daemon, volume, pending, late>>
      /\ ~terminated /\ ~tree
  BY DEF InspectSubject, daemonVars, SubjectOK
<1>2. CASE ToCleanup(containers, "escaped") /\ UNCHANGED <<terminated, blocked>>
  <2>1. /\ pc' = "cleanup" /\ containers' = containers /\ todo' \in Seq(Containers)
        /\ raised' = "escaped"
    BY <1>2, CleanupBegins DEF StageType
  <2> QED BY <1>1, <1>2, <2>1 DEF StageType, PendingOK, ListedOK, Quiet, SubjectOK, OwnedOK,
                                  BlockedOK, Preparing, Reports, Done
<1>3. CASE pc' = "report" /\ UNCHANGED <<containers, todo, raised>>
  <2>1. /\ terminated' \in BOOLEAN /\ blocked' \in BOOLEAN
        /\ terminated' => daemon["subject"] = "exited"
        /\ ~terminated' => blocked'
    <3>1. CASE /\ terminated' = (daemon["subject"] = "exited")
               /\ blocked' \in {TRUE, blocked \/ ~terminated'}
      BY <3>1 DEF StageType
    <3>2. CASE blocked' = TRUE /\ UNCHANGED terminated
      BY <1>1, <3>2 DEF StageType
    <3> QED BY <1>3, <3>1, <3>2 DEF InspectSubject, ToCleanup
  <2>2. StageType'
    BY <1>1, <1>3, <2>1 DEF StageType, Preparing
  <2>3. PendingOK' /\ ListedOK' /\ OwnedOK'
    BY <1>1, <1>3 DEF PendingOK, ListedOK, Quiet, OwnedOK, Preparing
  <2>4. SubjectOK'
    BY <1>1, <1>3, <2>1 DEF SubjectOK, Reports, Done
  <2>5. BlockedOK'
    BY <1>3, <2>1 DEF BlockedOK, Reports, Done
  <2> QED BY <2>2, <2>3, <2>4, <2>5
<1> QED BY <1>2, <1>3 DEF InspectSubject

(* The workspace is captured, or not. *)
LEMMA SnapshotKeeps ==
    ASSUME StageInv, Snapshot
    PROVE  StageInv'
<1> USE DEF StageInv
<1>1. /\ pc = "report" /\ UNCHANGED <<volumes, terminated, daemon, volume, pending, late>>
  BY DEF Snapshot, daemonVars
<1>2. PICK e \in {raised, "escaped"} : ToCleanup(containers, e)
  BY DEF Snapshot
<1>3. /\ pc' = "cleanup" /\ containers' = containers /\ todo' \in Seq(Containers)
      /\ raised' \in {"none", "stage", "escaped"}
  BY <1>2, CleanupBegins DEF StageType
<1>4. /\ tree' \in BOOLEAN /\ blocked' \in BOOLEAN /\ (tree' => terminated)
      /\ raised' = "none" /\ (~tree' \/ ~terminated) => blocked'
  <2>1. CASE ~terminated /\ UNCHANGED <<tree, blocked>>
    BY <1>1, <2>1 DEF StageType, SubjectOK, BlockedOK
  <2>2. CASE terminated /\ tree' = TRUE /\ UNCHANGED blocked
    BY <2>2 DEF StageType
  <2>3. CASE terminated /\ blocked' = TRUE /\ UNCHANGED tree
    BY <2>3 DEF StageType
  <2>4. CASE terminated /\ ToCleanup(containers, "escaped") /\ UNCHANGED <<tree, blocked>>
    <3>1. raised' = "escaped"
      BY <2>4, CleanupBegins DEF StageType
    <3> QED BY <2>4, <3>1 DEF StageType
  <2> QED BY <2>1, <2>2, <2>3, <2>4 DEF Snapshot
<1>5. StageType'
  BY <1>1, <1>3, <1>4 DEF StageType
<1>6. PendingOK' /\ ListedOK' /\ OwnedOK'
  BY <1>1, <1>3 DEF PendingOK, ListedOK, Quiet, OwnedOK, Preparing
<1>7. SubjectOK' /\ BlockedOK'
  BY <1>1, <1>3, <1>4 DEF SubjectOK, BlockedOK, Reports, Done
<1> QED BY <1>5, <1>6, <1>7

(* A container is removed, or kept on the list. *)
LEMMA RemoveKeeps ==
    ASSUME StageInv, RemoveContainer
    PROVE  StageInv'
<1> USE DEF StageInv
<1>1. PICK n \in Containers : n = Head(todo)
  BY TailOf DEF RemoveContainer, StageType
<1>2. /\ pc = "cleanup" /\ todo # <<>> /\ UNCHANGED <<volumes, terminated, tree>>
      /\ CutOff("rm", n) /\ Tail(todo) \in Seq(Containers)
  BY <1>1, TailOf DEF RemoveContainer, CutOff, StageType
<1>3. /\ Does("rm", n, {"absent", "created", "running", "exited"}, "absent") /\ volume' = volume
  BY <1>2, RemoveDoes
<1>4. /\ todo' \in Seq(Containers) /\ blocked' \in BOOLEAN /\ (blocked => blocked')
      /\ \/ pc' = "done" /\ raised' = "escaped"
         \/ pc' = "cleanup" /\ raised' = raised
  <2>1. CASE /\ Acknowledged("rm", n) /\ todo' = Tail(todo) /\ UNCHANGED <<pc, blocked, raised>>
    BY <1>2, <2>1 DEF StageType
  <2>2. CASE todo' = Tail(todo) /\ blocked' = TRUE /\ UNCHANGED <<pc, raised>>
    BY <1>2, <2>2
  <2>3. CASE pc' = "done" /\ raised' = "escaped" /\ UNCHANGED <<todo, blocked>>
    BY <2>3 DEF StageType
  <2> QED BY <1>1, <2>1, <2>2, <2>3 DEF RemoveContainer
<1>5. \/ containers' = containers
      \/ containers' = RemoveFirst(containers, n) /\ daemon'[n] = "absent"
  BY <1>1 DEF RemoveContainer, Acknowledged, Effect, StageType
<1>6. /\ containers' \in Seq(Containers)
      /\ \A m : Contains(containers, m) /\ m # n => Contains(containers', m)
  BY <1>5, RemovedFrom DEF StageType
<1>7. StageType'
  <2>1. /\ daemon' \in [Containers -> {"absent", "created", "running", "exited"}]
        /\ pending' \subseteq Commands \X Containers /\ late' \in BOOLEAN
    BY <1>3 DEF StageType, Does, Commands
  <2>2. containers' \in Seq(Containers)
    BY <1>6
  <2> QED BY <1>2, <1>3, <1>4, <2>1, <2>2 DEF StageType
<1>8. PendingOK'
  BY <1>2, <1>3, <1>4 DEF PendingOK, Does, Preparing
<1>9. ListedOK'
  <2>1. ASSUME NEW m \in Containers, ~Contains(containers', m) PROVE Quiet(m)'
    <3>1. CASE ~Contains(containers, m)
      BY <1>3, <3>1 DEF ListedOK, Quiet, Does, StageType
    <3>2. CASE Contains(containers, m)
      <4>1. m = n /\ daemon'[n] = "absent"
        BY <1>5, <1>6, <2>1, <3>2
      <4> QED BY <1>8, <4>1 DEF PendingOK, Quiet
    <3> QED BY <3>1, <3>2
  <2> QED BY <1>4, <2>1 DEF ListedOK
<1>10. SubjectOK'
  <2>1. /\ <<"start", "subject">> \in pending' => <<"start", "subject">> \in pending
        /\ daemon'["subject"] \in {daemon["subject"], "absent"}
    BY <1>3 DEF Does, StageType, Containers
  <2> QED BY <1>2, <1>4, <2>1 DEF SubjectOK, Reports, Done
<1>11. OwnedOK'
  <2>1. ASSUME ~late', NEW m \in Containers, daemon'[m] # "absent" PROVE Contains(containers', m)
    <3>1. daemon[m] # "absent"
      BY <1>3, <2>1 DEF Does, StageType
    <3>2. Contains(containers, m)
      BY <1>3, <2>1, <3>1 DEF Does, OwnedOK
    <3> QED BY <1>5, <1>6, <2>1, <3>2
  <2> QED BY <1>2, <1>3, <1>4, <2>1 DEF OwnedOK, Does, Preparing
<1>12. BlockedOK'
  BY <1>2, <1>4 DEF BlockedOK, Reports, Done
<1> QED BY <1>7, <1>8, <1>9, <1>10, <1>11, <1>12

(* cleanup ends, with the volume or without. *)
LEMMA VolumeKeeps ==
    ASSUME StageInv, RemoveVolume
    PROVE  StageInv'
<1> USE DEF StageInv
<1>1. pc = "cleanup" /\ pc' = "done" /\ UNCHANGED <<containers, todo, terminated>>
  BY DEF RemoveVolume, Return
<1>2. /\ late' = late /\ daemon' = daemon
      /\ pending' \in {pending, pending \cup {<<"rmvolume", "keeper">>}}
      /\ volume' \in BOOLEAN /\ (volume' => volume)
  <2>1. CASE CutOff("rmvolume", "keeper")
    <3>1. Does("rmvolume", "keeper", {}, "absent") /\ volume' \in BOOLEAN
      BY <2>1, VolumeDoes DEF Containers
    <3>2. CASE Acknowledged("rmvolume", "keeper")
      <4>1. ~volume'
        BY <3>2 DEF Acknowledged, Effect
      <4> QED BY <3>1, <4>1 DEF Does
    <3>3. CASE volume' = volume
      BY <3>1, <3>3 DEF Does
    <3> QED BY <2>1, <3>2, <3>3 DEF CutOff, daemonVars
  <2> QED BY <2>1 DEF RemoveVolume, CutOff, daemonVars, StageType
<1>3. /\ volumes' \in BOOLEAN /\ tree' \in BOOLEAN /\ blocked' \in BOOLEAN
      /\ raised' \in {raised, "escaped"} /\ (tree' => tree) /\ (blocked => blocked')
  <2>1. ASSUME NEW errors \in BOOLEAN, Return(errors), volumes' \in {volumes, FALSE},
               UNCHANGED raised
        PROVE  /\ volumes' \in BOOLEAN /\ tree' \in BOOLEAN /\ blocked' \in BOOLEAN
               /\ raised' \in {raised, "escaped"} /\ (tree' => tree) /\ (blocked => blocked')
    BY <2>1 DEF Return, StageType
  <2>2. CASE raised' = "escaped" /\ UNCHANGED <<volumes, tree, blocked>>
    BY <2>2 DEF StageType
  <2> QED BY <2>1, <2>2 DEF RemoveVolume
<1>4. /\ raised' = "none" /\ tree' => containers = <<>> /\ ~volumes'
      /\ raised' = "none" /\ (~tree' \/ ~terminated \/ containers # <<>> \/ volumes') => blocked'
      /\ volumes /\ ~volumes' => ~volume'
  <2>1. CASE Return(TRUE) /\ UNCHANGED <<volumes, raised>>
    BY <2>1 DEF Return, StageType
  <2>2. CASE containers = <<>> /\ ~volumes /\ Return(FALSE) /\ UNCHANGED <<volumes, raised>>
    BY <1>1, <2>2 DEF Return, StageType, BlockedOK
  <2>3. CASE /\ containers = <<>> /\ Acknowledged("rmvolume", "keeper") /\ volumes' = FALSE
             /\ Return(FALSE) /\ UNCHANGED raised
    BY <1>1, <2>3 DEF Return, StageType, BlockedOK, Acknowledged, Effect
  <2>4. CASE raised' = "escaped" /\ UNCHANGED <<volumes, tree, blocked>>
    BY <2>4
  <2> QED BY <2>1, <2>2, <2>3, <2>4 DEF RemoveVolume
<1>5. StageType'
  BY <1>1, <1>2, <1>3 DEF StageType, Commands, Containers
<1>6. PendingOK' /\ ListedOK'
  BY <1>1, <1>2 DEF PendingOK, ListedOK, Quiet, Preparing
<1>7. SubjectOK'
  BY <1>1, <1>2, <1>3, <1>4 DEF SubjectOK, Reports, Done
<1>8. OwnedOK'
  BY <1>1, <1>2, <1>3, <1>4 DEF OwnedOK, Preparing
<1>9. BlockedOK'
  BY <1>1, <1>4 DEF BlockedOK, Reports, Done
<1> QED BY <1>5, <1>6, <1>7, <1>8, <1>9

(* A command takes effect after its client. *)
LEMMA LateKeeps ==
    ASSUME StageInv, LateEffect
    PROVE  StageInv'
<1> USE DEF StageInv
<1>1. PICK c \in pending :
        /\ pending' = pending \ {c}
        /\ \/ Legal(c[1], c[2]) /\ Effect(c[1], c[2])
           \/ UNCHANGED <<daemon, volume>>
  BY DEF LateEffect
<1>2. PICK cmd \in Commands, n \in Containers : c = <<cmd, n>>
  BY DEF StageType
<1>3. /\ UNCHANGED <<pc, containers, volumes, todo, terminated, tree, blocked, raised>>
      /\ late' = TRUE /\ pc \notin Preparing
  BY <1>1 DEF LateEffect, resultVars, PendingOK
<1>4. /\ volume' \in BOOLEAN
      /\ \/ daemon' = daemon
         \/ cmd = "create" /\ daemon[n] = "absent" /\ daemon' = [daemon EXCEPT ![n] = "created"]
         \/ cmd = "start" /\ daemon[n] \in {"created", "exited"}
            /\ daemon' = [daemon EXCEPT ![n] = "running"]
         \/ cmd = "kill" /\ daemon[n] = "running" /\ daemon' = [daemon EXCEPT ![n] = "exited"]
         \/ cmd = "rm" /\ daemon' = [daemon EXCEPT ![n] = "absent"]
  <2>1. CASE Legal(cmd, n) /\ Effect(cmd, n)
    BY <2>1 DEF Legal, Effect, Commands
  <2> QED BY <1>1, <1>2, <2>1 DEF StageType
<1>5. StageType'
  BY <1>1, <1>3, <1>4 DEF StageType
<1>6. PendingOK'
  BY <1>1, <1>3 DEF PendingOK
<1>7. ListedOK'
  <2>1. ASSUME NEW m \in Containers, Quiet(m) PROVE Quiet(m)'
    BY <1>1, <1>2, <1>4, <2>1 DEF Quiet, StageType
  <2> QED BY <1>3, <2>1 DEF ListedOK, Preparing
<1>8. SubjectOK'
  <2>1. <<"start", "subject">> \in pending' => daemon'["subject"] \in {"absent", "created"}
    BY <1>1, <1>2, <1>4 DEF SubjectOK, StageType, Containers
  <2>2. terminated => <<"start", "subject">> \notin pending' /\ daemon'["subject"] # "running"
    BY <1>1, <1>2, <1>4 DEF SubjectOK, StageType, Containers
  <2> QED BY <1>3, <2>1, <2>2 DEF SubjectOK, Preparing, Reports, Done
<1>9. OwnedOK' /\ BlockedOK'
  BY <1>3 DEF OwnedOK, BlockedOK, Reports, Done
<1> QED BY <1>5, <1>6, <1>7, <1>8, <1>9

(* A process ends by itself. *)
LEMMA ExitKeeps ==
    ASSUME StageInv, NEW n \in Containers, ProcessExits(n)
    PROVE  StageInv'
<1> USE DEF StageInv
<1>1. /\ UNCHANGED <<pc, containers, volumes, todo, terminated, tree, blocked, raised, volume,
                     pending, late>>
      /\ daemon[n] = "running" /\ daemon' = [daemon EXCEPT ![n] = "exited"]
  BY DEF ProcessExits, resultVars
<1>2. StageType' /\ PendingOK'
  BY <1>1 DEF StageType, PendingOK
<1>3. ListedOK'
  BY <1>1 DEF StageType, ListedOK, Quiet
<1>4. SubjectOK'
  BY <1>1 DEF StageType, SubjectOK, Reports, Done, Containers
<1>5. OwnedOK' /\ BlockedOK'
  BY <1>1 DEF StageType, OwnedOK, BlockedOK, Reports, Done
<1> QED BY <1>2, <1>3, <1>4, <1>5

(* Every step of the stage, the daemon and the subject keeps the invariant. *)
LEMMA StageInductive == StageInv /\ [StageNext]_stageVars => StageInv'
<1> SUFFICES ASSUME StageInv, [StageNext]_stageVars PROVE StageInv'
  OBVIOUS
<1>1. CASE UNCHANGED stageVars
  BY <1>1 DEF stageVars, resultVars, daemonVars, StageInv, StageType, PendingOK, ListedOK, Quiet,
              SubjectOK, OwnedOK, BlockedOK, Reports, Done
<1>2. CASE Prepare
  BY <1>2, CreateKeeps, PrepareKeeps, InspectInitializerKeeps DEF Prepare, Containers
<1> QED BY <1>1, <1>2, InputsKeep, SubjectKeeps, InspectSubjectKeeps, SnapshotKeeps, RemoveKeeps,
           VolumeKeeps, LateKeeps, ExitKeeps DEF StageNext, StageStep

(* The invariant holds throughout a stage. *)
LEMMA StageInvariant == StageSpec => []StageInv
  BY StageInitial, StageInductive, PTL DEF StageSpec

(***************************************************************************)
(* A stage that the runner does not call uncertain has left nothing        *)
(* running, and nothing will run, whatever the daemon still does           *)
(* (DockerRunner.run_stage, PairRunner.stage).                             *)
(***************************************************************************)
THEOREM CertainStagesAreQuiet == StageSpec => []CertainMeansNothingRuns
<1>1. StageInv => CertainMeansNothingRuns
  <2> SUFFICES ASSUME StageInv, Done, ~Escaped, ~Uncertain, NEW n \in Containers
               PROVE  daemon[n] # "running"
    BY DEF CertainMeansNothingRuns, NothingRuns
  <2>1. containers = <<>>
    BY DEF StageInv, StageType, Escaped, Uncertain, StageFails, Reports
  <2>2. Quiet(n)
    BY <2>1, EmptyContains DEF StageInv, ListedOK
  <2> QED BY <2>2 DEF Quiet
<1> QED BY <1>1, StageInvariant, PTL

(***************************************************************************)
(* The captured workspace is final: a subject that inspect saw exited does *)
(* not run again, also when its start was cut off and comes late, and a    *)
(* tree is handed on only when everything the stage owned is gone          *)
(* (DockerLifecycle.state, _snapshot, cleanup).                            *)
(***************************************************************************)
THEOREM CapturesAreFinal == StageSpec => []CaptureIsFinal
<1>1. StageInv => CaptureIsFinal
  BY DEF StageInv, SubjectOK, CaptureIsFinal
<1> QED BY <1>1, StageInvariant, PTL

(***************************************************************************)
(* What outlives the stage is what it reports, unless the daemon was late, *)
(* and nothing is missing from a result without a blocker                  *)
(* (DockerLifecycle.create, cleanup, DockerRunner.run_stage).              *)
(***************************************************************************)
THEOREM StagesReportWhatTheyKeep == StageSpec => []RetainedIsComplete
<1>1. StageInv => RetainedIsComplete
  BY DEF StageInv, OwnedOK, BlockedOK, RetainedIsComplete
<1> QED BY <1>1, StageInvariant, PTL

-----------------------------------------------------------------------------
(* The commands of run_stage, from the end. *)
CommandNo ==
    [ inputs |-> 14, mkvolume |-> 13, createKeeper |-> 12, startKeeper |-> 11,
      createInitializer |-> 10, startInitializer |-> 9, inspectInitializer |-> 8,
      createSubject |-> 7, startSubject |-> 6, killSubject |-> 5, inspectSubject |-> 4,
      report |-> 3, cleanup |-> 2, done |-> 1 ]

(***************************************************************************)
(* A step goes on to a later command or to the next container that cleanup *)
(* has to remove; or it is one of the daemon, which has a command less to  *)
(* execute late, or a process less that runs.                              *)
(***************************************************************************)
StageForward ==
    \/ CommandNo[pc'] < CommandNo[pc]
    \/ pc' = pc /\ pc = "cleanup" /\ Len(todo') < Len(todo)
    \/ UNCHANGED <<pc, todo>> /\ pending' \subseteq pending /\ pending' # pending
    \/ /\ UNCHANGED <<pc, todo, pending>>
       /\ \E n \in Containers :
            /\ daemon[n] = "running" /\ daemon'[n] = "exited"
            /\ \A m \in Containers \ {n} : daemon'[m] = daemon[m]

(* Each command has its number. *)
LEMMA CommandNumbers ==
    /\ CommandNo["inputs"] = 14 /\ CommandNo["mkvolume"] = 13 /\ CommandNo["createKeeper"] = 12
    /\ CommandNo["startKeeper"] = 11 /\ CommandNo["createInitializer"] = 10
    /\ CommandNo["startInitializer"] = 9 /\ CommandNo["inspectInitializer"] = 8
    /\ CommandNo["createSubject"] = 7 /\ CommandNo["startSubject"] = 6
    /\ CommandNo["killSubject"] = 5 /\ CommandNo["inspectSubject"] = 4 /\ CommandNo["report"] = 3
    /\ CommandNo["cleanup"] = 2 /\ CommandNo["done"] = 1
  BY DEF CommandNo

(* What follows each command of the preparation. *)
LEMMA AfterNumbers ==
    /\ AfterPrepare["mkvolume"] = "createKeeper" /\ AfterPrepare["createKeeper"] = "startKeeper"
    /\ AfterPrepare["startKeeper"] = "createInitializer"
    /\ AfterPrepare["createInitializer"] = "startInitializer"
    /\ AfterPrepare["startInitializer"] = "inspectInitializer"
    /\ AfterPrepare["createSubject"] = "startSubject"
  BY DEF AfterPrepare

(* The stage leaves each command behind, and in cleanup each container. *)
LEMMA StageStepForward == ASSUME StageType, StageStep PROVE StageForward
<1>1. CASE StageInputs
  BY <1>1, CommandNumbers DEF StageInputs, ToCleanup, StageForward
<1>2. CASE Prepare
  <2>1. ASSUME NEW cmd, NEW n,
               NEW at \in {"mkvolume", "createKeeper", "startKeeper", "createInitializer",
                           "startInitializer", "createSubject"},
               PrepareCommand(at, cmd, n)
        PROVE  StageForward
    BY <2>1, CommandNumbers, AfterNumbers DEF PrepareCommand, ToCleanup, StageForward
  <2>2. CASE InspectInitializer
    BY <2>2, CommandNumbers DEF InspectInitializer, ToCleanup, StageForward
  <2> QED BY <1>2, <2>1, <2>2 DEF Prepare, CreateContainer
<1>3. CASE StartSubject
  BY <1>3, CommandNumbers DEF StartSubject, ToCleanup, StageForward
<1>4. CASE KillSubject
  BY <1>4, CommandNumbers DEF KillSubject, ToCleanup, StageForward
<1>5. CASE InspectSubject
  <2>1. pc = "inspectSubject" /\ pc' \in {"report", "cleanup"}
    BY <1>5 DEF InspectSubject, ToCleanup
  <2> QED BY <2>1, CommandNumbers DEF StageForward
<1>6. CASE Snapshot
  BY <1>6, CommandNumbers DEF Snapshot, ToCleanup, StageForward
<1>7. CASE RemoveContainer
  <2>1. todo # <<>> /\ pc = "cleanup" /\ (pc' = "done" \/ (pc' = pc /\ todo' = Tail(todo)))
    BY <1>7 DEF RemoveContainer
  <2>2. Len(Tail(todo)) < Len(todo)
    BY <2>1 DEF StageType
  <2> QED BY <2>1, <2>2, CommandNumbers DEF StageForward
<1>8. CASE RemoveVolume
  <2>1. pc = "cleanup" /\ pc' = "done"
    BY <1>8 DEF RemoveVolume, Return
  <2> QED BY <2>1, CommandNumbers DEF StageForward
<1> QED BY <1>1, <1>2, <1>3, <1>4, <1>5, <1>6, <1>7, <1>8 DEF StageStep

(***************************************************************************)
(* run_stage goes only forward, whatever the daemon does and whichever     *)
(* client is cut off, and what is executed late comes to an end as well:   *)
(* no command is issued twice (DockerRunner.run_stage, DockerLifecycle).   *)
(***************************************************************************)
THEOREM StagesGoForward == StageSpec => [][StageForward]_stageVars
<1>1. StageInv /\ [StageNext]_stageVars => [StageForward]_stageVars
  <2> SUFFICES ASSUME StageType, StageNext PROVE StageForward
    BY DEF StageInv
  <2>1. CASE LateEffect
    BY <2>1 DEF LateEffect, StageForward
  <2>2. ASSUME NEW n \in Containers, ProcessExits(n) PROVE StageForward
    BY <2>2 DEF ProcessExits, StageForward, StageType
  <2> QED BY <2>1, <2>2, StageStepForward DEF StageNext
<1> QED BY <1>1, StageInvariant, PTL DEF StageSpec
=============================================================================
