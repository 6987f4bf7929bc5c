------------------------- MODULE ReviewDaemonProofs -------------------------
(***************************************************************************)
(* Proofs about ReviewDaemon for every number of patchsets, patches and    *)
(* permits, and every bound on the environment events.                     *)
(***************************************************************************)
EXTENDS ReviewDaemon, FiniteSetTheorems, SequenceTheorems, TLAPS

RowStatus == {"Pending", "In Review", "Reviewed", "Failed", "Skipped"}

(***************************************************************************)
(* Facts about the rows of a patch.                                        *)
(***************************************************************************)
\* Giving one row another status leaves a sequence of rows.
LEMMA RowStatusType ==
  ASSUME NEW rows \in Seq(Row), NEW n, NEW st \in RowStatus
  PROVE  [rows EXCEPT ![n].st = st] \in Seq(Row)
<1>1. rows \in [1 .. Len(rows) -> Row] /\ Len(rows) \in Nat
  BY LenProperties
<1>2. [rows EXCEPT ![n].st = st] \in [1 .. Len(rows) -> Row]
  <2>1. CASE n \in 1 .. Len(rows)
    <3>1. rows[n] \in Row
      BY <1>1, <2>1
    <3>2. [rows[n] EXCEPT !.st = st] \in Row
      BY <3>1 DEF Row, RowStatus
    <3> QED BY <1>1, <3>2
  <2>2. CASE n \notin 1 .. Len(rows)
    BY <1>1, <2>2
  <2> QED BY <2>1, <2>2
<1> QED BY <1>1, <1>2, IsASeq

\* So does replacing one row, or appending one.
LEMMA RowReplaceType ==
  ASSUME NEW rows \in Seq(Row), NEW n, NEW r \in Row
  PROVE  [rows EXCEPT ![n] = r] \in Seq(Row)
<1>1. rows \in [1 .. Len(rows) -> Row] /\ Len(rows) \in Nat
  BY LenProperties
<1>2. [rows EXCEPT ![n] = r] \in [1 .. Len(rows) -> Row]
  BY <1>1
<1> QED BY <1>1, <1>2, IsASeq

LEMMA RowAppendType ==
  ASSUME NEW rows \in Seq(Row), NEW r \in Row
  PROVE  Append(rows, r) \in Seq(Row)
BY AppendProperties

LEMMA NewRowType == NewRow \in Row /\ [NewRow EXCEPT !.st = "Skipped"] \in Row
BY DEF NewRow, Row

LEMMA WithRowType ==
  ASSUME NEW rows \in Seq(Row), NEW n, NEW r \in Row
  PROVE  WithRow(rows, n, r) \in Seq(Row)
BY RowReplaceType, RowAppendType DEF WithRow

\* The reset of one row at boot.
LEMMA ResetRowsType ==
  ASSUME NEW rows \in Seq(Row)
  PROVE  [n \in DOMAIN rows |-> ResetRow(rows[n])] \in Seq(Row)
<1>1. rows \in [1 .. Len(rows) -> Row] /\ Len(rows) \in Nat /\ DOMAIN rows = 1 .. Len(rows)
  BY LenProperties
<1>2. ASSUME NEW n \in DOMAIN rows PROVE ResetRow(rows[n]) \in Row
  <2>1. rows[n] \in Row
    BY <1>1, <1>2
  <2> QED BY <2>1 DEF ResetRow, Row
<1>3. [n \in DOMAIN rows |-> ResetRow(rows[n])] \in [1 .. Len(rows) -> Row]
  BY <1>1, <1>2
<1> QED BY <1>1, <1>3, IsASeq

(***************************************************************************)
(* Type correctness, with what the program counter of a task says of it.   *)
(***************************************************************************)
OnPatch == {"attempt", "take", "running", "notify", "insert"}

TaskOK(t) ==
  /\ t.ps \in Patchsets <=> t.pc # "free"
  /\ t.todo \subseteq PatchesOf(t.ps)
  /\ t.pc \in OnPatch => t.patch \in PatchesOf(t.ps)

TypeInv == TypeOK /\ \A k \in Permits : TaskOK(task[k])

LEMMA FreeType == Free \in Task /\ TaskOK(Free)
BY ConstantsOK DEF Free, Task, Pc, TaskOK, PatchesOf, OnPatch

LEMMA InitType == Init => TypeInv
<1> SUFFICES ASSUME Init PROVE TypeInv
  OBVIOUS
<1>1. status \in [Patchsets -> Status] /\ embargo \in [Patchsets -> {"none", "active", "expired"}]
  BY DEF Init, Status
<1>2. reviews \in [Patches -> Seq(Row)]
  BY EmptySeq DEF Init
<1>3. task \in [Permits -> Task] /\ \A k \in Permits : TaskOK(task[k])
  BY FreeType DEF Init
<1> QED BY <1>1, <1>2, <1>3 DEF Init, TypeInv, TypeOK

\* A task that becomes a well-formed task leaves all tasks well-formed.
LEMMA BecomeType ==
  ASSUME task \in [Permits -> Task], \A k \in Permits : TaskOK(task[k]),
         NEW k \in Permits, NEW t \in Task, TaskOK(t), Become(k, t)
  PROVE  task' \in [Permits -> Task] /\ \A l \in Permits : TaskOK(task'[l])
BY DEF Become

\* Counting an environment event.
LEMMA SpendType ==
  ASSUME used \in [Event -> Nat], NEW e \in Event, Spend(e)
  PROVE  used' \in [Event -> Nat]
<1>1. used[e] \in Nat
  OBVIOUS
<1> QED BY <1>1 DEF Spend

LEMMA NextType == TypeInv /\ [Next]_vars => TypeInv'
<1> SUFFICES ASSUME TypeInv, [Next]_vars PROVE TypeInv'
  OBVIOUS
<1> USE DEF TypeInv, TypeOK, fetchVars
<1>1. CASE Boot
  <2>1. status' \in [Patchsets -> Status]
    BY <1>1 DEF Boot, ResetStatus, Status
  <2>2. reviews' \in [Patches -> Seq(Row)]
    BY <1>1, ResetRowsType DEF Boot
  <2> QED BY <1>1, <2>1, <2>2 DEF Boot
<1>2. CASE Poll
  <2>1. NewestPending \subseteq Patchsets
    BY DEF NewestPending, PendingRows
  <2>2. \A s \in Patchsets : [ps |-> s, goal |-> target[s]] \in [ps : Patchsets, goal : Nat]
    OBVIOUS
  <2>3. batch' = {} \/ batch' = {[ps |-> s, goal |-> target[s]] : s \in NewestPending}
    BY <1>2 DEF Poll
  <2>4. batch' \subseteq [ps : Patchsets, goal : Nat]
    BY <2>1, <2>2, <2>3
  <2> QED BY <1>2, <2>4 DEF Poll
<1>3. ASSUME NEW k \in Permits, Dispatch(k) PROVE TypeInv'
  <2>1. PICK r \in batch :
          /\ batch' = batch \ {r}
          /\ Become(k, [Free EXCEPT !.pc = "spawned", !.ps = r.ps, !.goal = r.goal])
    BY <1>3 DEF Dispatch
  <2> DEFINE t == [Free EXCEPT !.pc = "spawned", !.ps = r.ps, !.goal = r.goal]
  <2>2. t \in Task /\ TaskOK(t)
    BY DEF Free, Task, Pc, TaskOK, OnPatch
  <2>3. task' \in [Permits -> Task] /\ \A l \in Permits : TaskOK(task'[l])
    BY <2>1, <2>2, BecomeType
  <2> QED BY <1>3, <2>1, <2>3 DEF Dispatch
<1>4. CASE ReleaseScan
  BY <1>4 DEF ReleaseScan
<1>5. CASE ReleaseCheck
  BY <1>5 DEF ReleaseCheck
<1>6. CASE ReleaseInsert
  BY <1>6 DEF ReleaseInsert
<1>7. CASE ReleaseEnd
  BY <1>7 DEF ReleaseEnd
<1>8. ASSUME NEW k \in Permits, Begin(k) PROVE TypeInv'
  <2> DEFINE t == [task[k] EXCEPT !.pc = "setup"]
  <2>1. t \in Task /\ TaskOK(t)
    BY <1>8 DEF Begin, At, Turn, Task, Pc, TaskOK, OnPatch
  <2>2. Become(k, t)
    BY <1>8 DEF Begin
  <2>3. task' \in [Permits -> Task] /\ \A l \in Permits : TaskOK(task'[l])
    BY <2>1, <2>2, BecomeType
  <2>4. status' \in [Patchsets -> Status]
    BY <1>8 DEF Begin, Status
  <2> QED BY <1>8, <2>3, <2>4 DEF Begin, noTask
<1>9. ASSUME NEW k \in Permits, SetupFails(k) PROVE TypeInv'
  <2>1. Free \in Task /\ TaskOK(Free)
    BY FreeType
  <2>2. Become(k, Free)
    BY <1>9 DEF SetupFails
  <2>3. task' \in [Permits -> Task] /\ \A l \in Permits : TaskOK(task'[l])
    BY <2>1, <2>2, BecomeType
  <2>4. status' \in [Patchsets -> Status]
    BY <1>9 DEF SetupFails, Status
  <2> QED BY <1>9, <2>3, <2>4 DEF SetupFails, noTask
<1>10. ASSUME NEW k \in Permits, BaselineFound(k) PROVE TypeInv'
  <2> DEFINE t == [task[k] EXCEPT !.pc = "next", !.todo = Jobs(task[k].ps)]
  <2>1. t \in Task /\ TaskOK(t)
    <3>1. task[k] \in Task /\ task[k].ps \in Patchsets /\ TaskOK(task[k])
      BY <1>10 DEF BaselineFound, At, TaskOK
    <3>2. /\ Jobs(task[k].ps) \subseteq PatchesOf(task[k].ps)
          /\ Jobs(task[k].ps) \in SUBSET Patches
      BY DEF Jobs, PatchesOf
    <3>3. t \in Task
      BY <3>1, <3>2 DEF Task, Pc
    <3>4. t.pc = "next" /\ t.ps = task[k].ps /\ t.todo = Jobs(task[k].ps)
      BY <3>1 DEF Task
    <3> QED BY <3>1, <3>2, <3>3, <3>4 DEF TaskOK, OnPatch
  <2>2. Become(k, t)
    BY <1>10 DEF BaselineFound
  <2>3. task' \in [Permits -> Task] /\ \A l \in Permits : TaskOK(task'[l])
    BY <2>1, <2>2, BecomeType
  <2> QED BY <1>10, <2>3 DEF BaselineFound, noTask
<1>11. ASSUME NEW k \in Permits, NEW p \in Patches, AlreadyReviewed(k, p) PROVE TypeInv'
  <2> DEFINE t == [task[k] EXCEPT !.todo = @ \ {p}]
  <2>1. t \in Task /\ TaskOK(t)
    BY <1>11 DEF AlreadyReviewed, At, Turn, Task, Pc, TaskOK, OnPatch
  <2>2. Become(k, t)
    BY <1>11 DEF AlreadyReviewed
  <2>3. task' \in [Permits -> Task] /\ \A l \in Permits : TaskOK(task'[l])
    BY <2>1, <2>2, BecomeType
  <2> QED BY <1>11, <2>3 DEF AlreadyReviewed, noTask
<1>12. ASSUME NEW k \in Permits, NEW p \in Patches, BlockedByFailure(k, p) PROVE TypeInv'
  <2> DEFINE t == [task[k] EXCEPT !.todo = @ \ {p}, !.failed = TRUE]
  <2>1. t \in Task /\ TaskOK(t)
    BY <1>12 DEF BlockedByFailure, At, Turn, Task, Pc, TaskOK, OnPatch
  <2>2. Become(k, t)
    BY <1>12 DEF BlockedByFailure
  <2>3. task' \in [Permits -> Task] /\ \A l \in Permits : TaskOK(task'[l])
    BY <2>1, <2>2, BecomeType
  <2> QED BY <1>12, <2>3 DEF BlockedByFailure, noTask
<1>13. ASSUME NEW k \in Permits, NEW p \in Patches, SkipIgnored(k, p) PROVE TypeInv'
  <2> DEFINE t == [task[k] EXCEPT !.todo = @ \ {p}]
  <2>1. t \in Task /\ TaskOK(t)
    <3>1. task[k] \in Task /\ TaskOK(task[k])
      OBVIOUS
    <3> QED BY <3>1 DEF Task, TaskOK, OnPatch
  <2>2. Become(k, t)
    BY <1>13 DEF SkipIgnored
  <2>3. task' \in [Permits -> Task] /\ \A l \in Permits : TaskOK(task'[l])
    BY <2>1, <2>2, BecomeType
  <2>4. reviews' \in [Patches -> Seq(Row)]
    BY <1>13, WithRowType, NewRowType DEF SkipIgnored
  <2> QED BY <1>13, <2>3, <2>4 DEF SkipIgnored, noTask
<1>14. ASSUME NEW k \in Permits, NEW p \in Patches, StartPatch(k, p) PROVE TypeInv'
  <2>1. PICK n \in ClaimIds(p) :
          Become(k, [task[k] EXCEPT !.pc = "attempt", !.patch = p, !.todo = @ \ {p},
                                    !.row = n, !.tries = 0])
    BY <1>14 DEF StartPatch
  <2> DEFINE t == [task[k] EXCEPT !.pc = "attempt", !.patch = p, !.todo = @ \ {p},
                                  !.row = n, !.tries = 0]
  <2>2. n \in Nat
    BY LenProperties DEF ClaimIds, PendingIds
  <2>3. t \in Task /\ TaskOK(t)
    <3>1. task[k] \in Task /\ p \in task[k].todo /\ p \in Nat /\ task[k].pc # "free"
      BY <1>14, ConstantsOK DEF StartPatch, Turn, At
    <3>2. t \in Task
      BY <2>2, <3>1 DEF Task, Pc
    <3>3. TaskOK(t)
      BY <3>1, <3>2 DEF TaskOK, Task
    <3> QED BY <3>2, <3>3
  <2>4. task' \in [Permits -> Task] /\ \A l \in Permits : TaskOK(task'[l])
    BY <2>1, <2>3, BecomeType
  <2> QED BY <1>14, <2>4 DEF StartPatch, noTask
<1>15. ASSUME NEW k \in Permits, Attempt(k) PROVE TypeInv'
  <2> DEFINE p == task[k].patch
             n == task[k].row
             t == [task[k] EXCEPT !.pc = "take",
                                  !.row = IF n = 0 THEN Len(reviews[p]) + 1 ELSE n]
  <2>1. p \in Patches /\ n \in Nat
    BY <1>15 DEF Attempt, At, TaskOK, OnPatch, Task, PatchesOf
  <2>2. Len(reviews[p]) \in Nat
    BY <2>1, LenProperties
  <2>3. t \in Task /\ TaskOK(t)
    <3> DEFINE m == IF n = 0 THEN Len(reviews[p]) + 1 ELSE n
    <3>1. m \in Nat /\ t = [task[k] EXCEPT !.pc = "take", !.row = m]
      BY <2>1, <2>2
    <3> HIDE DEF m, t
    <3>2. task[k] \in Task /\ TaskOK(task[k]) /\ task[k].pc = "attempt"
      BY <1>15 DEF Attempt, At
    <3> QED BY <3>1, <3>2 DEF Task, Pc, TaskOK, OnPatch
  <2>4. Become(k, t)
    BY <1>15 DEF Attempt
  <2>5. task' \in [Permits -> Task] /\ \A l \in Permits : TaskOK(task'[l])
    BY <2>3, <2>4, BecomeType
  <2>6. reviews' \in [Patches -> Seq(Row)]
    BY <1>15, RowAppendType, NewRowType DEF Attempt
  <2> QED BY <1>15, <2>5, <2>6 DEF Attempt, noTask
<1>16. ASSUME NEW k \in Permits, TakeRow(k) PROVE TypeInv'
  <2> DEFINE t == [task[k] EXCEPT !.pc = "running"]
  <2>1. t \in Task /\ TaskOK(t)
    BY <1>16 DEF TakeRow, At, Turn, Task, Pc, TaskOK, OnPatch
  <2>2. Become(k, t)
    BY <1>16 DEF TakeRow
  <2>3. task' \in [Permits -> Task] /\ \A l \in Permits : TaskOK(task'[l])
    BY <2>1, <2>2, BecomeType
  <2>4. reviews' \in [Patches -> Seq(Row)]
    BY <1>16, RowStatusType DEF TakeRow, Mark, RowStatus
  <2> QED BY <1>16, <2>3, <2>4 DEF TakeRow, noTask
<1>17. ASSUME NEW k \in Permits, PauseBeforeAttempt(k) PROVE TypeInv'
  <2> DEFINE t == [task[k] EXCEPT !.pc = "paused"]
  <2>1. t \in Task /\ TaskOK(t)
    BY <1>17 DEF PauseBeforeAttempt, At, Turn, Task, Pc, TaskOK, OnPatch
  <2>2. Become(k, t)
    BY <1>17 DEF PauseBeforeAttempt
  <2>3. task' \in [Permits -> Task] /\ \A l \in Permits : TaskOK(task'[l])
    BY <2>1, <2>2, BecomeType
  <2> QED BY <1>17, <2>3 DEF PauseBeforeAttempt, noTask
<1>18. ASSUME NEW k \in Permits, Succeed(k) PROVE TypeInv'
  <2>1. PICK o \in Outcomes \cap {"ok", "silent"} :
          /\ Complete(k, "Reviewed", TRUE, o = "ok")
          /\ Become(k, [task[k] EXCEPT !.pc = IF o = "ok" /\ MayMail(task[k].ps)
                                              THEN "notify" ELSE "next"])
    BY <1>18 DEF Succeed
  <2> DEFINE t == [task[k] EXCEPT !.pc = IF o = "ok" /\ MayMail(task[k].ps)
                                         THEN "notify" ELSE "next"]
  <2>2. t \in Task /\ TaskOK(t)
    BY <1>18 DEF Succeed, At, Task, Pc, TaskOK, OnPatch
  <2>3. task' \in [Permits -> Task] /\ \A l \in Permits : TaskOK(task'[l])
    BY <2>1, <2>2, BecomeType
  <2>4. [st |-> "Reviewed", ai |-> TRUE, inline |-> (o = "ok")] \in Row
    BY DEF Row
  <2>5. reviews' \in [Patches -> Seq(Row)]
    BY <2>1, <2>4, RowReplaceType DEF Complete
  <2> QED BY <1>18, <2>3, <2>5 DEF Succeed, noTask
<1>19. ASSUME NEW k \in Permits, Fail(k) PROVE TypeInv'
  <2>1. PICK o \in Outcomes \cap {"retry", "hard", "missing"} :
          /\ Complete(k, "Failed", o # "hard", FALSE)
          /\ Become(k, AfterFailure(task[k], o))
    BY <1>19 DEF Fail
  <2> DEFINE t == AfterFailure(task[k], o)
  <2>2. t \in Task /\ TaskOK(t)
    <3>1. task[k] \in Task /\ task[k].pc = "running" /\ task[k].tries \in Nat
      BY <1>19 DEF Fail, At, Task
    <3>2. CASE t = [task[k] EXCEPT !.pc = "attempt", !.tries = @ + 1, !.row = 0]
      <4> DEFINE m == task[k].tries + 1
      <4>1. m \in Nat /\ t = [task[k] EXCEPT !.pc = "attempt", !.tries = m, !.row = 0]
        BY <3>1, <3>2
      <4> HIDE DEF m, t
      <4> QED BY <3>1, <4>1 DEF Task, Pc, TaskOK, OnPatch
    <3>3. CASE t = [task[k] EXCEPT !.pc = "next", !.failed = TRUE]
      BY <3>1, <3>3 DEF Task, Pc, TaskOK, OnPatch
    <3> QED BY <3>2, <3>3 DEF AfterFailure
  <2>3. task' \in [Permits -> Task] /\ \A l \in Permits : TaskOK(task'[l])
    BY <2>1, <2>2, BecomeType
  <2>4. [st |-> "Failed", ai |-> (o # "hard"), inline |-> FALSE] \in Row
    BY DEF Row
  <2>5. reviews' \in [Patches -> Seq(Row)]
    BY <2>1, <2>4, RowReplaceType DEF Complete
  <2> QED BY <1>19, <2>3, <2>5 DEF Fail, noTask
<1>20. ASSUME NEW k \in Permits, SkipNoAi(k) PROVE TypeInv'
  <2> DEFINE t == [task[k] EXCEPT !.pc = "next"]
  <2>1. t \in Task /\ TaskOK(t)
    BY <1>20 DEF SkipNoAi, At, Turn, Task, Pc, TaskOK, OnPatch
  <2>2. Become(k, t)
    BY <1>20 DEF SkipNoAi
  <2>3. task' \in [Permits -> Task] /\ \A l \in Permits : TaskOK(task'[l])
    BY <2>1, <2>2, BecomeType
  <2>4. reviews' \in [Patches -> Seq(Row)]
    BY <1>20, RowReplaceType DEF SkipNoAi, Complete, Row
  <2> QED BY <1>20, <2>3, <2>4 DEF SkipNoAi, noTask
<1>21. ASSUME NEW k \in Permits, PauseReview(k) PROVE TypeInv'
  <2> DEFINE t == [task[k] EXCEPT !.pc = "paused"]
  <2>1. t \in Task /\ TaskOK(t)
    BY <1>21 DEF PauseReview, At, Turn, Task, Pc, TaskOK, OnPatch
  <2>2. Become(k, t)
    BY <1>21 DEF PauseReview
  <2>3. task' \in [Permits -> Task] /\ \A l \in Permits : TaskOK(task'[l])
    BY <2>1, <2>2, BecomeType
  <2>4. reviews' \in [Patches -> Seq(Row)]
    BY <1>21, RowStatusType DEF PauseReview, Mark, RowStatus
  <2> QED BY <1>21, <2>3, <2>4 DEF PauseReview, noTask
<1>22. ASSUME NEW k \in Permits, NotifyCheck(k) PROVE TypeInv'
  <2> DEFINE t == [task[k] EXCEPT !.pc = IF Queued(task[k].patch) THEN "next"
                                                              ELSE "insert"]
  <2>1. t \in Task /\ TaskOK(t)
    BY <1>22 DEF NotifyCheck, At, Turn, Task, Pc, TaskOK, OnPatch
  <2>2. Become(k, t)
    BY <1>22 DEF NotifyCheck
  <2>3. task' \in [Permits -> Task] /\ \A l \in Permits : TaskOK(task'[l])
    BY <2>1, <2>2, BecomeType
  <2> QED BY <1>22, <2>3 DEF NotifyCheck, noTask
<1>23. ASSUME NEW k \in Permits, NotifyInsert(k) PROVE TypeInv'
  <2> DEFINE t == [task[k] EXCEPT !.pc = "next"]
  <2>1. t \in Task /\ TaskOK(t)
    BY <1>23 DEF NotifyInsert, At, Turn, Task, Pc, TaskOK, OnPatch
  <2>2. Become(k, t)
    BY <1>23 DEF NotifyInsert
  <2>3. task' \in [Permits -> Task] /\ \A l \in Permits : TaskOK(task'[l])
    BY <2>1, <2>2, BecomeType
  <2>4. task[k].patch \in Patches
    BY <1>23 DEF NotifyInsert, At, TaskOK, OnPatch, PatchesOf
  <2>5. outbox' \in [Patches -> Nat]
    BY <1>23, <2>4 DEF NotifyInsert
  <2> QED BY <1>23, <2>3, <2>5 DEF NotifyInsert, noTask
<1>24. ASSUME NEW k \in Permits, Park(k) PROVE TypeInv'
  <2>1. Free \in Task /\ TaskOK(Free)
    BY FreeType
  <2>2. Become(k, Free)
    BY <1>24 DEF Park
  <2>3. task' \in [Permits -> Task] /\ \A l \in Permits : TaskOK(task'[l])
    BY <2>1, <2>2, BecomeType
  <2>4. status' \in [Patchsets -> Status]
    BY <1>24 DEF Park, Status
  <2> QED BY <1>24, <2>3, <2>4 DEF Park, noTask
<1>25. ASSUME NEW k \in Permits, ReadBack(k) PROVE TypeInv'
  <2> DEFINE t == IF status[task[k].ps] = "Cancelled"
                     THEN Free ELSE [task[k] EXCEPT !.pc = "final"]
  <2>1. t \in Task /\ TaskOK(t)
    <3>1. task[k] \in Task /\ TaskOK(task[k]) /\ task[k].pc = "next"
      BY <1>25 DEF ReadBack, At
    <3>2. LET u == [task[k] EXCEPT !.pc = "final"] IN u \in Task /\ TaskOK(u)
      BY <3>1 DEF Task, Pc, TaskOK, OnPatch
    <3> QED BY <3>2, FreeType
  <2>2. Become(k, t)
    BY <1>25 DEF ReadBack
  <2>3. task' \in [Permits -> Task] /\ \A l \in Permits : TaskOK(task'[l])
    BY <2>1, <2>2, BecomeType
  <2> QED BY <1>25, <2>3 DEF ReadBack, noTask
<1>26. ASSUME NEW k \in Permits, WriteFinal(k) PROVE TypeInv'
  <2>1. Free \in Task /\ TaskOK(Free)
    BY FreeType
  <2>2. Become(k, Free)
    BY <1>26 DEF WriteFinal
  <2>3. task' \in [Permits -> Task] /\ \A l \in Permits : TaskOK(task'[l])
    BY <2>1, <2>2, BecomeType
  <2>4. status' \in [Patchsets -> Status]
    BY <1>26 DEF WriteFinal, Status
  <2> QED BY <1>26, <2>3, <2>4 DEF WriteFinal, noTask
<1>27. ASSUME NEW s \in Patchsets, NEW force \in BOOLEAN, Cancel(s, force) PROVE TypeInv'
  <2>1. status' \in [Patchsets -> Status]
    BY <1>27 DEF Cancel, Status
  <2>2. used' \in [Event -> Nat]
    BY <1>27, SpendType DEF Cancel, Event
  <2> QED BY <1>27, <2>1, <2>2 DEF Cancel
<1>28. ASSUME NEW s \in Patchsets, RerunStatus(s) PROVE TypeInv'
  <2>1. status' \in [Patchsets -> Status]
    BY <1>28 DEF RerunStatus, Status
  <2>2. used' \in [Event -> Nat]
    BY <1>28, SpendType DEF RerunStatus, Event
  <2> QED BY <1>28, <2>1, <2>2 DEF RerunStatus
<1>29. ASSUME NEW s \in Patchsets, RerunTarget(s) PROVE TypeInv'
  BY <1>29 DEF RerunTarget
<1>30. ASSUME NEW s \in Patchsets, LastPartArrives(s) PROVE TypeInv'
  <2>1. status' \in [Patchsets -> Status]
    BY <1>30 DEF LastPartArrives, Status
  <2> QED BY <1>30, <2>1 DEF LastPartArrives
<1>31. ASSUME NEW s \in Patchsets, EmbargoEnds(s) PROVE TypeInv'
  BY <1>31 DEF EmbargoEnds
<1>32. CASE RestartFailed
  <2>1. status' \in [Patchsets -> Status]
    BY <1>32 DEF RestartFailed, Status
  <2>2. used' \in [Event -> Nat]
    BY <1>32, SpendType DEF RestartFailed, Event
  <2> QED BY <1>32, <2>1, <2>2 DEF RestartFailed, FailedSets
<1>33. CASE CloseWindow
  BY <1>33, SpendType DEF CloseWindow, Event
<1>34. CASE OpenWindow
  BY <1>34 DEF OpenWindow
<1>35. CASE Crash
  <2>1. task' \in [Permits -> Task] /\ \A k \in Permits : TaskOK(task'[k])
    BY <1>35, FreeType DEF Crash
  <2> QED BY <1>35, <2>1, SpendType DEF Crash, Event
<1>36. CASE UNCHANGED vars
  BY <1>36 DEF vars, TaskOK, PatchesOf
<1>37. ASSUME NEW s \in Patchsets, Resubmit(s) PROVE TypeInv'
  <2>1. status' \in [Patchsets -> Status]
    BY <1>37 DEF Resubmit, Status
  <2>2. used' \in [Event -> Nat]
    BY <1>37, SpendType DEF Resubmit, Event
  <2> QED BY <1>37, <2>1, <2>2 DEF Resubmit
<1>38. ASSUME NEW s \in Patchsets, FetchArrives(s) PROVE TypeInv'
  <2>1. status' \in [Patchsets -> Status]
    BY <1>38 DEF FetchArrives, Status
  <2> QED BY <1>38, <2>1 DEF FetchArrives
<1>39. ASSUME NEW s \in Patchsets, FetchFails(s) PROVE TypeInv'
  <2>1. status' \in [Patchsets -> Status]
    BY <1>39 DEF FetchFails, Status
  <2>2. disturbed' \subseteq Patchsets
    BY <1>39 DEF FetchFails
  <2> QED BY <1>39, <2>1, <2>2 DEF FetchFails
<1> QED
  BY <1>1, <1>2, <1>3, <1>4, <1>5, <1>6, <1>7, <1>8, <1>9, <1>10, <1>11, <1>12, <1>13, <1>14, <1>15, <1>16, <1>17, <1>18, <1>19, <1>20, <1>21, <1>22, <1>23, <1>24, <1>25, <1>26, <1>27, <1>28, <1>29, <1>30, <1>31, <1>32, <1>33, <1>34, <1>35, <1>36, <1>37, <1>38, <1>39
     DEF Next, Loop, TaskStep, PatchStep, Requests, Submits

\* Every variable keeps its type, whatever the requests, crashes and clocks do.
THEOREM TypeCorrect == Spec => []TypeOK
<1>1. Spec => []TypeInv
  BY InitType, NextType, PTL DEF Spec
<1>2. TypeInv => TypeOK
  BY DEF TypeInv
<1> QED BY <1>1, <1>2, PTL

(***************************************************************************)
(* The embargo.  A task that is about to mail has seen the embargo over,   *)
(* and so has the scan of the release loop; an embargo never comes back.   *)
(***************************************************************************)
MailInv ==
  /\ \A k \in Permits : task[k].pc \in {"notify", "insert"} =>
                        embargo[task[k].ps] # "active"
  /\ \A p \in rel : embargo[Of[p]] # "active"
  /\ NoMailUnderEmbargo

(***************************************************************************)
(* One life per patchset.  A patchset that is Pending, and whose review no *)
(* rerun and no failed fetch wrote over, is held by nobody but the         *)
(* snapshot of the poller or a task that has not begun; it is In Review,   *)
(* or Cancelled, while a task works on it.                                 *)
(***************************************************************************)
OnceInv ==
  /\ loop = "boot" => \A k \in Permits : task[k].pc = "free"
  /\ loop # "dispatch" => batch = {}
  /\ OneTaskPerPatchset
  /\ \A r1, r2 \in batch : r1.ps = r2.ps => r1 = r2
  /\ \A r \in batch : r.ps \notin disturbed =>
                      /\ status[r.ps] \in {"Pending", "Cancelled"}
                      /\ \A k \in Permits : task[k].ps # r.ps
  /\ \A k \in Permits : task[k].pc = "spawned" /\ task[k].ps \notin disturbed =>
                        status[task[k].ps] \in {"Pending", "Cancelled"}
  /\ \A k \in Permits : task[k].pc \notin {"free", "spawned"} /\ task[k].ps \notin disturbed =>
                        status[task[k].ps] \in {"In Review", "Cancelled"}

\* One mail per patch: whoever inserts found no row, and nobody else is about
\* to insert for that patchset.
MailOnceInv ==
  /\ OneMailPerReview
  /\ \A p \in rel : Of[p] \notin disturbed => status[Of[p]] = "Reviewed"
  /\ \A k \in Permits : task[k].pc = "insert" /\ task[k].ps \notin disturbed =>
                        outbox[task[k].patch] = 0
  /\ loop = "mail" => \E p \in rel : (\A q \in rel : p <= q) /\ (Of[p] \notin disturbed => outbox[p] = 0)

-----------------------------------------------------------------------------
(***************************************************************************)
(* What the steps of a task that neither begins nor ends have in common.   *)
(***************************************************************************)
Works(k) ==
  \/ BaselineFound(k) \/ PatchStep(k) \/ Attempt(k) \/ TakeRow(k)
  \/ PauseBeforeAttempt(k) \/ Succeed(k) \/ Fail(k) \/ SkipNoAi(k)
  \/ PauseReview(k) \/ NotifyCheck(k) \/ NotifyInsert(k)

Ends(k) == SetupFails(k) \/ Park(k) \/ WriteFinal(k)

\* task[k] stays busy with its patchset and the other tasks are left alone.
Continues(k) ==
  /\ \A l \in Permits \ {k} : task'[l] = task[l]
  /\ task'[k].ps = task[k].ps
  /\ task[k].pc \notin {"free", "spawned"}
  /\ task'[k].pc \notin {"free", "spawned"}

LEMMA WorkStep ==
  ASSUME TypeInv, NEW k \in Permits, Works(k)
  PROVE  Continues(k) /\ status' = status /\ UNCHANGED noTask
<1> USE DEF TypeInv, TypeOK, Task, Become, At, Turn, Continues
<1>1. CASE BaselineFound(k)
  BY <1>1 DEF BaselineFound
<1>2. CASE Attempt(k)
  BY <1>2 DEF Attempt
<1>3. CASE TakeRow(k)
  BY <1>3 DEF TakeRow
<1>4. CASE PauseBeforeAttempt(k)
  BY <1>4 DEF PauseBeforeAttempt
<1>5. CASE Succeed(k)
  BY <1>5 DEF Succeed
<1>6. CASE Fail(k)
  BY <1>6 DEF Fail, AfterFailure
<1>7. CASE SkipNoAi(k)
  BY <1>7 DEF SkipNoAi
<1>8. CASE PauseReview(k)
  BY <1>8 DEF PauseReview
<1>9. CASE NotifyCheck(k)
  BY <1>9 DEF NotifyCheck
<1>10. CASE NotifyInsert(k)
  BY <1>10 DEF NotifyInsert
<1>11. ASSUME NEW p \in Patches, AlreadyReviewed(k, p)
      PROVE Continues(k) /\ status' = status /\ UNCHANGED noTask
  BY <1>11 DEF AlreadyReviewed
<1>12. ASSUME NEW p \in Patches, BlockedByFailure(k, p)
      PROVE Continues(k) /\ status' = status /\ UNCHANGED noTask
  BY <1>12 DEF BlockedByFailure
<1>13. ASSUME NEW p \in Patches, SkipIgnored(k, p)
      PROVE Continues(k) /\ status' = status /\ UNCHANGED noTask
  BY <1>13 DEF SkipIgnored
<1>14. ASSUME NEW p \in Patches, StartPatch(k, p)
      PROVE Continues(k) /\ status' = status /\ UNCHANGED noTask
  BY <1>14 DEF StartPatch
<1> QED
  BY <1>1, <1>2, <1>3, <1>4, <1>5, <1>6, <1>7, <1>8, <1>9, <1>10, <1>11, <1>12, <1>13, <1>14 DEF Works, PatchStep

\* The three ways a task ends: its patchset gets another status.
LEMMA EndStep ==
  ASSUME TypeInv, NEW k \in Permits, Ends(k)
  PROVE  /\ task' = [task EXCEPT ![k] = Free]
         /\ task[k].ps \in Patchsets /\ task[k].pc \notin {"free", "spawned"}
         /\ \E st \in {"Pending"} \cup Completed :
              status' = [status EXCEPT ![task[k].ps] = st]
         /\ UNCHANGED <<reviews, outbox, owed, noTask>>
<1> USE DEF TypeInv, TypeOK, TaskOK, Become, At, Completed
<1>1. CASE SetupFails(k)
  BY <1>1 DEF SetupFails
<1>2. CASE Park(k)
  BY <1>2 DEF Park
<1>3. CASE WriteFinal(k)
  BY <1>3 DEF WriteFinal
<1> QED BY <1>1, <1>2, <1>3 DEF Ends

(***************************************************************************)
(* InReviewIsOwned is inductive on its own.                                *)
(***************************************************************************)
LEMMA InReviewNext == TypeInv /\ InReviewIsOwned /\ [Next]_vars => InReviewIsOwned'
<1> SUFFICES ASSUME TypeInv, InReviewIsOwned, [Next]_vars, loop' # "boot",
                    NEW s \in Patchsets, status'[s] = "In Review"
             PROVE  \E l \in Permits : Busy(l, s)'
  BY DEF InReviewIsOwned
<1> USE DEF TypeInv, TypeOK, Busy, InReviewIsOwned
<1>1. CASE Boot
  BY <1>1 DEF Boot, ResetStatus
<1>2. CASE Poll \/ ReleaseScan \/ ReleaseCheck \/ ReleaseInsert \/ ReleaseEnd
  BY <1>2 DEF Poll, ReleaseScan, ReleaseCheck, ReleaseInsert, ReleaseEnd
<1>3. ASSUME NEW k \in Permits, Dispatch(k) PROVE \E l \in Permits : Busy(l, s)'
  <2>1. PICK l \in Permits : Busy(l, s)
    BY <1>3 DEF Dispatch
  <2>2. l # k /\ task'[l] = task[l]
    BY <1>3, <2>1 DEF Dispatch, Become
  <2> QED BY <2>1, <2>2
<1>4. ASSUME NEW k \in Permits, Begin(k) PROVE \E l \in Permits : Busy(l, s)'
  <2>1. /\ task'[k].ps = task[k].ps /\ task'[k].pc = "setup"
        /\ \A l \in Permits \ {k} : task'[l] = task[l]
    <3>1. task[k] \in Task /\ task' = [task EXCEPT ![k] = [task[k] EXCEPT !.pc = "setup"]]
      BY <1>4 DEF Begin, Become
    <3> QED BY <3>1 DEF Task
  <2>2. CASE s = task[k].ps
    BY <2>1, <2>2
  <2>3. CASE s # task[k].ps
    <3>1. PICK l \in Permits : Busy(l, s)
      BY <1>4, <2>3 DEF Begin, noTask
    <3> QED BY <2>1, <2>3, <3>1
  <2> QED BY <2>2, <2>3
<1>5. ASSUME NEW k \in Permits, Works(k) PROVE \E l \in Permits : Busy(l, s)'
  <2>1. PICK l \in Permits : Busy(l, s)
    BY <1>5, WorkStep DEF noTask
  <2> QED BY <1>5, <2>1, WorkStep DEF Continues
<1>6. ASSUME NEW k \in Permits, Ends(k) PROVE \E l \in Permits : Busy(l, s)'
  <2>1. /\ task' = [task EXCEPT ![k] = Free]
        /\ task[k].ps \in Patchsets
        /\ \E st \in {"Pending"} \cup Completed :
              status' = [status EXCEPT ![task[k].ps] = st]
        /\ UNCHANGED noTask
    BY <1>6, EndStep
  <2>2. PICK st \in {"Pending"} \cup Completed : status' = [status EXCEPT ![task[k].ps] = st]
    BY <2>1
  <2>3. s # task[k].ps /\ status[s] = "In Review"
    BY <2>1, <2>2 DEF Completed
  <2>4. loop # "boot"
    BY <2>1 DEF noTask
  <2>5. PICK l \in Permits : Busy(l, s)
    BY <2>3, <2>4
  <2>6. l # k /\ task'[l] = task[l]
    BY <2>1, <2>3, <2>5
  <2> QED BY <2>5, <2>6
<1>7. ASSUME NEW k \in Permits, ReadBack(k) PROVE \E l \in Permits : Busy(l, s)'
  <2>0. UNCHANGED <<status, loop>> /\ \A l \in Permits \ {k} : task'[l] = task[l]
    BY <1>7 DEF ReadBack, Become, noTask
  <2>1. PICK l \in Permits : Busy(l, s)
    BY <2>0
  <2>2. CASE l = k
    <3>1. status[task[k].ps] # "Cancelled" /\ task[k] \in Task
      BY <2>0, <2>1, <2>2
    <3>2. task' = [task EXCEPT ![k] = [task[k] EXCEPT !.pc = "final"]]
      BY <1>7, <3>1 DEF ReadBack, Become
    <3>3. task'[k].pc = "final" /\ task'[k].ps = task[k].ps
      BY <3>1, <3>2 DEF Task
    <3> QED BY <2>1, <2>2, <3>3
  <2>3. CASE l # k
    BY <2>0, <2>1, <2>3
  <2> QED BY <2>2, <2>3
<1>8. ASSUME NEW x \in Patchsets,
             \/ \E force \in BOOLEAN : Cancel(x, force)
             \/ RerunStatus(x) \/ RerunTarget(x) \/ LastPartArrives(x) \/ EmbargoEnds(x) \/ Submits(x)
      PROVE  \E l \in Permits : Busy(l, s)'
  <2>1. task' = task /\ loop' = loop
    BY <1>8 DEF Cancel, RerunStatus, RerunTarget, LastPartArrives, EmbargoEnds,
       Submits, Resubmit, FetchArrives, FetchFails
  <2>2. status[s] = "In Review"
    BY <1>8 DEF Cancel, RerunStatus, RerunTarget, LastPartArrives, EmbargoEnds,
       Submits, Resubmit, FetchArrives, FetchFails
  <2> QED BY <2>1, <2>2
<1>9. CASE RestartFailed \/ CloseWindow \/ OpenWindow
  <2>1. task' = task /\ loop' = loop
    BY <1>9 DEF RestartFailed, CloseWindow, OpenWindow
  <2>2. status[s] = "In Review"
    BY <1>9 DEF RestartFailed, CloseWindow, OpenWindow
  <2> QED BY <2>1, <2>2
<1>10. CASE Crash
  BY <1>10 DEF Crash
<1>11. CASE UNCHANGED vars
  BY <1>11 DEF vars
<1> QED
  BY <1>1, <1>2, <1>3, <1>4, <1>5, <1>6, <1>7, <1>8, <1>9, <1>10, <1>11
     DEF Next, Loop, TaskStep, Works, Ends, Requests

\* Whatever is shown In Review is being reviewed, or the process is booting.
THEOREM InReviewCorrect == Spec => []InReviewIsOwned
<1>1. Init => InReviewIsOwned
  BY DEF Init, InReviewIsOwned
<1>2. Spec => []TypeInv
  BY InitType, NextType, PTL DEF Spec
<1> QED BY <1>1, <1>2, InReviewNext, PTL DEF Spec

(***************************************************************************)
(* Nothing is mailed under an embargo.                                     *)
(***************************************************************************)
\* The steps that neither read nor end an embargo, and mail nothing.
LEMMA MailStep ==
  ASSUME TypeInv, MailInv, UNCHANGED <<embargo, outbox>>,
         rel' = rel \/ \A p \in rel' : embargo[Of[p]] # "active",
         \A k \in Permits : /\ task'[k].pc \in {"notify", "insert"}
                           /\ task'[k] # task[k]
                           => embargo[task'[k].ps] # "active"
  PROVE  MailInv'
BY DEF MailInv, NoMailUnderEmbargo, TypeInv, TypeOK

\* The record of a task that changes, field by field.
LEMMA BecomePc ==
  ASSUME TypeInv, NEW k \in Permits, NEW t, Become(k, t)
  PROVE  task'[k] = t /\ \A l \in Permits \ {k} : task'[l] = task[l]
BY DEF Become, TypeInv, TypeOK

\* The steps of a task that neither lead to a mail nor send one.
Quiet(k) ==
  \/ Begin(k) \/ BaselineFound(k)
  \/ \E p \in Patches : \/ AlreadyReviewed(k, p) \/ BlockedByFailure(k, p)
                      \/ SkipIgnored(k, p) \/ StartPatch(k, p)
  \/ Attempt(k) \/ TakeRow(k) \/ PauseBeforeAttempt(k) \/ Fail(k) \/ SkipNoAi(k)
  \/ PauseReview(k) \/ Ends(k) \/ ReadBack(k)

LEMMA QuietTables == ASSUME NEW k, Quiet(k) PROVE UNCHANGED <<embargo, outbox, rel, loop>>
BY DEF Quiet, Ends, Begin, BaselineFound, AlreadyReviewed, BlockedByFailure, SkipIgnored,
   StartPatch, Attempt, TakeRow, PauseBeforeAttempt, Fail, SkipNoAi, PauseReview,
   SetupFails, Park, ReadBack, WriteFinal, noTask

LEMMA QuietTask ==
  ASSUME TypeInv, NEW k \in Permits, Quiet(k)
  PROVE  /\ task'[k].pc \notin {"notify", "insert"}
         /\ \A l \in Permits \ {k} : task'[l] = task[l]
<1> USE DEF TypeInv, TypeOK, Become
<1>0. task[k] \in Task
  OBVIOUS
<1>1. CASE Begin(k)
  BY <1>0, <1>1 DEF Begin, Task
<1>2. CASE BaselineFound(k)
  BY <1>0, <1>2 DEF BaselineFound, Task
<1>3. ASSUME NEW p \in Patches, AlreadyReviewed(k, p) \/ BlockedByFailure(k, p)
                                \/ SkipIgnored(k, p) \/ StartPatch(k, p)
      PROVE  /\ task'[k].pc \notin {"notify", "insert"}
             /\ \A l \in Permits \ {k} : task'[l] = task[l]
  <2>1. CASE AlreadyReviewed(k, p)
    BY <1>0, <2>1 DEF AlreadyReviewed, Turn, At, Task
  <2>2. CASE BlockedByFailure(k, p)
    BY <1>0, <2>2 DEF BlockedByFailure, Turn, At, Task
  <2>3. CASE SkipIgnored(k, p)
    BY <1>0, <2>3 DEF SkipIgnored, Turn, At, Task
  <2>4. CASE StartPatch(k, p)
    BY <1>0, <2>4 DEF StartPatch, Task
  <2> QED BY <1>3, <2>1, <2>2, <2>3, <2>4
<1>4. CASE Attempt(k)
  BY <1>0, <1>4 DEF Attempt, Task
<1>5. CASE TakeRow(k)
  BY <1>0, <1>5 DEF TakeRow, Task
<1>6. CASE PauseBeforeAttempt(k) \/ PauseReview(k)
  BY <1>0, <1>6 DEF PauseBeforeAttempt, PauseReview, Task
<1>7. CASE Fail(k)
  BY <1>0, <1>7 DEF Fail, AfterFailure, Task
<1>8. CASE SkipNoAi(k)
  BY <1>0, <1>8 DEF SkipNoAi, Task
<1>9. CASE Ends(k)
  BY <1>9, EndStep DEF Free
<1>10. CASE ReadBack(k)
  BY <1>0, <1>10 DEF ReadBack, Free, Task
<1> QED BY <1>1, <1>2, <1>3, <1>4, <1>5, <1>6, <1>7, <1>8, <1>9, <1>10 DEF Quiet, Ends

LEMMA MailNext == TypeInv /\ MailInv /\ [Next]_vars => MailInv'
<1> SUFFICES ASSUME TypeInv, MailInv, [Next]_vars PROVE MailInv'
  OBVIOUS
<1> USE DEF TypeInv, TypeOK
<1>1. CASE Boot \/ Poll \/ ReleaseEnd \/ RestartFailed \/ CloseWindow \/ OpenWindow
            \/ UNCHANGED vars
  <2>1. UNCHANGED <<embargo, outbox, rel, task>>
    BY <1>1 DEF Boot, Poll, ReleaseEnd, RestartFailed, CloseWindow, OpenWindow, vars
  <2> QED BY <2>1, MailStep
<1>2. CASE ReleaseScan
  <2>1. UNCHANGED <<embargo, outbox, task>> /\ \A p \in rel' : embargo[Of[p]] # "active"
    BY <1>2 DEF ReleaseScan, OldestExpired, ReleaseRows, Releasable
  <2> QED BY <2>1, MailStep
<1>3. CASE ReleaseCheck
  <2>1. UNCHANGED <<embargo, outbox, task>> /\ rel' \subseteq rel
    BY <1>3 DEF ReleaseCheck
  <2> QED BY <2>1, MailStep DEF MailInv
<1>4. CASE ReleaseInsert
  <2>1. PICK p \in rel : outbox' = [outbox EXCEPT ![p] = outbox[p] + 1] /\ rel' = rel \ {p}
    BY <1>4 DEF ReleaseInsert
  <2>2. UNCHANGED <<embargo, task>>
    BY <1>4 DEF ReleaseInsert
  <2> QED BY <2>1, <2>2 DEF MailInv, NoMailUnderEmbargo
<1>5. ASSUME NEW k \in Permits, Dispatch(k) PROVE MailInv'
  <2>1. UNCHANGED <<embargo, outbox, rel>>
    BY <1>5 DEF Dispatch
  <2>2. PICK r \in batch : Become(k, [Free EXCEPT !.pc = "spawned", !.ps = r.ps, !.goal = r.goal])
    BY <1>5 DEF Dispatch
  <2>3. task'[k].pc = "spawned"
    <3>1. [Free EXCEPT !.pc = "spawned", !.ps = r.ps, !.goal = r.goal].pc = "spawned"
      BY DEF Free
    <3> QED BY <2>2, <3>1, BecomePc
  <2> QED BY <2>1, <2>2, <2>3, BecomePc, MailStep
<1>6. ASSUME NEW k \in Permits, Quiet(k) PROVE MailInv'
  BY <1>6, QuietTables, QuietTask, MailStep
<1>7. ASSUME NEW k \in Permits, Succeed(k) PROVE MailInv'
  <2>1. UNCHANGED <<embargo, outbox, rel>> /\ task[k] \in Task
    BY <1>7 DEF Succeed, noTask
  <2>2. PICK o \in Outcomes :
          Become(k, [task[k] EXCEPT !.pc = IF o = "ok" /\ MayMail(task[k].ps)
                                           THEN "notify" ELSE "next"])
    BY <1>7 DEF Succeed
  <2>3. /\ task'[k].pc = "notify" => embargo[task[k].ps] # "active"
        /\ task'[k].pc \in {"notify", "next"} /\ task'[k].ps = task[k].ps
        /\ \A l \in Permits \ {k} : task'[l] = task[l]
    BY <2>1, <2>2 DEF Become, MayMail, Task
  <2> QED BY <2>1, <2>3, MailStep
<1>8. ASSUME NEW k \in Permits, NotifyCheck(k) PROVE MailInv'
  <2>1. UNCHANGED <<embargo, outbox, rel>> /\ task[k] \in Task /\ task[k].pc = "notify"
    BY <1>8 DEF NotifyCheck, noTask, At
  <2>2. /\ task'[k].ps = task[k].ps
        /\ \A l \in Permits \ {k} : task'[l] = task[l]
    BY <1>8, <2>1 DEF NotifyCheck, Become, Task
  <2> QED BY <2>1, <2>2, MailStep DEF MailInv
<1>9. ASSUME NEW k \in Permits, NotifyInsert(k) PROVE MailInv'
  <2>1. /\ UNCHANGED <<embargo, rel>> /\ task[k] \in Task /\ task[k].pc = "insert"
        /\ outbox' = [outbox EXCEPT ![task[k].patch] = outbox[task[k].patch] + 1]
    BY <1>9 DEF NotifyInsert, noTask, At
  <2>2. /\ task'[k].pc = "next"
        /\ \A l \in Permits \ {k} : task'[l] = task[l]
    BY <1>9, <2>1 DEF NotifyInsert, Become, Task
  <2>3. embargo[Of[task[k].patch]] # "active"
    BY <2>1 DEF MailInv, TaskOK, OnPatch, PatchesOf
  <2> QED BY <2>1, <2>2, <2>3 DEF MailInv, NoMailUnderEmbargo
<1>10. ASSUME NEW s \in Patchsets, EmbargoEnds(s) PROVE MailInv'
  BY <1>10 DEF EmbargoEnds, MailInv, NoMailUnderEmbargo, TaskOK, ConstantsOK
<1>11. ASSUME NEW s \in Patchsets,
              (\E force \in BOOLEAN : Cancel(s, force)) \/ RerunStatus(s) \/ RerunTarget(s)
                \/ LastPartArrives(s) \/ Submits(s)
       PROVE  MailInv'
  <2>1. UNCHANGED <<embargo, outbox, rel, task>>
    BY <1>11 DEF Cancel, RerunStatus, RerunTarget, LastPartArrives,
       Submits, Resubmit, FetchArrives, FetchFails
  <2> QED BY <2>1, MailStep
<1>12. CASE Crash
  <2>1. UNCHANGED <<embargo, outbox>> /\ rel' = {} /\ \A k \in Permits : task'[k].pc = "free"
    BY <1>12 DEF Crash, Free
  <2> QED BY <2>1, MailStep
<1> QED
  BY <1>1, <1>2, <1>3, <1>4, <1>5, <1>6, <1>7, <1>8, <1>9, <1>10, <1>11, <1>12
     DEF Next, Loop, TaskStep, PatchStep, Requests, Quiet, Ends

\* No mail leaves for a patch whose embargo lasts.
THEOREM EmbargoCorrect == Spec => []NoMailUnderEmbargo
<1>1. Init => MailInv
  BY DEF Init, MailInv, NoMailUnderEmbargo, Free
<1>2. Spec => []TypeInv
  BY InitType, NextType, PTL DEF Spec
<1>3. MailInv => NoMailUnderEmbargo
  BY DEF MailInv
<1> QED BY <1>1, <1>2, <1>3, MailNext, PTL DEF Spec

(***************************************************************************)
(* A patchset is held once, until a rerun or a failed fetch writes over    *)
(* its review; and then it counts as disturbed for good.                   *)
(***************************************************************************)
LEMMA DisturbedGrows == ASSUME [Next]_vars PROVE disturbed \subseteq disturbed'
<1>1. CASE Loop \/ UNCHANGED vars
  BY <1>1 DEF Loop, Boot, Poll, Dispatch, ReleaseScan, ReleaseCheck, ReleaseInsert, ReleaseEnd,
     vars, fetchVars
<1>2. ASSUME NEW k \in Permits, TaskStep(k) PROVE disturbed' = disturbed
  BY <1>2 DEF TaskStep, PatchStep, Begin, SetupFails, BaselineFound, AlreadyReviewed,
     BlockedByFailure, SkipIgnored, StartPatch, Attempt, TakeRow, PauseBeforeAttempt, Succeed,
     Fail, SkipNoAi, PauseReview, NotifyCheck, NotifyInsert, Park, ReadBack, WriteFinal, noTask,
     fetchVars
<1>3. CASE Requests \/ RestartFailed \/ CloseWindow \/ OpenWindow \/ Crash
  BY <1>3 DEF Requests, Cancel, RerunStatus, RerunTarget, LastPartArrives, EmbargoEnds, Submits,
     Resubmit, FetchArrives, FetchFails, RestartFailed, CloseWindow, OpenWindow, Crash, fetchVars
<1> QED BY <1>1, <1>2, <1>3 DEF Next

\* A step that changes neither the tasks nor the batch, and no status but of
\* patchsets that nobody holds or that are disturbed, or to Cancelled.
LEMMA OnceStep ==
  ASSUME TypeInv, OnceInv, UNCHANGED task, batch' = batch, disturbed \subseteq disturbed',
         loop' = loop \/ (loop # "boot" /\ loop' # "boot" /\ batch = {}),
         \A s \in Patchsets :
           \/ status'[s] = status[s]
           \/ status'[s] = "Cancelled"
           \/ status[s] \in {"Fetching", "Incomplete"} \cup Completed
           \/ s \in disturbed'
  PROVE  OnceInv'
<1>1. \A r \in batch : r.ps \in Patchsets
  BY DEF TypeInv, TypeOK
<1>2. \A k \in Permits : task[k].pc # "free" => task[k].ps \in Patchsets
  BY DEF TypeInv, TaskOK
<1>3. \A r \in batch : r.ps \notin disturbed' => status'[r.ps] \in {"Pending", "Cancelled"}
  BY <1>1 DEF OnceInv, Completed
<1>4. \A k \in Permits : task[k].pc = "spawned" /\ task[k].ps \notin disturbed' =>
                        status'[task[k].ps] \in {"Pending", "Cancelled"}
  BY <1>2 DEF OnceInv, Completed
<1>5. \A k \in Permits : task[k].pc \notin {"free", "spawned"} /\ task[k].ps \notin disturbed' =>
                        status'[task[k].ps] \in {"In Review", "Cancelled"}
  BY <1>2 DEF OnceInv, Completed
<1>6. OneTaskPerPatchset'
  BY DEF OnceInv, OneTaskPerPatchset
<1>7. /\ loop' = "boot" => \A k \in Permits : task'[k].pc = "free"
      /\ loop' # "dispatch" => batch' = {}
  BY DEF OnceInv
<1>8. \A r \in batch : r.ps \notin disturbed' => \A k \in Permits : task'[k].ps # r.ps
  BY DEF OnceInv
<1> QED BY <1>3, <1>4, <1>5, <1>6, <1>7, <1>8 DEF OnceInv

\* A task that keeps its patchset and its right to it.
LEMMA OnceTaskStep ==
  ASSUME TypeInv, OnceInv, NEW k \in Permits,
         UNCHANGED <<batch, disturbed, loop>>,
         \A l \in Permits \ {k} : task'[l] = task[l],
         task[k].pc # "free", task[k].ps \in Patchsets,
         task'[k].ps = task[k].ps \/ task'[k] = Free,
         \A s \in Patchsets \ {task[k].ps} : status'[s] = status[s],
         task'[k].pc # "spawned",
         task'[k].pc # "free" /\ task[k].ps \notin disturbed
           => status'[task[k].ps] \in {"In Review", "Cancelled"}
  PROVE  OnceInv'
<1>1. \A l \in Permits : l # k => task'[l] = task[l]
  OBVIOUS
<1>2. \A l \in Permits : l # k /\ task[l].pc # "free" /\ task[l].ps \notin disturbed =>
                        task[l].ps \in Patchsets /\ task[l].ps # task[k].ps
  <2>1. \A l \in Permits : task[l].pc # "free" => task[l].ps \in Patchsets
    BY DEF TypeInv, TaskOK
  <2> QED BY <2>1 DEF OnceInv, OneTaskPerPatchset
<1>3. \A r \in batch : r.ps \notin disturbed => r.ps \in Patchsets /\ r.ps # task[k].ps
  <2>1. \A r \in batch : r.ps \in Patchsets
    BY DEF TypeInv, TypeOK
  <2>2. \A r \in batch : r.ps \notin disturbed => task[k].ps # r.ps
    BY DEF OnceInv
  <2> QED BY <2>1, <2>2
<1>4. \/ task'[k].ps = task[k].ps
      \/ task'[k].pc = "free" /\ task'[k].ps \notin Patchsets
  <2>1. Free.pc = "free" /\ Free.ps = NoPatchset
    BY DEF Free
  <2>2. CASE task'[k] = Free
    BY <2>1, <2>2, ConstantsOK
  <2> QED BY <2>2
<1>5. ASSUME NEW r \in batch, r.ps \notin disturbed
      PROVE  /\ status'[r.ps] \in {"Pending", "Cancelled"}
             /\ \A l \in Permits : task'[l].ps # r.ps
  <2>1. status'[r.ps] = status[r.ps]
    BY <1>3, <1>5
  <2>2. ASSUME NEW l \in Permits PROVE task'[l].ps # r.ps
    <3>1. CASE l = k
      BY <1>3, <1>4, <1>5, <3>1
    <3>2. CASE l # k
      <4>1. task'[l].ps = task[l].ps
        BY <1>1, <3>2
      <4>2. task[l].ps # r.ps
        BY <1>5 DEF OnceInv
      <4> QED BY <4>1, <4>2
    <3> QED BY <3>1, <3>2
  <2>3. status[r.ps] \in {"Pending", "Cancelled"}
    BY <1>5 DEF OnceInv
  <2> QED BY <2>1, <2>2, <2>3
<1>6. ASSUME NEW l \in Permits, task'[l].ps \notin disturbed
      PROVE  /\ task'[l].pc = "spawned" => status'[task'[l].ps] \in {"Pending", "Cancelled"}
             /\ task'[l].pc \notin {"free", "spawned"} =>
                  status'[task'[l].ps] \in {"In Review", "Cancelled"}
  <2>1. CASE l = k
    BY <1>4, <1>6, <2>1
  <2>2. CASE l # k
    <3>1. task'[l] = task[l] /\ (task[l].pc # "free" => status'[task[l].ps] = status[task[l].ps])
      BY <1>1, <1>2, <1>6, <2>2
    <3> QED BY <1>6, <3>1 DEF OnceInv
  <2> QED BY <2>1, <2>2
<1>7. OneTaskPerPatchset'
  <2> SUFFICES ASSUME NEW l \in Permits, NEW m \in Permits, task'[l].pc # "free",
                      task'[l].ps = task'[m].ps, task'[l].ps \notin disturbed, l # m
               PROVE  FALSE
    BY DEF OneTaskPerPatchset
  <2>1. CASE l = k
    <3>1. task'[m] = task[m] /\ task[m].ps = task[k].ps /\ task[k].ps \notin disturbed
      BY <1>1, <1>4, <2>1
    <3> QED BY <2>1, <3>1 DEF OnceInv, OneTaskPerPatchset
  <2>2. CASE l # k
    <3>1. /\ task'[l] = task[l] /\ task[l].ps \in Patchsets /\ task[l].ps # task[k].ps
          /\ task[l].ps \notin disturbed
      BY <1>1, <1>2, <2>2
    <3>2. m # k
      BY <1>4, <3>1
    <3>3. task'[m] = task[m]
      BY <1>1, <3>2
    <3>4. task[l].pc # "free" /\ task[l].ps = task[m].ps
      BY <3>1, <3>3
    <3> QED BY <3>1, <3>4 DEF OnceInv, OneTaskPerPatchset
  <2> QED BY <2>1, <2>2
<1> QED BY <1>5, <1>6, <1>7 DEF OnceInv

LEMMA OnceNext ==
  ASSUME TypeInv, OnceInv, [Next]_vars
  PROVE  OnceInv'
<1> USE DEF TypeInv, TypeOK, fetchVars
<1>1. CASE Boot
  <2>1. \A k \in Permits : task[k].pc = "free"
    BY <1>1 DEF Boot, OnceInv
  <2>2. UNCHANGED <<task, disturbed, batch>> /\ batch = {} /\ loop' = "poll"
    BY <1>1 DEF Boot, OnceInv
  <2> QED BY <2>1, <2>2 DEF OnceInv, OneTaskPerPatchset
<1>2. CASE Poll
  <2>1. UNCHANGED <<status, task, disturbed>> /\ loop' = "dispatch" /\ loop = "poll"
    BY <1>2 DEF Poll
  <2>2. /\ \A r \in batch' : r.ps \in Patchsets /\ status[r.ps] = "Pending"
        /\ \A r1, r2 \in batch' : r1.ps = r2.ps => r1 = r2
    <3>1. \A s \in NewestPending : s \in Patchsets /\ status[s] = "Pending"
      BY DEF NewestPending, PendingRows, Pollable
    <3>2. CASE batch' = {}
      BY <3>2
    <3>3. CASE batch' = {[ps |-> s, goal |-> target[s]] : s \in NewestPending}
      BY <3>1, <3>3
    <3> QED BY <1>2, <3>2, <3>3 DEF Poll
  <2>4. \A k \in Permits : task[k].pc # "spawned"
    BY <1>2 DEF Poll
  <2>5. \A r \in batch', k \in Permits : r.ps \notin disturbed => task[k].ps # r.ps
    BY <2>2, <2>4 DEF OnceInv, TaskOK
  <2> QED BY <2>1, <2>2, <2>4, <2>5 DEF OnceInv, OneTaskPerPatchset
<1>3. CASE ReleaseScan \/ ReleaseCheck \/ ReleaseInsert \/ ReleaseEnd
  <2>1. UNCHANGED <<task, disturbed, batch, status>>
    BY <1>3 DEF ReleaseScan, ReleaseCheck, ReleaseInsert, ReleaseEnd
  <2>2. loop # "boot" /\ loop' # "boot" /\ batch = {}
    BY <1>3 DEF ReleaseScan, ReleaseCheck, ReleaseInsert, ReleaseEnd, OnceInv
  <2> QED BY <2>1, <2>2, OnceStep
<1>4. ASSUME NEW k \in Permits, Dispatch(k) PROVE OnceInv'
  <2>1. PICK r \in batch :
          /\ batch' = batch \ {r}
          /\ Become(k, [Free EXCEPT !.pc = "spawned", !.ps = r.ps, !.goal = r.goal])
    BY <1>4 DEF Dispatch
  <2>2. /\ task[k].pc = "free" /\ loop = "dispatch"
        /\ UNCHANGED <<status, disturbed, loop>>
    BY <1>4 DEF Dispatch
  <2> DEFINE t == [Free EXCEPT !.pc = "spawned", !.ps = r.ps, !.goal = r.goal]
  <2>3. t.pc = "spawned" /\ t.ps = r.ps
    BY DEF Free
  <2>4. task'[k] = t /\ \A l \in Permits \ {k} : task'[l] = task[l]
    BY <2>1, BecomePc
  <2> HIDE DEF t
  <2>5. \A l \in Permits : l # k =>
          task'[l] = task[l] /\ (r.ps \notin disturbed => task[l].ps # r.ps)
    BY <2>4 DEF OnceInv
  <2>6. OneTaskPerPatchset'
    <3> SUFFICES ASSUME NEW l \in Permits, NEW m \in Permits, task'[l].pc # "free",
                        task'[l].ps = task'[m].ps, task'[l].ps \notin disturbed, l # m
                 PROVE  FALSE
      BY <2>2 DEF OneTaskPerPatchset
    <3>1. CASE l = k
      <4>1. task'[l].ps = r.ps
        BY <2>3, <2>4, <3>1
      <4>2. task'[m].ps # r.ps
        BY <2>5, <3>1
      <4> QED BY <4>1, <4>2
    <3>2. CASE m = k
      <4>1. task'[m].ps = r.ps
        BY <2>3, <2>4, <3>2
      <4>2. task'[l].ps # r.ps
        BY <2>5, <3>2
      <4> QED BY <4>1, <4>2
    <3>3. CASE l # k /\ m # k
      <4>1. task'[l] = task[l] /\ task'[m] = task[m]
        BY <2>5, <3>3
      <4>2. task[l].pc # "free" /\ task[l].ps = task[m].ps /\ task[l].ps \notin disturbed
        BY <2>2, <4>1
      <4> QED BY <4>2 DEF OnceInv, OneTaskPerPatchset
    <3> QED BY <3>1, <3>2, <3>3
  <2>7. \A x \in batch : x # r => x.ps # r.ps
    BY DEF OnceInv
  <2>8. ASSUME NEW x \in batch', x.ps \notin disturbed
        PROVE  /\ status'[x.ps] \in {"Pending", "Cancelled"}
               /\ \A l \in Permits : task'[l].ps # x.ps
    <3>1. x \in batch /\ x.ps # r.ps
      BY <2>1, <2>7
    <3>2. status'[x.ps] \in {"Pending", "Cancelled"}
      BY <2>2, <2>8, <3>1 DEF OnceInv
    <3>3. ASSUME NEW l \in Permits PROVE task'[l].ps # x.ps
      <4>1. CASE l = k
        BY <2>3, <2>4, <3>1, <4>1
      <4>2. CASE l # k
        <5>1. task'[l].ps = task[l].ps
          BY <2>5, <4>2
        <5>2. task[l].ps # x.ps
          BY <2>8, <3>1 DEF OnceInv
        <5> QED BY <5>1, <5>2
      <4> QED BY <4>1, <4>2
    <3> QED BY <3>2, <3>3
  <2>9. r.ps \notin disturbed => status[r.ps] \in {"Pending", "Cancelled"}
    BY DEF OnceInv
  <2>10. ASSUME NEW l \in Permits, task'[l].ps \notin disturbed
         PROVE  /\ task'[l].pc = "spawned" => status'[task'[l].ps] \in {"Pending", "Cancelled"}
                /\ task'[l].pc \notin {"free", "spawned"} =>
                     status'[task'[l].ps] \in {"In Review", "Cancelled"}
    <3>1. CASE l = k
      BY <2>2, <2>3, <2>4, <2>9, <2>10, <3>1
    <3>2. CASE l # k
      BY <2>2, <2>5, <2>10, <3>2 DEF OnceInv
    <3> QED BY <3>1, <3>2
  <2>11. \A r1, r2 \in batch' : r1.ps = r2.ps => r1 = r2
    BY <2>1 DEF OnceInv
  <2>12. disturbed' = disturbed /\ loop' = "dispatch"
    BY <2>2
  <2> QED BY <2>6, <2>8, <2>10, <2>11, <2>12 DEF OnceInv
<1>5. ASSUME NEW k \in Permits, Begin(k) PROVE OnceInv'
  <2>1. /\ UNCHANGED <<batch, disturbed, loop>> /\ task[k] \in Task /\ task[k].pc = "spawned"
        /\ status' = [status EXCEPT ![task[k].ps] = "In Review"]
    BY <1>5 DEF Begin, noTask, At
  <2>2. /\ task'[k].pc = "setup" /\ task'[k].ps = task[k].ps
        /\ \A l \in Permits \ {k} : task'[l] = task[l]
    BY <1>5, <2>1 DEF Begin, Become, Task
  <2>3. task[k].ps \in Patchsets
    BY <2>1 DEF TaskOK
  <2> QED BY <2>1, <2>2, <2>3, OnceTaskStep
<1>6. ASSUME NEW k \in Permits, Works(k) PROVE OnceInv'
  <2>1. Continues(k) /\ UNCHANGED <<status, batch, disturbed, loop>>
    BY <1>6, WorkStep DEF noTask
  <2>2. /\ task[k].ps \in Patchsets
        /\ task[k].ps \notin disturbed => status[task[k].ps] \in {"In Review", "Cancelled"}
    BY <2>1 DEF Continues, TaskOK, OnceInv
  <2> QED BY <2>1, <2>2, OnceTaskStep DEF Continues
<1>7. ASSUME NEW k \in Permits, Ends(k) PROVE OnceInv'
  <2>1. /\ task' = [task EXCEPT ![k] = Free] /\ UNCHANGED <<batch, disturbed, loop>>
        /\ task[k].ps \in Patchsets /\ task[k].pc # "free"
    BY <1>7, EndStep DEF noTask
  <2>2. \A s \in Patchsets \ {task[k].ps} : status'[s] = status[s]
    BY <1>7, EndStep
  <2>3. task'[k] = Free /\ Free.pc = "free" /\ \A l \in Permits \ {k} : task'[l] = task[l]
    BY <2>1 DEF Free
  <2> QED BY <2>1, <2>2, <2>3, OnceTaskStep
<1>8. ASSUME NEW k \in Permits, ReadBack(k) PROVE OnceInv'
  <2>1. /\ UNCHANGED <<status, batch, disturbed, loop>> /\ task[k] \in Task
        /\ task[k].pc = "next"
    BY <1>8 DEF ReadBack, noTask, At
  <2>2. \A l \in Permits \ {k} : task'[l] = task[l]
    BY <1>8 DEF ReadBack, Become
  <2>3. \/ task'[k] = Free
        \/ task'[k].ps = task[k].ps /\ task'[k].pc = "final"
    BY <1>8, <2>1 DEF ReadBack, Become, Task
  <2>4. /\ task[k].ps \in Patchsets
        /\ task[k].ps \notin disturbed => status[task[k].ps] \in {"In Review", "Cancelled"}
    BY <2>1 DEF TaskOK, OnceInv
  <2>5. Free.pc = "free"
    BY DEF Free
  <2> QED BY <2>1, <2>2, <2>3, <2>4, <2>5, OnceTaskStep
<1>0. disturbed \subseteq disturbed'
  BY DisturbedGrows
<1>9. ASSUME NEW s \in Patchsets, RerunStatus(s) \/ RerunTarget(s) PROVE OnceInv'
  <2>1. UNCHANGED <<task, batch, loop>>
    BY <1>9 DEF RerunStatus, RerunTarget
  <2>2. \A x \in Patchsets : status'[x] = status[x] \/ x \in disturbed'
    BY <1>9 DEF RerunStatus, RerunTarget
  <2> QED BY <1>0, <2>1, <2>2, OnceStep
<1>10. ASSUME NEW s \in Patchsets,
              \/ \E force \in BOOLEAN : Cancel(s, force)
              \/ LastPartArrives(s) \/ EmbargoEnds(s) \/ Submits(s)
       PROVE  OnceInv'
  <2>1. UNCHANGED <<task, batch, loop>>
    BY <1>10 DEF Cancel, LastPartArrives, EmbargoEnds, Submits, Resubmit, FetchArrives, FetchFails
  <2>2. \A x \in Patchsets : \/ status'[x] = status[x]
                            \/ status'[x] = "Cancelled"
                            \/ status[x] \in {"Fetching", "Incomplete"} \cup Completed
                            \/ x \in disturbed'
    <3>1. CASE Submits(s)
      <4>1. status[s] \in Taken \/ status[s] \in {"Fetching", "Incomplete"} \cup Completed
        BY DEF Status, Taken, Completed
      <4> QED BY <3>1, <4>1 DEF Submits, Resubmit, FetchArrives, FetchFails, Completed
    <3> QED BY <1>10, <3>1 DEF Cancel, LastPartArrives, EmbargoEnds
  <2> QED BY <1>0, <2>1, <2>2, OnceStep
<1>11. CASE RestartFailed
  <2>1. UNCHANGED <<task, batch, disturbed, loop>>
    BY <1>11 DEF RestartFailed
  <2>2. \A x \in Patchsets : status'[x] = status[x] \/ status[x] \in Completed
    BY <1>11 DEF RestartFailed, FailedSets, Completed
  <2> QED BY <2>1, <2>2, OnceStep
<1>12. CASE CloseWindow \/ OpenWindow \/ UNCHANGED vars
  <2>1. UNCHANGED <<task, batch, disturbed, loop, status>>
    BY <1>12 DEF CloseWindow, OpenWindow, vars
  <2> QED BY <2>1, OnceStep
<1>13. CASE Crash
  <2>1. /\ batch' = {} /\ loop' = "boot"
        /\ \A k \in Permits : task'[k].pc = "free"
    BY <1>13 DEF Crash, Free
  <2> QED BY <2>1 DEF OnceInv, OneTaskPerPatchset
<1> QED
  BY <1>1, <1>2, <1>3, <1>4, <1>5, <1>6, <1>7, <1>8, <1>9, <1>10, <1>11, <1>12, <1>13
     DEF Next, Loop, TaskStep, Works, Ends, Requests

LEMMA OnceInvariant == Spec => [](TypeInv /\ OnceInv)
<1>1. Init => OnceInv
  <2> SUFFICES ASSUME Init PROVE OnceInv
    OBVIOUS
  <2>1. \A k \in Permits : task[k].pc = "free"
    BY DEF Init, Free
  <2>2. batch = {}
    BY DEF Init
  <2> QED BY <2>1, <2>2 DEF OnceInv, OneTaskPerPatchset
<1>2. TypeInv /\ OnceInv /\ [Next]_vars => OnceInv'
  BY OnceNext
<1> QED BY <1>1, <1>2, InitType, NextType, PTL DEF Spec

\* Two tasks never work on one patchset, unless a rerun or a failed fetch wrote
\* over its review: whatever is done to the other patchsets.
THEOREM OneTaskCorrect == Spec => []OneTaskPerPatchset
<1>1. TypeInv /\ OnceInv => OneTaskPerPatchset
  BY DEF OnceInv
<1> QED BY <1>1, OnceInvariant, PTL

\* Nobody holds a patchset that shows its outcome, again but for the patchsets
\* whose review a rerun or a failed fetch wrote over.
THEOREM OutcomeCorrect == Spec => []OutcomeIsQuiet
<1>1. TypeInv /\ OnceInv => OutcomeIsQuiet
  <2> SUFFICES ASSUME TypeInv, OnceInv PROVE OutcomeIsQuiet
    OBVIOUS
  <2>1. \A k \in Permits : task[k].ps \in Patchsets \ disturbed =>
                          status[task[k].ps] \in {"Pending", "Cancelled", "In Review"}
    BY DEF TypeInv, TaskOK, OnceInv
  <2>2. \A r \in batch : r.ps \notin disturbed => status[r.ps] \in {"Pending", "Cancelled"}
    BY DEF OnceInv
  <2> QED BY <2>1, <2>2 DEF OutcomeIsQuiet, Completed
<1> QED BY <1>1, OnceInvariant, PTL

(***************************************************************************)
(* A patch is mailed once.  Whoever inserts found no row, and the patchset *)
(* is his: a task holds it In Review or Cancelled, the release loop only   *)
(* takes it once it is Reviewed.                                           *)
(***************************************************************************)
\* The steps that insert nothing and take back no Reviewed, unless they write over it.
LEMMA MailOnceStep ==
  ASSUME TypeInv, MailOnceInv, UNCHANGED outbox, disturbed \subseteq disturbed',
         rel' = {} \/ (rel' = rel /\ \A s \in Patchsets :
                          status[s] = "Reviewed" => status'[s] = "Reviewed" \/ s \in disturbed'),
         loop' = "mail" => loop = "mail" /\ rel' = rel,
         \A k \in Permits : task'[k].pc = "insert" =>
                            \/ task'[k] = task[k]
                            \/ task'[k].ps \notin disturbed' => outbox[task'[k].patch] = 0
  PROVE  MailOnceInv'
<1> USE DEF TypeInv, TypeOK, MailOnceInv, ConstantsOK
<1>1. \A p \in rel' : Of[p] \notin disturbed' => status'[Of[p]] = "Reviewed"
  BY ConstantsOK
<1>2. \A k \in Permits : task'[k].pc = "insert" /\ task'[k].ps \notin disturbed' =>
                         outbox'[task'[k].patch] = 0
  OBVIOUS
<1>3. OneMailPerReview'
  BY DEF OneMailPerReview, Undisturbed
<1>4. loop' = "mail" => \E p \in rel' : (\A q \in rel' : p <= q) /\ (Of[p] \notin disturbed' => outbox'[p] = 0)
  <2> SUFFICES ASSUME loop' = "mail"
               PROVE  \E p \in rel : (\A q \in rel : p <= q) /\ (Of[p] \notin disturbed' => outbox[p] = 0)
    OBVIOUS
  <2>1. PICK p \in rel : (\A q \in rel : p <= q) /\ (Of[p] \notin disturbed => outbox[p] = 0)
    OBVIOUS
  <2> QED BY <2>1
<1> QED BY <1>1, <1>2, <1>3, <1>4

LEMMA MailOnceNext ==
  ASSUME TypeInv, OnceInv, MailOnceInv, [Next]_vars
  PROVE  MailOnceInv'
<1> USE DEF TypeInv, TypeOK
<1>0. disturbed \subseteq disturbed'
  BY DisturbedGrows
<1>1. CASE Poll \/ ReleaseEnd \/ CloseWindow \/ OpenWindow \/ UNCHANGED vars
  <2>1. UNCHANGED <<outbox, rel, task, status>> /\ (loop' = "mail" => loop = "mail")
    BY <1>1 DEF Poll, ReleaseEnd, CloseWindow, OpenWindow, vars
  <2> QED BY <2>1, <1>0, MailOnceStep
<1>2. CASE Boot \/ RestartFailed
  <2>1. UNCHANGED <<outbox, rel, task>> /\ (loop' = "mail" => loop = "mail")
    BY <1>2 DEF Boot, RestartFailed
  <2>2. \A s \in Patchsets : status[s] = "Reviewed" => status'[s] = "Reviewed"
    BY <1>2 DEF Boot, ResetStatus, RestartFailed, FailedSets
  <2> QED BY <2>1, <2>2, <1>0, MailOnceStep
<1>3. CASE ReleaseScan
  <2>1. UNCHANGED <<outbox, task, status, disturbed>> /\ loop' = "release"
        /\ \A p \in rel' : status[Of[p]] = "Reviewed"
    BY <1>3 DEF ReleaseScan, OldestExpired, ReleaseRows, Releasable, fetchVars
  <2> QED BY <2>1 DEF MailOnceInv, OneMailPerReview, Undisturbed
<1>4. CASE ReleaseCheck
  <2>1. PICK p \in rel :
          /\ \A q \in rel : p <= q
          /\ IF Queued(p) THEN rel' = rel \ {p} /\ UNCHANGED loop
                          ELSE loop' = "mail" /\ UNCHANGED rel
    BY <1>4 DEF ReleaseCheck
  <2>2. UNCHANGED <<outbox, task, status, disturbed>> /\ loop = "release"
    BY <1>4 DEF ReleaseCheck, fetchVars
  <2>3. rel' \subseteq rel /\ (loop' = "mail" => rel' = rel /\ outbox[p] = 0)
    BY <2>1, <2>2 DEF Queued
  <2> QED BY <2>1, <2>2, <2>3 DEF MailOnceInv, OneMailPerReview, Undisturbed
<1>5. CASE ReleaseInsert
  <2>1. PICK p \in rel :
          /\ \A q \in rel : p <= q
          /\ outbox' = [outbox EXCEPT ![p] = outbox[p] + 1]
          /\ rel' = rel \ {p}
    BY <1>5 DEF ReleaseInsert
  <2>2. UNCHANGED <<task, status, disturbed>> /\ loop = "mail" /\ loop' = "release"
    BY <1>5 DEF ReleaseInsert, fetchVars
  <2>3. p \in Patches /\ (Of[p] \notin disturbed => outbox[p] = 0)
    <3>1. PICK q \in rel : (\A x \in rel : q <= x) /\ (Of[q] \notin disturbed => outbox[q] = 0)
      BY <2>2 DEF MailOnceInv
    <3>2. p = q
      BY <2>1, <3>1, ConstantsOK
    <3> QED BY <3>1, <3>2
  <2>4. ASSUME NEW k \in Permits, task[k].pc = "insert", task[k].ps \notin disturbed
        PROVE  task[k].patch \in Patches /\ task[k].patch # p
    <3>1. Of[p] \notin disturbed => status[Of[p]] = "Reviewed"
      BY DEF MailOnceInv
    <3>2. /\ task[k].patch \in Patches /\ Of[task[k].patch] = task[k].ps
          /\ status[task[k].ps] # "Reviewed"
      BY <2>4 DEF TaskOK, OnPatch, PatchesOf, OnceInv
    <3> QED BY <2>4, <3>1, <3>2
  <2>5. \A x \in Patches : Of[x] \notin disturbed => outbox'[x] <= 1
    BY <2>1, <2>3 DEF MailOnceInv, OneMailPerReview, Undisturbed
  <2>6. \A k \in Permits : task'[k].pc = "insert" /\ task'[k].ps \notin disturbed =>
                           outbox'[task'[k].patch] = 0
    BY <2>1, <2>2, <2>4 DEF MailOnceInv
  <2> QED BY <2>1, <2>2, <2>5, <2>6 DEF MailOnceInv, OneMailPerReview, Undisturbed
<1>6. ASSUME NEW k \in Permits, Dispatch(k) PROVE MailOnceInv'
  <2>1. UNCHANGED <<outbox, rel, loop, status>>
    BY <1>6 DEF Dispatch
  <2>2. PICK r \in batch : Become(k, [Free EXCEPT !.pc = "spawned", !.ps = r.ps, !.goal = r.goal])
    BY <1>6 DEF Dispatch
  <2>3. task'[k].pc = "spawned"
    <3>1. [Free EXCEPT !.pc = "spawned", !.ps = r.ps, !.goal = r.goal].pc = "spawned"
      BY DEF Free
    <3> QED BY <2>2, <3>1, BecomePc
  <2> QED BY <2>1, <2>2, <2>3, BecomePc, <1>0, MailOnceStep
<1>7. ASSUME NEW k \in Permits, Quiet(k) PROVE MailOnceInv'
  <2>1. UNCHANGED <<outbox, rel, loop>> /\ task'[k].pc # "insert"
        /\ \A l \in Permits \ {k} : task'[l] = task[l]
    BY <1>7, QuietTables, QuietTask
  <2>2. \A s \in Patchsets :
          status[s] = "Reviewed" => status'[s] = "Reviewed" \/ s \in disturbed'
    <3>1. CASE Begin(k)
      <4>1. /\ task[k].ps \in Patchsets
            /\ task[k].ps \notin disturbed => status[task[k].ps] # "Reviewed"
            /\ status' = [status EXCEPT ![task[k].ps] = "In Review"]
        BY <3>1 DEF Begin, At, TaskOK, OnceInv
      <4> QED BY <1>0, <4>1
    <3>2. CASE Ends(k)
      <4>1. /\ task[k].ps \in Patchsets /\ task[k].pc \notin {"free", "spawned"}
            /\ \A s \in Patchsets \ {task[k].ps} : status'[s] = status[s]
        BY <3>2, EndStep
      <4>2. task[k].ps \notin disturbed => status[task[k].ps] # "Reviewed"
        BY <4>1 DEF OnceInv
      <4> QED BY <1>0, <4>1, <4>2
    <3>3. CASE Works(k)
      BY <3>3, WorkStep
    <3>4. CASE ReadBack(k)
      BY <3>4 DEF ReadBack
    <3> QED BY <1>7, <3>1, <3>2, <3>3, <3>4 DEF Quiet, Works, PatchStep
  <2> QED BY <2>1, <2>2, <1>0, MailOnceStep
<1>8. ASSUME NEW k \in Permits, Succeed(k) PROVE MailOnceInv'
  <2>1. UNCHANGED <<outbox, rel, loop, status>> /\ task[k] \in Task
    BY <1>8 DEF Succeed, noTask
  <2>2. PICK o \in Outcomes :
          Become(k, [task[k] EXCEPT !.pc = IF o = "ok" /\ MayMail(task[k].ps)
                                           THEN "notify" ELSE "next"])
    BY <1>8 DEF Succeed
  <2>3. /\ task'[k].pc \in {"notify", "next"}
        /\ \A l \in Permits \ {k} : task'[l] = task[l]
    BY <2>1, <2>2 DEF Become, Task
  <2> QED BY <2>1, <2>3, <1>0, MailOnceStep
<1>9. ASSUME NEW k \in Permits, NotifyCheck(k) PROVE MailOnceInv'
  <2>1. UNCHANGED <<outbox, rel, loop, status>> /\ task[k] \in Task /\ task[k].pc = "notify"
    BY <1>9 DEF NotifyCheck, noTask, At
  <2>2. /\ task'[k].patch = task[k].patch
        /\ task'[k].pc = "insert" => ~Queued(task[k].patch)
        /\ \A l \in Permits \ {k} : task'[l] = task[l]
    BY <1>9, <2>1 DEF NotifyCheck, Become, Task
  <2>3. task[k].patch \in Patches
    BY <2>1 DEF TaskOK, OnPatch, PatchesOf
  <2>4. task'[k].pc = "insert" => outbox[task'[k].patch] = 0
    BY <2>2, <2>3 DEF Queued
  <2> QED BY <2>1, <2>2, <2>4, <1>0, MailOnceStep
<1>10. ASSUME NEW k \in Permits, NotifyInsert(k) PROVE MailOnceInv'
  <2> DEFINE p == task[k].patch
  <2>1. /\ UNCHANGED <<rel, loop, status, disturbed>> /\ task[k] \in Task /\ task[k].pc = "insert"
        /\ outbox' = [outbox EXCEPT ![p] = outbox[p] + 1]
    BY <1>10 DEF NotifyInsert, noTask, fetchVars, At
  <2>2. /\ task'[k].pc = "next"
        /\ \A l \in Permits \ {k} : task'[l] = task[l]
    BY <1>10, <2>1 DEF NotifyInsert, Become, Task
  <2>3. /\ p \in Patches /\ Of[p] = task[k].ps /\ task[k].ps \in Patchsets
        /\ Of[p] \notin disturbed => outbox[p] = 0 /\ status[task[k].ps] # "Reviewed"
    BY <2>1 DEF TaskOK, OnPatch, PatchesOf, OnceInv, MailOnceInv
  <2>4. Of[p] \notin disturbed => p \notin rel
    BY <2>3 DEF MailOnceInv
  <2>5. ASSUME NEW l \in Permits, task'[l].pc = "insert", task'[l].ps \notin disturbed
        PROVE  outbox'[task'[l].patch] = 0
    <3>1. l # k /\ task'[l] = task[l]
      BY <2>2, <2>5
    <3>2. task[l].pc = "insert" /\ task[l].ps \notin disturbed /\ outbox[task[l].patch] = 0
      BY <2>5, <3>1 DEF MailOnceInv
    <3>3. task[l].patch \in Patches /\ Of[task[l].patch] = task[l].ps
      BY <3>2 DEF TaskOK, OnPatch, PatchesOf
    <3>4. task[l].ps # task[k].ps
      BY <3>1, <3>2 DEF OnceInv, OneTaskPerPatchset
    <3>5. task[l].patch # p
      BY <2>3, <3>3, <3>4
    <3> QED BY <2>1, <3>1, <3>2, <3>5
  <2>6. \A x \in Patches : Of[x] \notin disturbed => outbox'[x] <= 1
    BY <2>1, <2>3 DEF MailOnceInv, OneMailPerReview, Undisturbed
  <2>7. \A x \in rel : Of[x] \notin disturbed => outbox'[x] = outbox[x]
    BY <2>1, <2>4
  <2>8. loop' = "mail" => \E x \in rel' : (\A q \in rel' : x <= q) /\ (Of[x] \notin disturbed' => outbox'[x] = 0)
    <3> SUFFICES ASSUME loop = "mail"
                 PROVE  \E x \in rel : (\A q \in rel : x <= q) /\ (Of[x] \notin disturbed => outbox'[x] = 0)
      BY <2>1
    <3>1. PICK x \in rel : (\A q \in rel : x <= q) /\ (Of[x] \notin disturbed => outbox[x] = 0)
      BY DEF MailOnceInv
    <3> QED BY <2>7, <3>1
  <2>9. \A x \in rel' : Of[x] \notin disturbed' => status'[Of[x]] = "Reviewed"
    BY <2>1 DEF MailOnceInv
  <2>10. OneMailPerReview'
    BY <2>1, <2>6 DEF OneMailPerReview, Undisturbed
  <2> HIDE DEF p
  <2> QED BY <2>1, <2>5, <2>8, <2>9, <2>10 DEF MailOnceInv
<1>11. ASSUME NEW s \in Patchsets,
              \/ \E force \in BOOLEAN : Cancel(s, force)
              \/ LastPartArrives(s) \/ EmbargoEnds(s) \/ Submits(s)
       PROVE  MailOnceInv'
  <2>1. UNCHANGED <<outbox, rel, task, loop>>
    BY <1>11 DEF Cancel, LastPartArrives, EmbargoEnds, Submits, Resubmit, FetchArrives, FetchFails
  <2>2. \A x \in Patchsets :
          status[x] = "Reviewed" => status'[x] = "Reviewed" \/ x \in disturbed'
    BY <1>11 DEF Cancel, LastPartArrives, EmbargoEnds, Submits, Resubmit, FetchArrives, FetchFails,
       Taken
  <2> QED BY <2>1, <2>2, <1>0, MailOnceStep
<1>12. ASSUME NEW s \in Patchsets, RerunStatus(s) \/ RerunTarget(s) PROVE MailOnceInv'
  <2>1. UNCHANGED <<outbox, rel, task, loop>>
    BY <1>12 DEF RerunStatus, RerunTarget
  <2>2. \A x \in Patchsets :
          status[x] = "Reviewed" => status'[x] = "Reviewed" \/ x \in disturbed'
    BY <1>12 DEF RerunStatus, RerunTarget
  <2> QED BY <2>1, <2>2, <1>0, MailOnceStep
<1>13. CASE Crash
  <2>1. UNCHANGED outbox /\ rel' = {} /\ loop' = "boot" /\ \A k \in Permits : task'[k].pc = "free"
    BY <1>13 DEF Crash, Free
  <2> QED BY <2>1, <1>0, MailOnceStep
<1> QED
  BY <1>1, <1>2, <1>3, <1>4, <1>5, <1>6, <1>7, <1>8, <1>9, <1>10, <1>11, <1>12, <1>13
     DEF Next, Loop, TaskStep, PatchStep, Requests, Quiet, Ends

\* A patch is mailed at most once unless a rerun or a failed fetch wrote over its
\* review: tasks, the release loop, restarts, cancels and crashes alone queue no
\* second mail.
THEOREM OneMailCorrect == Spec => []OneMailPerReview
<1>1. Init => MailOnceInv
  BY DEF Init, MailOnceInv, OneMailPerReview, Undisturbed, Free
<1>2. TypeInv /\ OnceInv /\ MailOnceInv /\ [Next]_vars => MailOnceInv'
  BY MailOnceNext
<1>3. MailOnceInv => OneMailPerReview
  BY DEF MailOnceInv
<1> QED BY <1>1, <1>2, <1>3, OnceInvariant, PTL DEF Spec

(***************************************************************************)
(* The rows of the table reviews.  RunningRowIsOwned is inductive.         *)
(***************************************************************************)
\* Writing one row keeps the others; so does appending one.
LEMMA RowReplaced ==
  ASSUME NEW rows \in Seq(Row), NEW n, NEW r, NEW new, new = [rows EXCEPT ![n] = r],
         NEW m \in DOMAIN new
  PROVE  m \in DOMAIN rows /\ new[m] = IF m = n THEN r ELSE rows[m]
BY LenProperties

InReview(row) == row.st = "In Review"

LEMMA RowStatusWritten ==
  ASSUME NEW rows \in Seq(Row), NEW n \in DOMAIN rows
  PROVE  /\ [rows[n] EXCEPT !.st = "Pending"].st = "Pending"
         /\ InReview([rows[n] EXCEPT !.st = "In Review"])
<1>1. rows[n] \in Row
  BY LenProperties
<1> QED BY <1>1 DEF Row, InReview

Added(rows, r) == Append(rows, r)

LEMMA RowAppended ==
  ASSUME NEW rows \in Seq(Row), NEW r \in Row, NEW new, new = Added(rows, r),
         NEW m \in DOMAIN new
  PROVE  \/ m \in DOMAIN rows /\ new[m] = rows[m]
         \/ new[m] = r
<1>1. /\ Len(rows) \in Nat /\ DOMAIN rows = 1 .. Len(rows)
      /\ DOMAIN new = 1 .. Len(rows) + 1
  BY LenProperties, AppendProperties DEF Added
<1>2. CASE m = Len(rows) + 1
  BY <1>1, <1>2, AppendProperties DEF Added
<1>3. CASE m # Len(rows) + 1
  <2>1. m \in 1 .. Len(rows)
    BY <1>1, <1>3
  <2> QED BY <1>1, <2>1, AppendProperties DEF Added
<1> QED BY <1>2, <1>3

\* A row found In Review after a step of task k was just taken by k, or it was
\* In Review before and is not the one k was running.
Found(k, p, n) ==
  \/ task'[k].pc = "running" /\ task'[k].patch = p /\ task'[k].row = n
  \/ /\ n \in DOMAIN reviews[p] /\ InReview(reviews[p][n])
     /\ ~(task[k].pc = "running" /\ task[k].patch = p /\ task[k].row = n)

\* A task that runs the tool writes its row.
LEMMA RunStepFound ==
  ASSUME TypeInv, NEW k \in Permits, NEW p \in Patches,
         Succeed(k) \/ Fail(k) \/ SkipNoAi(k) \/ PauseReview(k),
         NEW n \in DOMAIN reviews'[p], InReview(reviews'[p][n])
  PROVE  Found(k, p, n)
<1> DEFINE rows == reviews[p]
<1>1. rows \in Seq(Row) /\ reviews \in [Patches -> Seq(Row)]
  BY DEF TypeInv, TypeOK
<1>2. CASE p # task[k].patch
  <2>1. reviews'[p] = reviews[p]
    BY <1>1, <1>2 DEF Succeed, Fail, SkipNoAi, PauseReview, Complete, Mark
  <2> QED BY <1>2, <2>1 DEF Found
<1>3. ASSUME p = task[k].patch, NEW st \in {"Reviewed", "Failed", "Skipped"}, NEW ai, NEW inline,
             Complete(k, st, ai, inline)
      PROVE  Found(k, p, n)
  <2> DEFINE r == [st |-> st, ai |-> ai, inline |-> inline]
  <2>1. reviews'[p] = [rows EXCEPT ![task[k].row] = r]
    BY <1>1, <1>3 DEF Complete
  <2>2. ~InReview(r)
    BY DEF InReview
  <2> HIDE DEF r, rows
  <2>3. n \in DOMAIN rows /\ reviews'[p][n] = IF n = task[k].row THEN r ELSE rows[n]
    BY <1>1, <2>1, RowReplaced
  <2>4. n # task[k].row /\ InReview(rows[n])
    BY <2>2, <2>3
  <2> QED BY <2>3, <2>4 DEF Found, rows
<1>4. CASE p = task[k].patch /\ PauseReview(k)
  <2> DEFINE c == task[k].row
             r == [rows[c] EXCEPT !.st = "Pending"]
  <2>1. reviews'[p] = [rows EXCEPT ![c] = r]
    BY <1>1, <1>4 DEF PauseReview, Mark
  <2>2. c \in DOMAIN rows => ~InReview(r)
    BY <1>1, RowStatusWritten DEF InReview
  <2> HIDE DEF rows, r, c
  <2>3. n \in DOMAIN rows /\ reviews'[p][n] = IF n = c THEN r ELSE rows[n]
    BY <1>1, <2>1, RowReplaced
  <2>4. n # c /\ InReview(rows[n])
    BY <2>2, <2>3
  <2> QED BY <2>3, <2>4 DEF Found, rows, c
<1> QED BY <1>2, <1>3, <1>4 DEF Succeed, Fail, SkipNoAi

LEMMA WorkStepFound ==
  ASSUME TypeInv, NEW k \in Permits, Works(k), NEW p \in Patches,
         NEW n \in DOMAIN reviews'[p], InReview(reviews'[p][n])
  PROVE  Found(k, p, n)
<1> DEFINE rows == reviews[p]
<1>1. rows \in Seq(Row) /\ reviews \in [Patches -> Seq(Row)] /\ task[k] \in Task
  BY DEF TypeInv, TypeOK
<1>2. CASE Succeed(k) \/ Fail(k) \/ SkipNoAi(k) \/ PauseReview(k)
  BY <1>2, RunStepFound
<1>3. CASE BaselineFound(k) \/ PauseBeforeAttempt(k) \/ NotifyCheck(k) \/ NotifyInsert(k)
  <2>1. reviews' = reviews /\ task[k].pc # "running"
    BY <1>3 DEF BaselineFound, PauseBeforeAttempt, NotifyCheck, NotifyInsert, At
  <2> QED BY <2>1 DEF Found
<1>4. ASSUME NEW q \in Patches,
             AlreadyReviewed(k, q) \/ BlockedByFailure(k, q) \/ StartPatch(k, q)
      PROVE  Found(k, p, n)
  <2>1. reviews' = reviews /\ task[k].pc # "running"
    BY <1>4 DEF AlreadyReviewed, BlockedByFailure, StartPatch, Turn, At
  <2> QED BY <2>1 DEF Found
<1>5. ASSUME NEW q \in Patches, SkipIgnored(k, q) PROVE Found(k, p, n)
  <2> DEFINE r == [NewRow EXCEPT !.st = "Skipped"]
  <2>0. r \in Row
    BY NewRowType
  <2>1. task[k].pc # "running" /\ ~InReview(r)
    <3>1. r.st = "Skipped"
      BY DEF NewRow
    <3> QED BY <1>5, <3>1 DEF SkipIgnored, Turn, At, InReview
  <2>2. PICK c \in ClaimIds(q) : reviews' = [reviews EXCEPT ![q] = WithRow(reviews[q], c, r)]
    BY <1>5 DEF SkipIgnored
  <2> HIDE DEF r
  <2>3. CASE p # q
    BY <1>1, <2>1, <2>2, <2>3 DEF Found
  <2>4. CASE p = q /\ c = 0
    <3>1. reviews'[p] = Added(rows, r)
      BY <1>1, <2>2, <2>4 DEF WithRow, Added
    <3> HIDE DEF rows
    <3>2. \/ n \in DOMAIN rows /\ reviews'[p][n] = rows[n]
          \/ reviews'[p][n] = r
      BY <1>1, <2>0, <3>1, RowAppended
    <3> QED BY <2>1, <3>2 DEF Found, rows
  <2>5. CASE p = q /\ c # 0
    <3>1. reviews'[p] = [rows EXCEPT ![c] = r]
      BY <1>1, <2>2, <2>5 DEF WithRow
    <3> HIDE DEF rows
    <3>2. n \in DOMAIN rows /\ reviews'[p][n] = IF n = c THEN r ELSE rows[n]
      BY <1>1, <3>1, RowReplaced
    <3>3. InReview(rows[n])
      BY <2>1, <3>2
    <3> QED BY <2>1, <3>2, <3>3 DEF Found, rows
  <2> QED BY <2>3, <2>4, <2>5
<1>6. CASE Attempt(k)
  <2>1. task[k].pc # "running"
    BY <1>6 DEF Attempt, At
  <2>2. CASE reviews'[p] = rows
    BY <2>1, <2>2 DEF Found
  <2>3. CASE reviews'[p] = Added(rows, NewRow)
    <3> HIDE DEF rows
    <3>1. NewRow \in Row
      BY NewRowType
    <3>2. \/ n \in DOMAIN rows /\ reviews'[p][n] = rows[n]
          \/ reviews'[p][n] = NewRow
      BY <1>1, <2>3, <3>1, RowAppended
    <3>3. ~InReview(NewRow)
      BY DEF NewRow, InReview
    <3> QED BY <2>1, <3>2, <3>3 DEF Found, rows
  <2> QED BY <1>1, <1>6, <2>2, <2>3 DEF Attempt, Added
<1>7. CASE TakeRow(k)
  <2>1. task[k].pc = "take" /\ reviews' = [reviews EXCEPT ![task[k].patch] =
                                      [reviews[task[k].patch] EXCEPT ![task[k].row].st = "In Review"]]
    BY <1>7 DEF TakeRow, Mark, At
  <2>2. task'[k] = [task[k] EXCEPT !.pc = "running"]
    BY <1>7, BecomePc DEF TakeRow
  <2>3. task'[k].pc = "running" /\ task'[k].patch = task[k].patch /\ task'[k].row = task[k].row
    BY <1>1, <2>2 DEF Task
  <2>4. CASE p # task[k].patch
    BY <1>1, <2>1, <2>4 DEF Found
  <2>5. CASE p = task[k].patch
    <3> DEFINE c == task[k].row
               r == [rows[c] EXCEPT !.st = "In Review"]
    <3>1. reviews'[p] = [rows EXCEPT ![c] = r]
      BY <1>1, <2>1, <2>5
    <3> HIDE DEF rows, r, c
    <3>2. n \in DOMAIN rows /\ reviews'[p][n] = IF n = c THEN r ELSE rows[n]
      BY <1>1, <3>1, RowReplaced
    <3> QED BY <2>1, <2>3, <2>5, <3>2 DEF Found, rows, c
  <2> QED BY <2>4, <2>5
<1> QED
  BY <1>2, <1>3, <1>4, <1>5, <1>6, <1>7 DEF Works, PatchStep

LEMMA RunningRowNext == TypeInv /\ RunningRowIsOwned /\ [Next]_vars => RunningRowIsOwned'
<1> SUFFICES ASSUME TypeInv, RunningRowIsOwned, [Next]_vars, loop' # "boot",
                    NEW p \in Patches, NEW n \in DOMAIN reviews'[p],
                    reviews'[p][n].st = "In Review"
             PROVE  \E l \in Permits : task'[l].pc = "running" /\ task'[l].patch = p
                                                               /\ task'[l].row = n
  BY DEF RunningRowIsOwned, At
<1> DEFINE Owner(l) == task[l].pc = "running" /\ task[l].patch = p /\ task[l].row = n
<1>0. loop # "boot" /\ n \in DOMAIN reviews[p] /\ reviews[p][n].st = "In Review"
        => \E l \in Permits : Owner(l)
  <2>1. ASSUME loop # "boot", n \in DOMAIN reviews[p], reviews[p][n].st = "In Review"
        PROVE  \E l \in Permits : Owner(l)
    <3>1. \A m \in DOMAIN reviews[p] : reviews[p][m].st = "In Review" =>
            \E l \in Permits : At(l, "running") /\ task[l].patch = p /\ task[l].row = m
      BY <2>1 DEF RunningRowIsOwned
    <3> QED BY <2>1, <3>1 DEF At
  <2> QED BY <2>1
<1>1. CASE Boot
  <2>1. reviews[p] \in Seq(Row) /\ reviews'[p] = [m \in DOMAIN reviews[p] |-> ResetRow(reviews[p][m])]
    BY <1>1 DEF Boot, TypeInv, TypeOK
  <2>2. n \in DOMAIN reviews[p] /\ reviews'[p][n] = ResetRow(reviews[p][n])
    BY <2>1
  <2>3. reviews[p][n] \in Row
    BY <2>1, <2>2, LenProperties
  <2> QED BY <2>2, <2>3 DEF ResetRow, Row
<1>2. CASE Poll \/ ReleaseScan \/ ReleaseCheck \/ ReleaseInsert \/ ReleaseEnd
           \/ RestartFailed \/ CloseWindow \/ OpenWindow \/ UNCHANGED vars
  <2>1. UNCHANGED <<reviews, task>> /\ loop # "boot"
    BY <1>2 DEF Poll, ReleaseScan, ReleaseCheck, ReleaseInsert, ReleaseEnd, RestartFailed,
       CloseWindow, OpenWindow, vars
  <2> QED BY <1>0, <2>1
<1>3. ASSUME NEW s \in Patchsets,
             \/ \E force \in BOOLEAN : Cancel(s, force)
             \/ RerunStatus(s) \/ RerunTarget(s) \/ LastPartArrives(s) \/ EmbargoEnds(s) \/ Submits(s)
      PROVE  \E l \in Permits : Owner(l)'
  <2>1. UNCHANGED <<reviews, task, loop>>
    BY <1>3 DEF Cancel, RerunStatus, RerunTarget, LastPartArrives, EmbargoEnds,
       Submits, Resubmit, FetchArrives, FetchFails
  <2> QED BY <1>0, <2>1
<1>4. ASSUME NEW k \in Permits, Dispatch(k) \/ Begin(k) \/ Ends(k) \/ ReadBack(k)
      PROVE  \E l \in Permits : Owner(l)'
  <2>1. UNCHANGED <<reviews, loop>> /\ task[k].pc # "running"
    BY <1>4 DEF Dispatch, Begin, Ends, SetupFails, Park, WriteFinal, ReadBack, noTask, At
  <2>2. \A l \in Permits \ {k} : task'[l] = task[l]
    BY <1>4 DEF Dispatch, Begin, Ends, SetupFails, Park, WriteFinal, ReadBack, Become,
       TypeInv, TypeOK
  <2>3. PICK l \in Permits : Owner(l)
    BY <1>0, <2>1
  <2>4. task'[l] = task[l]
    BY <2>1, <2>2, <2>3
  <2> QED BY <2>3, <2>4
<1>5. ASSUME NEW k \in Permits, Works(k) PROVE \E l \in Permits : Owner(l)'
  <2>1. Found(k, p, n)
    BY <1>5, WorkStepFound DEF InReview
  <2>2. loop' = loop /\ \A l \in Permits \ {k} : task'[l] = task[l]
    BY <1>5, WorkStep DEF Continues, noTask
  <2>3. CASE task'[k].pc = "running" /\ task'[k].patch = p /\ task'[k].row = n
    BY <2>3
  <2>4. CASE n \in DOMAIN reviews[p] /\ reviews[p][n].st = "In Review" /\ ~Owner(k)
    <3>1. PICK l \in Permits : Owner(l)
      BY <1>0, <2>2, <2>4
    <3>2. task'[l] = task[l]
      BY <2>2, <2>4, <3>1
    <3> QED BY <3>1, <3>2
  <2> QED BY <2>1, <2>3, <2>4 DEF Found, InReview
<1>6. CASE Crash
  BY <1>6 DEF Crash
<1> QED
  BY <1>1, <1>2, <1>3, <1>4, <1>5, <1>6 DEF Next, Loop, TaskStep, Works, Ends, Requests

\* A review row shown In Review is the row a task is running, with reruns too:
\* no retry, no pause and no two tasks on one patchset leave one behind.
THEOREM RunningRowCorrect == Spec => []RunningRowIsOwned
<1>1. Init => RunningRowIsOwned
  BY DEF Init, RunningRowIsOwned
<1>2. Spec => []TypeInv
  BY InitType, NextType, PTL DEF Spec
<1> QED BY <1>1, <1>2, RunningRowNext, PTL DEF Spec

(***************************************************************************)
(* What was reviewed stays reviewed.  Nobody else writes the rows of the   *)
(* patchset a task holds, unless its review is written over, so the row it *)
(* claimed is Pending until the task takes it, and In Review until the     *)
(* task writes its end.                                                    *)
(***************************************************************************)
RowOK(k) ==
  LET rows == reviews[task[k].patch]
      n    == task[k].row
  IN  /\ task[k].pc \in {"attempt", "take"} /\ n # 0 => n \in DOMAIN rows /\ rows[n].st = "Pending"
      /\ task[k].pc = "take" => n # 0
      /\ task[k].pc = "running" => n \in DOMAIN rows /\ InReview(rows[n])

RowInv == \A k \in Permits : task[k].ps \notin disturbed => RowOK(k)

DoneRow(row) == row.st \in {"Reviewed", "Skipped"}

\* What is in a row tells whether it is done.
LEMMA NotDone ==
  ASSUME NEW row, row.st = "Pending" \/ InReview(row)
  PROVE  ~DoneRow(row)
BY DEF DoneRow, InReview

\* The rows a step keeps, seen from before the step.
LEMMA RowReplacedKeeps ==
  ASSUME NEW rows \in Seq(Row), NEW n, NEW r, NEW new, new = [rows EXCEPT ![n] = r],
         NEW m \in DOMAIN rows
  PROVE  m \in DOMAIN new /\ new[m] = IF m = n THEN r ELSE rows[m]
BY LenProperties

LEMMA RowAppendedKeeps ==
  ASSUME NEW rows \in Seq(Row), NEW r \in Row, NEW new, new = Added(rows, r),
         NEW m \in DOMAIN rows
  PROVE  m \in DOMAIN new /\ new[m] = rows[m]
<1>1. /\ Len(rows) \in Nat /\ DOMAIN rows = 1 .. Len(rows)
      /\ DOMAIN new = 1 .. Len(rows) + 1
  BY LenProperties, AppendProperties DEF Added
<1>2. m \in 1 .. Len(rows) /\ m \in DOMAIN new
  BY <1>1
<1> QED BY <1>1, <1>2, AppendProperties DEF Added

\* The new row is the last one.
LEMMA RowAppendedLast ==
  ASSUME NEW rows \in Seq(Row), NEW r \in Row, NEW new, new = Added(rows, r)
  PROVE  /\ Len(rows) + 1 \in DOMAIN new /\ Len(rows) + 1 # 0
         /\ new[Len(rows) + 1] = r
<1>1. Len(rows) \in Nat /\ DOMAIN new = 1 .. Len(rows) + 1
  BY LenProperties, AppendProperties DEF Added
<1>2. new[Len(rows) + 1] = r
  BY AppendProperties DEF Added
<1> QED BY <1>1, <1>2

\* A task writes the rows of its own patchset only.
LEMMA OthersRows ==
  ASSUME TypeInv, NEW k \in Permits, Works(k), NEW q \in Patches, Of[q] # task[k].ps
  PROVE  reviews'[q] = reviews[q]
<1>1. reviews \in [Patches -> Seq(Row)] /\ TaskOK(task[k])
  BY DEF TypeInv, TypeOK
<1>2. CASE \/ BaselineFound(k) \/ PauseBeforeAttempt(k) \/ NotifyCheck(k) \/ NotifyInsert(k)
           \/ \E p \in Patches : AlreadyReviewed(k, p) \/ BlockedByFailure(k, p) \/ StartPatch(k, p)
  <2>1. reviews' = reviews
    BY <1>2 DEF BaselineFound, PauseBeforeAttempt, NotifyCheck, NotifyInsert,
       AlreadyReviewed, BlockedByFailure, StartPatch
  <2> QED BY <2>1
<1>3. ASSUME NEW p \in Patches, SkipIgnored(k, p) PROVE reviews'[q] = reviews[q]
  <2>1. p # q
    BY <1>1, <1>3 DEF SkipIgnored, Turn, TaskOK, PatchesOf
  <2> QED BY <1>1, <1>3, <2>1 DEF SkipIgnored
<1>4. CASE Attempt(k) \/ TakeRow(k) \/ Succeed(k) \/ Fail(k) \/ SkipNoAi(k) \/ PauseReview(k)
  <2>1. task[k].pc \in OnPatch
    BY <1>4 DEF Attempt, TakeRow, Succeed, Fail, SkipNoAi, PauseReview, At, OnPatch
  <2>2. task[k].patch # q
    BY <1>1, <2>1 DEF TaskOK, PatchesOf
  <2>3. \E rows : reviews' = [reviews EXCEPT ![task[k].patch] = rows]
    BY <1>4 DEF Attempt, TakeRow, Succeed, Fail, SkipNoAi, PauseReview, Mark, Complete
  <2> QED BY <1>1, <2>2, <2>3
<1> QED BY <1>2, <1>3, <1>4 DEF Works, PatchStep

\* A done row stays where and what it is.
KeepsDone(p, n) ==
  n \in DOMAIN reviews[p] /\ DoneRow(reviews[p][n])
    => n \in DOMAIN reviews'[p] /\ reviews'[p][n] = reviews[p][n]

\* What a task writes about its patch goes to the row it holds, which is not done.
LEMMA OwnRowKeepsDone ==
  ASSUME TypeInv, NEW k \in Permits, RowOK(k), NEW p \in Patches, NEW n,
         TakeRow(k) \/ Succeed(k) \/ Fail(k) \/ SkipNoAi(k) \/ PauseReview(k)
  PROVE  KeepsDone(p, n)
<1> DEFINE rows == reviews[p]
           c    == task[k].row
<1>1. rows \in Seq(Row) /\ reviews \in [Patches -> Seq(Row)]
  BY DEF TypeInv, TypeOK
<1>2. CASE p # task[k].patch
  <2>1. \E new : reviews' = [reviews EXCEPT ![task[k].patch] = new]
    BY DEF TakeRow, Succeed, Fail, SkipNoAi, PauseReview, Mark, Complete
  <2>2. reviews'[p] = reviews[p]
    BY <1>1, <1>2, <2>1
  <2> QED BY <2>2 DEF KeepsDone
<1>3. CASE p = task[k].patch
  <2>1. PICK r : reviews' = [reviews EXCEPT ![p] = [rows EXCEPT ![c] = r]]
    BY <1>3 DEF TakeRow, Succeed, Fail, SkipNoAi, PauseReview, Mark, Complete
  <2>2. reviews'[p] = [rows EXCEPT ![c] = r]
    BY <1>1, <2>1
  <2>3. ~DoneRow(rows[c])
    <3>1. rows[c].st = "Pending" \/ InReview(rows[c])
      BY <1>3 DEF RowOK, TakeRow, Succeed, Fail, SkipNoAi, PauseReview, At
    <3> QED BY <3>1, NotDone
  <2> HIDE DEF rows, c
  <2>4. n \in DOMAIN rows => n \in DOMAIN reviews'[p] /\ reviews'[p][n] = IF n = c THEN r ELSE rows[n]
    BY <1>1, <2>2, RowReplacedKeeps
  <2> QED BY <2>3, <2>4 DEF KeepsDone, rows
<1> QED BY <1>2, <1>3

LEMMA WorkKeepsDone ==
  ASSUME TypeInv, NEW k \in Permits, RowOK(k), Works(k), NEW p \in Patches, NEW n
  PROVE  KeepsDone(p, n)
<1> DEFINE rows == reviews[p]
<1>1. rows \in Seq(Row) /\ reviews \in [Patches -> Seq(Row)]
  BY DEF TypeInv, TypeOK
<1>2. CASE TakeRow(k) \/ Succeed(k) \/ Fail(k) \/ SkipNoAi(k) \/ PauseReview(k)
  BY <1>2, OwnRowKeepsDone
<1>3. CASE \/ BaselineFound(k) \/ PauseBeforeAttempt(k) \/ NotifyCheck(k) \/ NotifyInsert(k)
           \/ \E q \in Patches : AlreadyReviewed(k, q) \/ BlockedByFailure(k, q) \/ StartPatch(k, q)
  <2>1. reviews' = reviews
    BY <1>3 DEF BaselineFound, PauseBeforeAttempt, NotifyCheck, NotifyInsert,
       AlreadyReviewed, BlockedByFailure, StartPatch
  <2> QED BY <2>1 DEF KeepsDone
<1>4. ASSUME NEW q \in Patches, SkipIgnored(k, q) PROVE KeepsDone(p, n)
  <2> DEFINE r == [NewRow EXCEPT !.st = "Skipped"]
  <2>0. r \in Row
    BY NewRowType
  <2>1. PICK c \in ClaimIds(q) : reviews' = [reviews EXCEPT ![q] = WithRow(reviews[q], c, r)]
    BY <1>4 DEF SkipIgnored
  <2> HIDE DEF r
  <2>2. CASE p # q
    BY <1>1, <2>1, <2>2 DEF KeepsDone
  <2>3. CASE p = q /\ c = 0
    <3>1. reviews'[p] = Added(rows, r)
      BY <1>1, <2>1, <2>3 DEF WithRow, Added
    <3> HIDE DEF rows
    <3>2. n \in DOMAIN rows => n \in DOMAIN reviews'[p] /\ reviews'[p][n] = rows[n]
      BY <1>1, <2>0, <3>1, RowAppendedKeeps
    <3> QED BY <3>2 DEF KeepsDone, rows
  <2>4. CASE p = q /\ c # 0
    <3>1. reviews'[p] = [rows EXCEPT ![c] = r]
      BY <1>1, <2>1, <2>4 DEF WithRow
    <3>2. rows[c].st = "Pending"
      BY <2>1, <2>4 DEF ClaimIds, PendingIds
    <3>3. ~DoneRow(rows[c])
      BY <3>2, NotDone
    <3> HIDE DEF rows
    <3>4. n \in DOMAIN rows => n \in DOMAIN reviews'[p] /\ reviews'[p][n] = IF n = c THEN r ELSE rows[n]
      BY <1>1, <3>1, RowReplacedKeeps
    <3> QED BY <3>3, <3>4 DEF KeepsDone, rows
  <2> QED BY <2>2, <2>3, <2>4
<1>5. CASE Attempt(k)
  <2>1. reviews'[p] = rows \/ reviews'[p] = Added(rows, NewRow)
    BY <1>1, <1>5 DEF Attempt, Added
  <2>2. CASE reviews'[p] = rows
    BY <2>2 DEF KeepsDone
  <2>3. CASE reviews'[p] = Added(rows, NewRow)
    <3> HIDE DEF rows
    <3>1. NewRow \in Row
      BY NewRowType
    <3>2. n \in DOMAIN rows => n \in DOMAIN reviews'[p] /\ reviews'[p][n] = rows[n]
      BY <1>1, <2>3, <3>1, RowAppendedKeeps
    <3> QED BY <3>2 DEF KeepsDone, rows
  <2> QED BY <2>1, <2>2, <2>3
<1> QED BY <1>2, <1>3, <1>4, <1>5 DEF Works, PatchStep

\* No step takes a done row back: the tasks by the lemmas above, boot because it
\* resets the rows In Review only.
LEMMA DoneIsKept ==
  ASSUME TypeInv, RowInv, [Next]_vars, NEW p \in Patches, Of[p] \notin disturbed, NEW n
  PROVE  KeepsDone(p, n)
<1>1. CASE Boot
  <2> SUFFICES ASSUME n \in DOMAIN reviews[p], DoneRow(reviews[p][n])
               PROVE  n \in DOMAIN reviews'[p] /\ reviews'[p][n] = reviews[p][n]
    BY DEF KeepsDone
  <2>1. reviews'[p] = [m \in DOMAIN reviews[p] |-> ResetRow(reviews[p][m])]
    BY <1>1 DEF Boot, TypeInv, TypeOK
  <2>2. ResetRow(reviews[p][n]) = reviews[p][n]
    BY DEF ResetRow, DoneRow
  <2> QED BY <2>1, <2>2
<1>2. ASSUME NEW k \in Permits, Works(k) PROVE KeepsDone(p, n)
  <2>1. CASE Of[p] = task[k].ps
    BY <1>2, <2>1, WorkKeepsDone DEF RowInv
  <2>2. CASE Of[p] # task[k].ps
    <3>1. reviews'[p] = reviews[p]
      BY <1>2, <2>2, OthersRows
    <3> QED BY <3>1 DEF KeepsDone
  <2> QED BY <2>1, <2>2
<1>3. CASE \/ \E k \in Permits : Dispatch(k) \/ Begin(k) \/ Ends(k) \/ ReadBack(k)
           \/ Poll \/ ReleaseScan \/ ReleaseCheck \/ ReleaseInsert \/ ReleaseEnd
           \/ RestartFailed \/ CloseWindow \/ OpenWindow \/ Crash \/ UNCHANGED vars
  <2>1. reviews' = reviews
    BY <1>3 DEF Dispatch, Begin, Ends, SetupFails, Park, WriteFinal, ReadBack, Poll,
       ReleaseScan, ReleaseCheck, ReleaseInsert, ReleaseEnd, RestartFailed, CloseWindow,
       OpenWindow, Crash, vars
  <2> QED BY <2>1 DEF KeepsDone
<1>4. CASE Requests
  <2>1. reviews' = reviews
    BY <1>4 DEF Requests, Cancel, RerunStatus, RerunTarget, LastPartArrives, EmbargoEnds,
       Submits, Resubmit, FetchArrives, FetchFails
  <2> QED BY <2>1 DEF KeepsDone
<1> QED
  BY <1>1, <1>2, <1>3, <1>4 DEF Next, Loop, TaskStep, Works, Ends

\* A task whose record and whose patch are left alone keeps its claim.
LEMMA RowOKStays ==
  ASSUME NEW l \in Permits, RowOK(l), task'[l] = task[l],
         task[l].pc \in OnPatch => reviews'[task[l].patch] = reviews[task[l].patch]
  PROVE  RowOK(l)'
BY DEF RowOK, OnPatch

\* Nor does a task lose its claim that has none.
LEMMA RowOKIdle ==
  ASSUME NEW l \in Permits, task'[l].pc \notin {"attempt", "take", "running"}
  PROVE  RowOK(l)'
BY DEF RowOK

\* The claim of the task that works.
LEMMA WorkRow ==
  ASSUME TypeInv, NEW k \in Permits, RowOK(k), Works(k)
  PROVE  RowOK(k)'
<1> DEFINE p == task[k].patch
           c == task[k].row
<1>1. reviews \in [Patches -> Seq(Row)] /\ task[k] \in Task /\ TaskOK(task[k])
  BY DEF TypeInv, TypeOK
<1>2. CASE \/ BaselineFound(k) \/ PauseBeforeAttempt(k) \/ Succeed(k) \/ SkipNoAi(k)
           \/ PauseReview(k) \/ NotifyCheck(k) \/ NotifyInsert(k)
  <2> DEFINE Idle == task'[k].pc \notin {"attempt", "take", "running"}
  <2>1. ASSUME BaselineFound(k) PROVE Idle
    <3>1. task'[k] = [task[k] EXCEPT !.pc = "next", !.todo = Jobs(task[k].ps)]
      BY <2>1, BecomePc DEF BaselineFound
    <3> QED BY <1>1, <3>1 DEF Task
  <2>2. ASSUME PauseBeforeAttempt(k) \/ PauseReview(k) PROVE Idle
    <3>1. task'[k] = [task[k] EXCEPT !.pc = "paused"]
      BY <2>2, BecomePc DEF PauseBeforeAttempt, PauseReview
    <3> QED BY <1>1, <3>1 DEF Task
  <2>3. ASSUME Succeed(k) PROVE Idle
    <3>1. \E pc \in {"notify", "next"} : task'[k] = [task[k] EXCEPT !.pc = pc]
      BY <2>3, BecomePc DEF Succeed
    <3> QED BY <1>1, <3>1 DEF Task
  <2>4. ASSUME SkipNoAi(k) \/ NotifyInsert(k) PROVE Idle
    <3>1. task'[k] = [task[k] EXCEPT !.pc = "next"]
      BY <2>4, BecomePc DEF SkipNoAi, NotifyInsert
    <3> QED BY <1>1, <3>1 DEF Task
  <2>5. ASSUME NotifyCheck(k) PROVE Idle
    <3>1. \E pc \in {"next", "insert"} : task'[k] = [task[k] EXCEPT !.pc = pc]
      BY <2>5, BecomePc DEF NotifyCheck
    <3> QED BY <1>1, <3>1 DEF Task
  <2> QED BY <1>2, <2>1, <2>2, <2>3, <2>4, <2>5, RowOKIdle
<1>3. ASSUME NEW q \in Patches,
             AlreadyReviewed(k, q) \/ BlockedByFailure(k, q) \/ SkipIgnored(k, q)
      PROVE  RowOK(k)'
  <2>0. task[k].pc = "next"
    BY <1>3 DEF AlreadyReviewed, BlockedByFailure, SkipIgnored, Turn, At
  <2>1. \/ task'[k] = [task[k] EXCEPT !.todo = task[k].todo \ {q}]
        \/ task'[k] = [task[k] EXCEPT !.todo = task[k].todo \ {q}, !.failed = TRUE]
    BY <1>3, BecomePc DEF AlreadyReviewed, BlockedByFailure, SkipIgnored
  <2>2. task'[k].pc = "next"
    BY <1>1, <2>0, <2>1 DEF Task
  <2> QED BY <2>2, RowOKIdle
<1>4. ASSUME NEW q \in Patches, StartPatch(k, q) PROVE RowOK(k)'
  <2>1. PICK n \in ClaimIds(q) :
          Become(k, [task[k] EXCEPT !.pc = "attempt", !.patch = q, !.todo = @ \ {q},
                                    !.row = n, !.tries = 0])
    BY <1>4 DEF StartPatch
  <2>2. task'[k].pc = "attempt" /\ task'[k].patch = q /\ task'[k].row = n
    BY <1>1, <2>1, BecomePc DEF Task
  <2>3. n # 0 => n \in DOMAIN reviews[q] /\ reviews[q][n].st = "Pending"
    BY <2>1 DEF ClaimIds, PendingIds
  <2>4. reviews' = reviews
    BY <1>4 DEF StartPatch
  <2> QED BY <2>2, <2>3, <2>4 DEF RowOK
<1>5. CASE Attempt(k)
  <2> DEFINE t == [task[k] EXCEPT !.pc = "take", !.row = IF c = 0 THEN Len(reviews[p]) + 1 ELSE c]
  <2>0. task[k].pc = "attempt" /\ p \in Patches /\ task'[k] = t
    BY <1>1, <1>5, BecomePc DEF Attempt, At, TaskOK, OnPatch, PatchesOf
  <2>1. CASE c = 0
    <3> DEFINE n == Len(reviews[p]) + 1
    <3>1. task'[k] = [task[k] EXCEPT !.pc = "take", !.row = n]
      BY <2>0, <2>1
    <3>2. reviews'[p] = Added(reviews[p], NewRow)
      BY <1>1, <1>5, <2>0, <2>1 DEF Attempt, Added
    <3>3. reviews[p] \in Seq(Row) /\ NewRow \in Row
      BY <1>1, <2>0, NewRowType
    <3>4. n \in DOMAIN reviews'[p] /\ n # 0 /\ reviews'[p][n] = NewRow
      BY <3>2, <3>3, RowAppendedLast
    <3>5. NewRow.st = "Pending"
      BY DEF NewRow
    <3> HIDE DEF n
    <3>6. task'[k].pc = "take" /\ task'[k].patch = p /\ task'[k].row = n
      BY <1>1, <3>1 DEF Task
    <3> QED BY <3>4, <3>5, <3>6 DEF RowOK
  <2>2. CASE c # 0
    <3>1. task'[k] = [task[k] EXCEPT !.pc = "take", !.row = c]
      BY <2>0, <2>2
    <3>2. task'[k].pc = "take" /\ task'[k].patch = p /\ task'[k].row = c
      BY <1>1, <3>1 DEF Task
    <3>3. reviews'[p] = reviews[p]
      BY <1>1, <1>5, <2>0, <2>2 DEF Attempt
    <3>4. c \in DOMAIN reviews[p] /\ reviews[p][c].st = "Pending"
      BY <2>0, <2>2 DEF RowOK
    <3> QED BY <2>2, <3>2, <3>3, <3>4 DEF RowOK
  <2> QED BY <2>1, <2>2
<1>6. CASE TakeRow(k)
  <2>0. task[k].pc = "take" /\ p \in Patches /\ c \in DOMAIN reviews[p]
    BY <1>1, <1>6 DEF TakeRow, At, TaskOK, OnPatch, PatchesOf, RowOK
  <2>1. task'[k].pc = "running" /\ task'[k].patch = p /\ task'[k].row = c
    <3>1. task'[k] = [task[k] EXCEPT !.pc = "running"]
      BY <1>6, BecomePc DEF TakeRow
    <3> QED BY <1>1, <3>1 DEF Task
  <2> DEFINE rows == reviews[p]
             r    == [rows[c] EXCEPT !.st = "In Review"]
  <2>2. reviews'[p] = [rows EXCEPT ![c] = r]
    BY <1>1, <1>6, <2>0 DEF TakeRow, Mark
  <2>3. rows \in Seq(Row)
    BY <1>1, <2>0
  <2>4. InReview(r)
    BY <2>0, <2>3, RowStatusWritten
  <2> HIDE DEF r
  <2>5. c \in DOMAIN reviews'[p] /\ reviews'[p][c] = r
    BY <2>0, <2>2, <2>3, RowReplacedKeeps
  <2> QED BY <2>1, <2>4, <2>5 DEF RowOK
<1>7. CASE Fail(k)
  <2>1. PICK o \in Outcomes : task'[k] = AfterFailure(task[k], o)
    BY <1>7, BecomePc DEF Fail
  <2>2. task'[k].pc = "next" \/ (task'[k].pc = "attempt" /\ task'[k].row = 0)
    BY <1>1, <2>1 DEF AfterFailure, Task
  <2> QED BY <2>2 DEF RowOK
<1> QED BY <1>2, <1>3, <1>4, <1>5, <1>6, <1>7 DEF Works, PatchStep

LEMMA RowNext ==
  ASSUME TypeInv, OnceInv, RowInv, [Next]_vars
  PROVE  RowInv'
<1> SUFFICES ASSUME NEW l \in Permits, task'[l].ps \notin disturbed' PROVE RowOK(l)'
  BY DEF RowInv
<1>0. task'[l].ps = task[l].ps => task[l].ps \notin disturbed /\ RowOK(l)
  BY DisturbedGrows DEF RowInv
<1>1. ASSUME NEW k \in Permits, Works(k) PROVE RowOK(l)'
  <2>1. CASE l = k
    BY <1>0, <1>1, <2>1, WorkRow, WorkStep DEF Continues
  <2>2. CASE l # k
    <3>1. task'[l] = task[l] /\ task[k].pc # "free"
      BY <1>1, <2>2, WorkStep DEF Continues
    <3>2. ASSUME task[l].pc \in OnPatch PROVE reviews'[task[l].patch] = reviews[task[l].patch]
      <4>1. task[l].patch \in Patches /\ Of[task[l].patch] = task[l].ps
        BY <3>2 DEF TypeInv, TaskOK, PatchesOf
      <4>2. task[l].ps # task[k].ps
        BY <1>0, <2>2, <3>1 DEF OnceInv, OneTaskPerPatchset
      <4> QED BY <1>1, <4>1, <4>2, OthersRows
    <3> QED BY <1>0, <3>1, <3>2, RowOKStays
  <2> QED BY <2>1, <2>2
<1>2. CASE Boot
  <2>1. task'[l].pc = "free"
    BY <1>2 DEF Boot, OnceInv
  <2> QED BY <2>1, RowOKIdle
<1>3. CASE Crash
  <2>1. task'[l].pc = "free"
    BY <1>3 DEF Crash, Free
  <2> QED BY <2>1, RowOKIdle
<1>4. ASSUME NEW k \in Permits, Dispatch(k) \/ Begin(k) \/ Ends(k) \/ ReadBack(k)
      PROVE  RowOK(l)'
  <2>1. CASE l = k
    <3>1. CASE Dispatch(k)
      <4>1. PICK r \in batch : Become(k, [Free EXCEPT !.pc = "spawned", !.ps = r.ps, !.goal = r.goal])
        BY <3>1 DEF Dispatch
      <4>2. [Free EXCEPT !.pc = "spawned", !.ps = r.ps, !.goal = r.goal].pc = "spawned"
        BY DEF Free
      <4>3. task'[k].pc = "spawned"
        BY <4>1, <4>2, BecomePc
      <4> QED BY <2>1, <4>3, RowOKIdle
    <3>2. CASE Begin(k) \/ Ends(k) \/ ReadBack(k)
      <4>1. task[k] \in Task
        BY DEF TypeInv, TypeOK
      <4>2. \/ task'[k] = Free
            \/ \E pc \in {"setup", "final"} : task'[k] = [task[k] EXCEPT !.pc = pc]
        BY <3>2, BecomePc DEF Begin, Ends, SetupFails, Park, WriteFinal, ReadBack
      <4>3. task'[k].pc \in {"free", "setup", "final"}
        BY <4>1, <4>2 DEF Free, Task
      <4> QED BY <2>1, <4>3, RowOKIdle
    <3> QED BY <1>4, <3>1, <3>2
  <2>2. CASE l # k
    <3>1. task'[l] = task[l] /\ reviews' = reviews
      BY <1>4, <2>2 DEF Dispatch, Begin, Ends, SetupFails, Park, WriteFinal, ReadBack, Become,
         TypeInv, TypeOK
    <3> QED BY <1>0, <3>1, RowOKStays
  <2> QED BY <2>1, <2>2
<1>5. CASE \/ Poll \/ ReleaseScan \/ ReleaseCheck \/ ReleaseInsert \/ ReleaseEnd
           \/ RestartFailed \/ CloseWindow \/ OpenWindow \/ UNCHANGED vars
  <2>1. UNCHANGED <<reviews, task>>
    BY <1>5 DEF Poll, ReleaseScan, ReleaseCheck, ReleaseInsert, ReleaseEnd, RestartFailed,
       CloseWindow, OpenWindow, vars
  <2> QED BY <1>0, <2>1, RowOKStays
<1>6. CASE Requests
  <2>1. UNCHANGED <<reviews, task>>
    BY <1>6 DEF Requests, Cancel, RerunStatus, RerunTarget, LastPartArrives, EmbargoEnds,
       Submits, Resubmit, FetchArrives, FetchFails
  <2> QED BY <1>0, <2>1, RowOKStays
<1> QED
  BY <1>1, <1>2, <1>3, <1>4, <1>5, <1>6 DEF Next, Loop, TaskStep, Works, Ends

LEMMA RowInvariant == Spec => [](TypeInv /\ OnceInv /\ RowInv)
<1>1. Init => RowInv
  <2> SUFFICES ASSUME Init, NEW k \in Permits PROVE RowOK(k)
    BY DEF RowInv
  <2>1. task[k].pc = "free"
    BY DEF Init, Free
  <2> QED BY <2>1 DEF RowOK
<1>2. TypeInv /\ OnceInv /\ RowInv /\ [Next]_vars => RowInv'
  BY RowNext
<1> QED BY <1>1, <1>2, OnceInvariant, PTL DEF Spec

\* A completed review is never taken back, unless a rerun or a failed fetch wrote
\* over it: no task writes a row another one finished, and no restart resets it.
THEOREM ReviewKept == Spec => ReviewIsKept
<1>1. TypeInv /\ RowInv /\ [Next]_vars =>
        [\A p \in Undisturbed : \A n \in DOMAIN reviews[p] :
           reviews[p][n].st = "Reviewed" =>
             n \in DOMAIN reviews'[p] /\ reviews'[p][n].st = "Reviewed"]_vars
  BY DoneIsKept DEF KeepsDone, DoneRow, Undisturbed
<1> QED BY <1>1, RowInvariant, PTL DEF Spec, ReviewIsKept

(***************************************************************************)
(* Reviewed means reviewed.  While no patch of a task has failed, each of  *)
(* its patches is still to do, in hand, or has a done row; and a goal of   *)
(* at least one review means that a patch with enough of them has one.     *)
(***************************************************************************)
Inside == {"next", "attempt", "take", "running", "notify", "insert", "final"}
InHand == {"attempt", "take", "running"}

Finished(p) == \E n \in DOMAIN reviews[p] : DoneRow(reviews[p][n])

Accounted(k) ==
  /\ task[k].pc \in Inside /\ ~task[k].failed =>
       \A p \in Jobs(task[k].ps) :
         \/ p \in task[k].todo
         \/ task[k].pc \in InHand /\ p = task[k].patch
         \/ Finished(p)
  /\ task[k].pc = "final" => task[k].todo = {}

GoalInv ==
  /\ \A s \in Patchsets : target[s] > 0
  /\ \A r \in batch : r.goal > 0
  /\ \A k \in Permits : task[k].pc # "free" => task[k].goal > 0

DoneInv ==
  /\ GoalInv
  /\ \A k \in Permits : task[k].ps \notin disturbed => Accounted(k)
  /\ ReviewedIsReviewed

LEMMA FinishedStays ==
  ASSUME TypeInv, RowInv, [Next]_vars, NEW p \in Patches, Of[p] \notin disturbed, Finished(p)
  PROVE  Finished(p)'
BY DoneIsKept DEF Finished, KeepsDone

\* A task keeps its goal, or becomes free.
LEMMA GoalStays ==
  ASSUME TypeInv, NEW k \in Permits, TaskStep(k)
  PROVE  /\ task'[k] = Free \/ task'[k].goal = task[k].goal
         /\ \A l \in Permits \ {k} : task'[l] = task[l]
         /\ task[k].pc # "free" /\ UNCHANGED noTask
<1> USE DEF TypeInv, TypeOK
<1>0. task[k] \in Task
  OBVIOUS
<1>1. CASE Begin(k)
  BY <1>0, <1>1 DEF Begin, Become, At, Task
<1>2. CASE SetupFails(k) \/ Park(k) \/ WriteFinal(k)
  BY <1>0, <1>2 DEF SetupFails, Park, WriteFinal, Become, At
<1>3. CASE BaselineFound(k)
  BY <1>0, <1>3 DEF BaselineFound, Become, At, Task
<1>4. ASSUME NEW p \in Patches, AlreadyReviewed(k, p) \/ BlockedByFailure(k, p)
      PROVE  /\ task'[k].goal = task[k].goal
             /\ \A l \in Permits \ {k} : task'[l] = task[l]
             /\ task[k].pc # "free" /\ UNCHANGED noTask
  <2>1. CASE AlreadyReviewed(k, p)
    BY <1>0, <2>1 DEF AlreadyReviewed, Turn, Become, At, Task
  <2>2. CASE BlockedByFailure(k, p)
    BY <1>0, <2>2 DEF BlockedByFailure, Turn, Become, At, Task
  <2> QED BY <1>4, <2>1, <2>2
<1>5. ASSUME NEW p \in Patches, SkipIgnored(k, p) \/ StartPatch(k, p)
      PROVE  /\ task'[k].goal = task[k].goal
             /\ \A l \in Permits \ {k} : task'[l] = task[l]
             /\ task[k].pc # "free" /\ UNCHANGED noTask
  <2>1. CASE SkipIgnored(k, p)
    BY <1>0, <2>1 DEF SkipIgnored, Turn, Become, At, Task
  <2>2. CASE StartPatch(k, p)
    BY <1>0, <2>2 DEF StartPatch, Turn, Become, At, Task
  <2> QED BY <1>5, <2>1, <2>2
<1>6. CASE Attempt(k)
  BY <1>0, <1>6 DEF Attempt, Become, At, Task
<1>7. CASE TakeRow(k)
  BY <1>0, <1>7 DEF TakeRow, Become, At, Task
<1>8. CASE PauseBeforeAttempt(k)
  BY <1>0, <1>8 DEF PauseBeforeAttempt, Become, At, Task
<1>9. CASE Succeed(k)
  BY <1>0, <1>9 DEF Succeed, Become, At, Task
<1>10. CASE Fail(k)
  BY <1>0, <1>10 DEF Fail, AfterFailure, Become, At, Task
<1>11. CASE SkipNoAi(k)
  BY <1>0, <1>11 DEF SkipNoAi, Become, At, Task
<1>12. CASE PauseReview(k)
  BY <1>0, <1>12 DEF PauseReview, Become, At, Task
<1>13. CASE NotifyCheck(k)
  BY <1>0, <1>13 DEF NotifyCheck, Become, At, Task
<1>14. CASE NotifyInsert(k)
  BY <1>0, <1>14 DEF NotifyInsert, Become, At, Task
<1>15. CASE ReadBack(k)
  BY <1>0, <1>15 DEF ReadBack, Become, At, Task
<1> QED
  BY <1>1, <1>2, <1>3, <1>4, <1>5, <1>6, <1>7, <1>8, <1>9, <1>10, <1>11, <1>12, <1>13, <1>14,
     <1>15 DEF TaskStep, PatchStep

LEMMA GoalNext == ASSUME TypeInv, GoalInv, [Next]_vars PROVE GoalInv'
<1>1. ASSUME NEW k \in Permits, TaskStep(k) PROVE GoalInv'
  BY <1>1, GoalStays DEF GoalInv, noTask, Free
<1>2. ASSUME NEW k \in Permits, Dispatch(k) PROVE GoalInv'
  <2>1. PICK r \in batch :
          /\ batch' = batch \ {r}
          /\ Become(k, [Free EXCEPT !.pc = "spawned", !.ps = r.ps, !.goal = r.goal])
    BY <1>2 DEF Dispatch
  <2>2. task'[k].goal = r.goal /\ \A l \in Permits \ {k} : task'[l] = task[l]
    <3>1. [Free EXCEPT !.pc = "spawned", !.ps = r.ps, !.goal = r.goal].goal = r.goal
      BY DEF Free
    <3> QED BY <2>1, <3>1, BecomePc
  <2> QED BY <1>2, <2>1, <2>2 DEF Dispatch, GoalInv
<1>3. CASE Poll
  <2>1. batch' = {} \/ batch' = {[ps |-> s, goal |-> target[s]] : s \in NewestPending}
    BY <1>3 DEF Poll
  <2>2. NewestPending \subseteq Patchsets
    BY DEF NewestPending, PendingRows
  <2>3. \A r \in batch' : r.goal > 0
    BY <2>1, <2>2 DEF GoalInv
  <2> QED BY <1>3, <2>3 DEF Poll, GoalInv
<1>4. ASSUME NEW s \in Patchsets, RerunTarget(s) PROVE GoalInv'
  <2>1. target' = [target EXCEPT ![s] = target[s] + 1] /\ UNCHANGED <<batch, task>>
    BY <1>4 DEF RerunTarget
  <2>2. target \in [Patchsets -> Nat]
    BY DEF TypeInv, TypeOK
  <2> QED BY <2>1, <2>2 DEF GoalInv
<1>5. CASE Crash
  <2>1. UNCHANGED target /\ batch' = {} /\ \A k \in Permits : task'[k].pc = "free"
    BY <1>5 DEF Crash, Free
  <2> QED BY <2>1 DEF GoalInv
<1>6. CASE \/ Boot \/ ReleaseScan \/ ReleaseCheck \/ ReleaseInsert \/ ReleaseEnd
           \/ RestartFailed \/ CloseWindow \/ OpenWindow \/ UNCHANGED vars
  <2>1. UNCHANGED <<target, batch, task>>
    BY <1>6 DEF Boot, ReleaseScan, ReleaseCheck, ReleaseInsert, ReleaseEnd, RestartFailed,
       CloseWindow, OpenWindow, vars
  <2> QED BY <2>1 DEF GoalInv
<1>7. ASSUME NEW s \in Patchsets,
             \/ \E force \in BOOLEAN : Cancel(s, force)
             \/ RerunStatus(s) \/ LastPartArrives(s) \/ EmbargoEnds(s) \/ Submits(s)
      PROVE  GoalInv'
  <2>1. UNCHANGED <<target, batch, task>>
    BY <1>7 DEF Cancel, RerunStatus, LastPartArrives, EmbargoEnds,
       Submits, Resubmit, FetchArrives, FetchFails
  <2> QED BY <2>1 DEF GoalInv
<1> QED
  BY <1>1, <1>2, <1>3, <1>4, <1>5, <1>6, <1>7 DEF Next, Loop, Requests

\* A task that neither starts nor ends the review of a patch accounts for what
\* it accounted for: its list and its patch stay, in hand or done.
LEMMA AccountedStays ==
  ASSUME TypeInv, RowInv, [Next]_vars, NEW k \in Permits, Accounted(k),
         task[k].ps \notin disturbed,
         task'[k].ps = task[k].ps, task'[k].todo = task[k].todo,
         task'[k].patch = task[k].patch, task[k].pc \in Inside,
         ~task'[k].failed => ~task[k].failed,
         task'[k].pc = "final" => task[k].todo = {},
         task[k].pc \in InHand =>
           \/ task'[k].pc \in InHand
           \/ Finished(task[k].patch)'
           \/ task'[k].failed
           \/ task'[k].pc \notin Inside
  PROVE  Accounted(k)'
<1> SUFFICES ASSUME task'[k].pc \in Inside, ~task'[k].failed, NEW p \in Jobs(task[k].ps)
             PROVE  \/ p \in task'[k].todo
                    \/ task'[k].pc \in InHand /\ p = task'[k].patch
                    \/ Finished(p)'
  BY DEF Accounted, Jobs, PatchesOf
<1>1. p \in Patches /\ Of[p] \notin disturbed
  BY DEF Jobs, PatchesOf
<1>2. p \in task[k].todo \/ (task[k].pc \in InHand /\ p = task[k].patch) \/ Finished(p)
  BY DEF Accounted
<1>3. Finished(p) => Finished(p)'
  BY <1>1, FinishedStays
<1> QED BY <1>2, <1>3

\* So does one that takes a patch from its list, in hand or done.
LEMMA AccountedTakes ==
  ASSUME TypeInv, RowInv, [Next]_vars, NEW k \in Permits, Accounted(k), NEW q \in Patches,
         task[k].ps \notin disturbed,
         task'[k].ps = task[k].ps, task'[k].todo = task[k].todo \ {q},
         task[k].pc = "next", task'[k].pc \in {"next", "attempt"},
         ~task'[k].failed => ~task[k].failed,
         \/ task'[k].pc \in InHand /\ task'[k].patch = q
         \/ Finished(q)'
         \/ task'[k].failed
  PROVE  Accounted(k)'
<1> SUFFICES ASSUME ~task'[k].failed, NEW p \in Jobs(task[k].ps)
             PROVE  \/ p \in task'[k].todo
                    \/ task'[k].pc \in InHand /\ p = task'[k].patch
                    \/ Finished(p)'
  BY DEF Accounted, Jobs, PatchesOf
<1>1. p \in Patches /\ Of[p] \notin disturbed
  BY DEF Jobs, PatchesOf
<1>2. p \in task[k].todo \/ Finished(p)
  BY DEF Accounted, Inside, InHand
<1>3. Finished(p) => Finished(p)'
  BY <1>1, FinishedStays
<1> QED BY <1>2, <1>3

\* A patch with enough reviews has a done row.
LEMMA EnoughIsFinished ==
  ASSUME TypeInv, GoalInv, NEW k \in Permits, task[k].pc # "free", NEW p \in Patches,
         EnoughReviews(k, p)
  PROVE  Finished(p)
<1>1. task[k].goal \in Nat /\ task[k].goal > 0
  BY DEF TypeInv, TypeOK, Task, GoalInv
<1>2. Cardinality(Successes(p)) # 0
  <2>1. SUFFICES ASSUME Cardinality(Successes(p)) = 0 PROVE FALSE
    OBVIOUS
  <2> QED BY <1>1, <2>1 DEF EnoughReviews
<1>3. Successes(p) # {}
  BY <1>2, FS_EmptySet
<1> QED BY <1>3 DEF Successes, Finished, DoneRow

\* The row of a skipped patch is done, and so is the row of a review that ends
\* with anything but a failure.
LEMMA SkippedIsFinished ==
  ASSUME TypeInv, NEW k \in Permits, NEW p \in Patches, SkipIgnored(k, p)
  PROVE  Finished(p)'
<1> DEFINE r    == [NewRow EXCEPT !.st = "Skipped"]
           rows == reviews[p]
<1>0. r \in Row /\ rows \in Seq(Row)
  BY NewRowType DEF TypeInv, TypeOK
<1>1. DoneRow(r)
  BY DEF NewRow, DoneRow
<1>2. PICK c \in ClaimIds(p) : reviews'[p] = WithRow(rows, c, r)
  BY DEF SkipIgnored, TypeInv, TypeOK
<1> HIDE DEF r, rows
<1>3. CASE c = 0
  <2>1. reviews'[p] = Added(rows, r)
    BY <1>2, <1>3 DEF WithRow, Added
  <2>2. \E n \in DOMAIN reviews'[p] : reviews'[p][n] = r
    BY <1>0, <2>1, RowAppendedLast
  <2> QED BY <1>1, <2>2 DEF Finished
<1>4. CASE c # 0
  <2>1. reviews'[p] = [rows EXCEPT ![c] = r] /\ c \in DOMAIN rows
    BY <1>2, <1>4 DEF WithRow, ClaimIds, PendingIds, rows
  <2>2. c \in DOMAIN reviews'[p] /\ reviews'[p][c] = r
    BY <1>0, <2>1, RowReplacedKeeps
  <2> QED BY <1>1, <2>2 DEF Finished
<1> QED BY <1>3, <1>4

LEMMA CompletedIsFinished ==
  ASSUME TypeInv, NEW k \in Permits, task[k].pc = "running", RowOK(k),
         NEW st \in {"Reviewed", "Skipped"}, NEW ai, NEW inline, Complete(k, st, ai, inline),
         NEW p, p = task[k].patch
  PROVE  Finished(p)'
<1> DEFINE c    == task[k].row
           rows == reviews[p]
           r    == [st |-> st, ai |-> ai, inline |-> inline]
<1>0. p \in Patches /\ rows \in Seq(Row) /\ c \in DOMAIN rows
  BY DEF TypeInv, TypeOK, TaskOK, OnPatch, PatchesOf, RowOK
<1>1. DoneRow(r)
  BY DEF DoneRow
<1>2. reviews'[p] = [rows EXCEPT ![c] = r]
  BY <1>0 DEF Complete, TypeInv, TypeOK
<1> HIDE DEF r, rows, c
<1>3. c \in DOMAIN reviews'[p] /\ reviews'[p][c] = r
  BY <1>0, <1>2, RowReplacedKeeps
<1> QED BY <1>1, <1>3 DEF Finished

\* The step of a task keeps its own account.
LEMMA WorkAccounted ==
  ASSUME TypeInv, RowInv, GoalInv, [Next]_vars, NEW k \in Permits, Accounted(k), Works(k),
         task[k].ps \notin disturbed
  PROVE  Accounted(k)'
<1>0. task[k] \in Task /\ RowOK(k)
  BY DEF TypeInv, TypeOK, RowInv
<1>1. CASE BaselineFound(k)
  <2>1. task'[k] = [task[k] EXCEPT !.pc = "next", !.todo = Jobs(task[k].ps)]
    BY <1>1, BecomePc DEF BaselineFound
  <2>2. task'[k].todo = Jobs(task'[k].ps) /\ task'[k].pc = "next"
    BY <1>0, <2>1 DEF Task
  <2> QED BY <2>2 DEF Accounted, Jobs, PatchesOf
<1>2. ASSUME NEW p \in Patches, AlreadyReviewed(k, p) PROVE Accounted(k)'
  <2>1. task'[k] = [task[k] EXCEPT !.todo = task[k].todo \ {p}] /\ task[k].pc = "next"
    BY <1>2, BecomePc DEF AlreadyReviewed, Turn, At
  <2>2. /\ task'[k].ps = task[k].ps /\ task'[k].todo = task[k].todo \ {p}
        /\ task'[k].pc = "next" /\ task'[k].failed = task[k].failed
    BY <1>0, <2>1 DEF Task
  <2>3. Finished(p)
    BY <1>2, <2>1, EnoughIsFinished DEF AlreadyReviewed
  <2>4. Finished(p)'
    <3>1. Of[p] = task[k].ps
      BY <1>2 DEF AlreadyReviewed, Turn, TypeInv, TaskOK, PatchesOf
    <3> QED BY <2>3, <3>1, FinishedStays
  <2> QED BY <2>1, <2>2, <2>4, AccountedTakes
<1>3. ASSUME NEW p \in Patches, BlockedByFailure(k, p) PROVE Accounted(k)'
  <2>1. /\ task'[k] = [task[k] EXCEPT !.todo = task[k].todo \ {p}, !.failed = TRUE]
        /\ task[k].pc = "next"
    BY <1>3, BecomePc DEF BlockedByFailure, Turn, At
  <2>2. task'[k].pc = "next" /\ task'[k].failed
    BY <1>0, <2>1 DEF Task
  <2> QED BY <2>2 DEF Accounted
<1>4. ASSUME NEW p \in Patches, SkipIgnored(k, p) PROVE Accounted(k)'
  <2>1. task'[k] = [task[k] EXCEPT !.todo = task[k].todo \ {p}] /\ task[k].pc = "next"
    BY <1>4, BecomePc DEF SkipIgnored, Turn, At
  <2>2. /\ task'[k].ps = task[k].ps /\ task'[k].todo = task[k].todo \ {p}
        /\ task'[k].pc = "next" /\ task'[k].failed = task[k].failed
    BY <1>0, <2>1 DEF Task
  <2>3. Finished(p)'
    BY <1>4, SkippedIsFinished
  <2> QED BY <2>1, <2>2, <2>3, AccountedTakes
<1>5. ASSUME NEW p \in Patches, StartPatch(k, p) PROVE Accounted(k)'
  <2>1. PICK n : task'[k] = [task[k] EXCEPT !.pc = "attempt", !.patch = p,
                               !.todo = task[k].todo \ {p}, !.row = n, !.tries = 0]
    BY <1>5, BecomePc DEF StartPatch
  <2>2. task[k].pc = "next"
    BY <1>5 DEF StartPatch, Turn, At
  <2>3. /\ task'[k].ps = task[k].ps /\ task'[k].todo = task[k].todo \ {p}
        /\ task'[k].pc = "attempt" /\ task'[k].patch = p /\ task'[k].failed = task[k].failed
    BY <1>0, <2>1 DEF Task
  <2> QED BY <2>2, <2>3, AccountedTakes DEF InHand
<1>6. CASE Attempt(k) \/ TakeRow(k)
  <2>1. task[k].pc \in {"attempt", "take"}
    BY <1>6 DEF Attempt, TakeRow, At
  <2>2. ASSUME NEW n, \/ task'[k] = [task[k] EXCEPT !.pc = "take", !.row = n]
                      \/ task'[k] = [task[k] EXCEPT !.pc = "running"]
        PROVE  /\ task'[k].ps = task[k].ps /\ task'[k].todo = task[k].todo
               /\ task'[k].patch = task[k].patch /\ task'[k].failed = task[k].failed
               /\ task'[k].pc \in {"take", "running"}
    BY <1>0, <2>2 DEF Task
  <2>3. /\ task'[k].ps = task[k].ps /\ task'[k].todo = task[k].todo
        /\ task'[k].patch = task[k].patch /\ task'[k].failed = task[k].failed
        /\ task'[k].pc \in {"take", "running"}
    <3>1. CASE Attempt(k)
      <4> DEFINE n == IF task[k].row = 0 THEN Len(reviews[task[k].patch]) + 1 ELSE task[k].row
      <4>1. task'[k] = [task[k] EXCEPT !.pc = "take", !.row = n]
        BY <3>1, BecomePc DEF Attempt
      <4> HIDE DEF n
      <4> QED BY <2>2, <4>1
    <3>2. CASE TakeRow(k)
      <4>1. task'[k] = [task[k] EXCEPT !.pc = "running"]
        BY <3>2, BecomePc DEF TakeRow
      <4> QED BY <2>2, <4>1
    <3> QED BY <1>6, <3>1, <3>2
  <2> QED BY <2>1, <2>3, AccountedStays DEF InHand, Inside
<1>7. CASE PauseBeforeAttempt(k) \/ PauseReview(k)
  <2>1. task'[k] = [task[k] EXCEPT !.pc = "paused"]
    BY <1>7, BecomePc DEF PauseBeforeAttempt, PauseReview
  <2>2. task'[k].pc = "paused"
    BY <1>0, <2>1 DEF Task
  <2> QED BY <2>2 DEF Accounted, Inside
<1>8. CASE Succeed(k) \/ SkipNoAi(k)
  <2>1. task[k].pc = "running"
    BY <1>8 DEF Succeed, SkipNoAi, At
  <2>2. \E pc \in {"notify", "next"} : task'[k] = [task[k] EXCEPT !.pc = pc]
    BY <1>8, BecomePc DEF Succeed, SkipNoAi
  <2>3. /\ task'[k].ps = task[k].ps /\ task'[k].todo = task[k].todo
        /\ task'[k].patch = task[k].patch /\ task'[k].failed = task[k].failed
        /\ task'[k].pc \in {"notify", "next"}
    BY <1>0, <2>2 DEF Task
  <2>4. \E st \in {"Reviewed", "Skipped"} : \E ai, inline : Complete(k, st, ai, inline)
    BY <1>8 DEF Succeed, SkipNoAi
  <2>5. ASSUME NEW p, p = task[k].patch PROVE Finished(p)'
    BY <1>0, <2>1, <2>4, <2>5, CompletedIsFinished
  <2>6. Finished(task[k].patch)'
    BY <2>3, <2>5 DEF Finished
  <2> QED BY <2>1, <2>3, <2>6, AccountedStays DEF InHand, Inside
<1>9. CASE Fail(k)
  <2>1. PICK o : task'[k] = AfterFailure(task[k], o)
    BY <1>9, BecomePc DEF Fail
  <2>2. task[k].pc = "running"
    BY <1>9 DEF Fail, At
  <2>3. CASE task'[k] = [task[k] EXCEPT !.pc = "next", !.failed = TRUE]
    <3>1. task'[k].pc = "next" /\ task'[k].failed
      BY <1>0, <2>3 DEF Task
    <3> QED BY <3>1 DEF Accounted
  <2>4. CASE task'[k] = [task[k] EXCEPT !.pc = "attempt", !.tries = task[k].tries + 1, !.row = 0]
    <3>1. /\ task'[k].ps = task[k].ps /\ task'[k].todo = task[k].todo
          /\ task'[k].patch = task[k].patch /\ task'[k].failed = task[k].failed
          /\ task'[k].pc = "attempt"
      BY <1>0, <2>4 DEF Task
    <3> QED BY <2>2, <3>1, AccountedStays DEF InHand, Inside
  <2> QED BY <2>1, <2>3, <2>4 DEF AfterFailure
<1>10. CASE NotifyCheck(k) \/ NotifyInsert(k)
  <2>1. task[k].pc \in {"notify", "insert"}
    BY <1>10 DEF NotifyCheck, NotifyInsert, At
  <2>2. \E pc \in {"next", "insert"} : task'[k] = [task[k] EXCEPT !.pc = pc]
    BY <1>10, BecomePc DEF NotifyCheck, NotifyInsert
  <2>3. /\ task'[k].ps = task[k].ps /\ task'[k].todo = task[k].todo
        /\ task'[k].patch = task[k].patch /\ task'[k].failed = task[k].failed
        /\ task'[k].pc \in {"next", "insert"}
    BY <1>0, <2>2 DEF Task
  <2> QED BY <2>1, <2>3, AccountedStays DEF InHand, Inside
<1> QED
  BY <1>1, <1>2, <1>3, <1>4, <1>5, <1>6, <1>7, <1>8, <1>9, <1>10 DEF Works, PatchStep

\* A task whose record is left alone keeps its account.
LEMMA AccountedIdle ==
  ASSUME TypeInv, RowInv, [Next]_vars, NEW l \in Permits, Accounted(l), task'[l] = task[l],
         task[l].ps \notin disturbed
  PROVE  Accounted(l)'
<1> SUFFICES ASSUME task[l].pc \in Inside, ~task[l].failed, NEW p \in Jobs(task[l].ps)
             PROVE  \/ p \in task[l].todo
                    \/ task[l].pc \in InHand /\ p = task[l].patch
                    \/ Finished(p)'
  BY DEF Accounted, Jobs, PatchesOf
<1>1. p \in Patches /\ Of[p] \notin disturbed
  BY DEF Jobs, PatchesOf
<1> QED BY <1>1, FinishedStays DEF Accounted

LEMMA AccountedNext ==
  ASSUME TypeInv, RowInv, GoalInv, [Next]_vars, NEW l \in Permits,
         task[l].ps \notin disturbed => Accounted(l), task'[l].ps \notin disturbed'
  PROVE  Accounted(l)'
<1>0. task'[l].ps = task[l].ps => task[l].ps \notin disturbed /\ Accounted(l)
  BY DisturbedGrows
<1>1. ASSUME NEW k \in Permits, Works(k) PROVE Accounted(l)'
  <2>1. CASE l = k
    BY <1>0, <1>1, <2>1, WorkAccounted, WorkStep DEF Continues
  <2>2. CASE l # k
    <3>1. task'[l] = task[l]
      BY <1>1, <2>2, WorkStep DEF Continues
    <3> QED BY <3>1, <1>0, AccountedIdle
  <2> QED BY <2>1, <2>2
<1>2. ASSUME NEW k \in Permits, Dispatch(k) \/ Begin(k) \/ Ends(k) PROVE Accounted(l)'
  <2>1. CASE l = k
    <3>1. task'[k].pc \in {"free", "spawned", "setup"}
      <4>1. CASE Dispatch(k)
        <5>1. PICK r \in batch : Become(k, [Free EXCEPT !.pc = "spawned", !.ps = r.ps, !.goal = r.goal])
          BY <4>1 DEF Dispatch
        <5>2. [Free EXCEPT !.pc = "spawned", !.ps = r.ps, !.goal = r.goal].pc = "spawned"
          BY DEF Free
        <5> QED BY <5>1, <5>2, BecomePc
      <4>2. CASE Begin(k)
        <5>1. task'[k] = [task[k] EXCEPT !.pc = "setup"] /\ task[k] \in Task
          BY <4>2, BecomePc DEF Begin, TypeInv, TypeOK
        <5> QED BY <5>1 DEF Task
      <4>3. CASE Ends(k)
        <5>1. task'[k] = Free
          BY <4>3, BecomePc DEF Ends, SetupFails, Park, WriteFinal
        <5> QED BY <5>1 DEF Free
      <4> QED BY <1>2, <4>1, <4>2, <4>3
    <3> QED BY <2>1, <3>1 DEF Accounted, Inside
  <2>2. CASE l # k
    <3>1. task'[l] = task[l]
      BY <1>2, <2>2, BecomePc DEF Dispatch, Begin, Ends, SetupFails, Park, WriteFinal
    <3> QED BY <3>1, <1>0, AccountedIdle
  <2> QED BY <2>1, <2>2
<1>3. ASSUME NEW k \in Permits, ReadBack(k) PROVE Accounted(l)'
  <2>1. CASE l # k
    <3>1. task'[l] = task[l]
      BY <1>3, <2>1, BecomePc DEF ReadBack
    <3> QED BY <3>1, <1>0, AccountedIdle
  <2>2. CASE l = k /\ task'[k] = Free
    <3>1. task'[k].pc = "free"
      BY <2>2 DEF Free
    <3> QED BY <2>2, <3>1 DEF Accounted, Inside
  <2>3. CASE l = k /\ task'[k] = [task[k] EXCEPT !.pc = "final"]
    <3>1. task[k] \in Task /\ task[k].pc = "next" /\ task[k].todo = {}
      BY <1>3 DEF ReadBack, At, TypeInv, TypeOK
    <3>2. /\ task'[k].ps = task[k].ps /\ task'[k].todo = task[k].todo
          /\ task'[k].patch = task[k].patch /\ task'[k].failed = task[k].failed
          /\ task'[k].pc = "final"
      BY <2>3, <3>1 DEF Task
    <3> QED BY <1>0, <2>3, <3>1, <3>2, AccountedStays DEF InHand, Inside
  <2> QED BY <1>3, <2>1, <2>2, <2>3, BecomePc DEF ReadBack
<1>4. CASE Crash
  <2>1. task'[l].pc = "free"
    BY <1>4 DEF Crash, Free
  <2> QED BY <2>1 DEF Accounted, Inside
<1>5. CASE \/ Boot \/ Poll \/ ReleaseScan \/ ReleaseCheck \/ ReleaseInsert \/ ReleaseEnd
           \/ RestartFailed \/ CloseWindow \/ OpenWindow \/ UNCHANGED vars
  <2>1. task' = task
    BY <1>5 DEF Boot, Poll, ReleaseScan, ReleaseCheck, ReleaseInsert, ReleaseEnd, RestartFailed,
       CloseWindow, OpenWindow, vars
  <2> QED BY <2>1, <1>0, AccountedIdle
<1>6. CASE Requests
  <2>1. task' = task
    BY <1>6 DEF Requests, Cancel, RerunStatus, RerunTarget, LastPartArrives, EmbargoEnds,
       Submits, Resubmit, FetchArrives, FetchFails
  <2> QED BY <2>1, <1>0, AccountedIdle
<1> QED
  BY <1>1, <1>2, <1>3, <1>4, <1>5, <1>6 DEF Next, Loop, TaskStep, Works, Ends

\* The last statement of a task writes Reviewed only when nothing failed; no
\* other step writes it.
LEMMA ReviewedNext ==
  ASSUME TypeInv, RowInv, DoneInv, [Next]_vars
  PROVE  ReviewedIsReviewed'
<1> SUFFICES ASSUME NEW s \in Patchsets, s \notin disturbed', status'[s] = "Reviewed",
                    NEW p \in Jobs(s)
             PROVE  Finished(p)'
  BY DEF ReviewedIsReviewed, Finished, DoneRow, Jobs, PatchesOf
<1>0. /\ p \in Patches /\ status \in [Patchsets -> Status]
      /\ s \notin disturbed /\ Of[p] \notin disturbed
  BY DisturbedGrows DEF Jobs, PatchesOf, TypeInv, TypeOK
<1>1. CASE status[s] = "Reviewed"
  <2>1. Finished(p)
    BY <1>0, <1>1 DEF DoneInv, ReviewedIsReviewed, Finished, DoneRow
  <2> QED BY <1>0, <2>1, FinishedStays
<1>2. ASSUME NEW k \in Permits, WriteFinal(k), status[s] # "Reviewed" PROVE Finished(p)'
  <2>1. s = task[k].ps /\ ~task[k].failed /\ task[k].pc = "final"
    BY <1>0, <1>2 DEF WriteFinal, At
  <2>2. task[k].todo = {} /\ Finished(p)
    BY <1>0, <2>1 DEF DoneInv, Accounted, Inside, InHand
  <2> QED BY <1>0, <2>2, FinishedStays
<1>3. ASSUME NEW k \in Permits, Begin(k) \/ SetupFails(k) \/ Park(k), status[s] # "Reviewed"
      PROVE  FALSE
  <2>1. \E st : st # "Reviewed" /\ status' = [status EXCEPT ![task[k].ps] = st]
    BY <1>3 DEF Begin, SetupFails, Park
  <2> QED BY <1>0, <1>3, <2>1
<1>4. ASSUME NEW k \in Permits, Works(k) \/ ReadBack(k) \/ Dispatch(k), status[s] # "Reviewed"
      PROVE  FALSE
  <2>1. status' = status
    BY <1>4, WorkStep DEF ReadBack, Dispatch
  <2> QED BY <1>4, <2>1
<1>5. CASE Boot \/ RestartFailed
  BY <1>0, <1>1, <1>5 DEF Boot, ResetStatus, RestartFailed, FailedSets
<1>6. CASE \/ Poll \/ ReleaseScan \/ ReleaseCheck \/ ReleaseInsert \/ ReleaseEnd
           \/ CloseWindow \/ OpenWindow \/ Crash \/ UNCHANGED vars
  <2>1. status' = status
    BY <1>6 DEF Poll, ReleaseScan, ReleaseCheck, ReleaseInsert, ReleaseEnd, CloseWindow,
       OpenWindow, Crash, vars
  <2> QED BY <1>1, <2>1
<1>7. ASSUME NEW x \in Patchsets,
             \/ \E force \in BOOLEAN : Cancel(x, force)
             \/ RerunStatus(x) \/ RerunTarget(x) \/ LastPartArrives(x) \/ EmbargoEnds(x) \/ Submits(x)
      PROVE  status[s] = "Reviewed"
  BY <1>0, <1>7 DEF Cancel, RerunStatus, RerunTarget, LastPartArrives, EmbargoEnds,
       Submits, Resubmit, FetchArrives, FetchFails
<1> QED
  BY <1>1, <1>2, <1>3, <1>4, <1>5, <1>6, <1>7 DEF Next, Loop, TaskStep, Works, Requests

\* Unless a rerun or a failed fetch wrote over its review, a patchset shown
\* Reviewed has a finished review, or a skip, for every patch that was to be
\* reviewed: retries, pauses, cancels, restarts and crashes lose none.
THEOREM ReviewedCorrect == Spec => []ReviewedIsReviewed
<1>1. Init => DoneInv
  <2> SUFFICES ASSUME Init PROVE DoneInv
    OBVIOUS
  <2>1. \A k \in Permits : task[k].pc = "free"
    BY DEF Init, Free
  <2>2. GoalInv
    BY <2>1 DEF Init, GoalInv
  <2>3. ReviewedIsReviewed
    BY DEF Init, ReviewedIsReviewed
  <2> QED BY <2>1, <2>2, <2>3 DEF DoneInv, Accounted, Inside
<1>2. TypeInv /\ OnceInv /\ RowInv /\ DoneInv /\ [Next]_vars => DoneInv'
  <2> SUFFICES ASSUME TypeInv, RowInv, DoneInv, [Next]_vars PROVE DoneInv'
    OBVIOUS
  <2>1. \A k \in Permits : task'[k].ps \notin disturbed' => Accounted(k)'
    BY AccountedNext DEF DoneInv
  <2> QED BY <2>1, GoalNext, ReviewedNext DEF DoneInv
<1>3. DoneInv => ReviewedIsReviewed
  BY DEF DoneInv
<1> QED BY <1>1, <1>2, <1>3, RowInvariant, PTL DEF Spec
=============================================================================
