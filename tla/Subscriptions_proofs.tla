------------------------ MODULE Subscriptions_proofs ------------------------
(***************************************************************************)
(* The subscription's checks for any works, checks and users, any number of *)
(* requests, faults and changes at the source: type correctness, and that   *)
(* no work is recorded as seen that nobody can meet any more, unless Redis  *)
(* refused the check that recorded it what settled the work.                *)
(***************************************************************************)
EXTENDS Subscriptions, TLAPS

USE SubscriptionsAssumption DEF Standings, CheckSteps, UserSteps

\* A check that ends or starts has its type.
LEMMA IdleCheckType ==
  /\ IdleCheck \in CheckTasks
  /\ [IdleCheck EXCEPT !.step = "release"] \in CheckTasks
BY DEF IdleCheck, CheckTasks, NoRow, Unlisted, Unknown, Missing, Rows
LEMMA FreshTaskType ==
  ASSUME NEW r \in Rows, NEW b \in BOOLEAN
  PROVE  [IdleCheck EXCEPT !.step = "list", !.claim = b, !.row = r] \in CheckTasks
BY DEF IdleCheck, CheckTasks, NoRow, Unlisted, Unknown, Missing, Rows

\* A fresh record has its type.
LEMMA NoRowType == NoRow \in Rows
BY DEF NoRow, Rows

\* What a check holds has its type.
LEMMA TaskFields ==
  ASSUME NEW t \in CheckTasks
  PROVE  /\ t.row \in Rows /\ t.shows \in [Works -> Standings]
         /\ t.prior \in [Works -> Missing]
         /\ t.asked \subseteq Works /\ t.todo \subseteq Works /\ t.marks \subseteq Works
         /\ t.turned \subseteq Works /\ t.taken \subseteq Works /\ t.missed \subseteq Works
BY DEF CheckTasks

\* A check that moves on keeps its type.
LEMMA TaskStepType ==
  ASSUME NEW t \in CheckTasks, NEW s \in CheckSteps
  PROVE  [t EXCEPT !.step = s] \in CheckTasks
BY DEF CheckTasks

\* A check that forgets what it has done keeps its type.
LEMMA TaskDoneType ==
  ASSUME NEW t \in CheckTasks, NEW ws \in SUBSET Works
  PROVE  /\ [t EXCEPT !.todo = ws] \in CheckTasks
         /\ [t EXCEPT !.turned = ws] \in CheckTasks
         /\ [t EXCEPT !.taken = ws] \in CheckTasks
         /\ [t EXCEPT !.marks = ws] \in CheckTasks
BY DEF CheckTasks

\* So does a check that remembers what Redis refused it.
LEMMA TaskMissedType ==
  ASSUME NEW t \in CheckTasks, NEW ws \in SUBSET Works, NEW vs \in SUBSET Works
  PROVE  /\ [t EXCEPT !.todo = ws, !.missed = vs] \in CheckTasks
         /\ [t EXCEPT !.turned = ws, !.missed = vs] \in CheckTasks
BY DEF CheckTasks

\* What a check reads of the source has its type.
LEMMA TaskListType ==
  ASSUME NEW t \in CheckTasks, NEW f \in [Works -> Standings]
  PROVE  /\ [t EXCEPT !.step = "seen", !.shows = f, !.whole = TRUE] \in CheckTasks
         /\ [t EXCEPT !.step = "seen", !.shows = f] \in CheckTasks
BY DEF CheckTasks

\* What a check reads of the store has its type.
LEMMA TaskReadType ==
  ASSUME NEW t \in CheckTasks, NEW ws \in SUBSET Works
  PROVE  /\ [t EXCEPT !.step = "rejected", !.seen = ws] \in CheckTasks
         /\ [t EXCEPT !.step = "decide", !.again = ws] \in CheckTasks
BY DEF CheckTasks
LEMMA TaskPriorType ==
  ASSUME NEW t \in CheckTasks, NEW g \in [Works -> Missing]
  PROVE  [t EXCEPT !.step = "snapshot", !.prior = g, !.asked = {}, !.missed = {}]
           \in CheckTasks
BY DEF CheckTasks

\* What a check decides has its type.
LEMMA TaskDecideType ==
  ASSUME NEW t \in CheckTasks, NEW asked \in SUBSET Works, NEW todo \in SUBSET Works,
         NEW marks \in SUBSET Works, NEW turned \in SUBSET Works,
         NEW taken \in SUBSET Works
  PROVE  [t EXCEPT !.step = "act", !.asked = asked, !.todo = todo, !.marks = marks,
                   !.turned = turned, !.taken = taken, !.seen = {}, !.again = {}]
           \in CheckTasks
BY DEF CheckTasks
LEMMA TaskWithdrawType ==
  ASSUME NEW t \in CheckTasks, NEW todo \in SUBSET Works
  PROVE  [t EXCEPT !.step = "withdraw", !.shows = Unlisted, !.whole = FALSE,
                   !.prior = Unknown, !.todo = todo] \in CheckTasks
BY DEF CheckTasks, Unlisted, Unknown, Missing

\* A request's handler keeps its type.
LEMMA IdleUserType == IdleUser \in UserTasks
BY DEF UserTasks, IdleUser, NoRow, Rows
LEMMA HandlerStepType ==
  ASSUME NEW t \in UserTasks, NEW s \in UserSteps
  PROVE  [t EXCEPT !.step = s] \in UserTasks
BY DEF UserTasks
LEMMA RequestType ==
  ASSUME NEW s \in UserSteps, NEW r \in Rows, NEW ws \in SUBSET Works,
         NEW e \in (Works \X Checks) \union {Nothing}
  PROVE  [step |-> s, row |-> r, works |-> ws, entry |-> e] \in UserTasks
BY DEF UserTasks

\* The initial state has its type.
LEMMA InitTypeOK == Init => TypeOK
<1> SUFFICES ASSUME Init PROVE TypeOK
  OBVIOUS
<1>1. check \in [Checks -> CheckTasks]
  BY IdleCheckType DEF Init
<1>2. user \in [Users -> UserTasks]
  BY IdleUserType DEF Init
<1>3. snapshot \in [Works -> Missing] /\ row \in Rows
  BY DEF Init, Unknown, Missing, Rows
<1>4. requests \in 0..MaxRequests /\ changes \in 0..MaxChanges /\ faults \in 0..MaxFaults
  BY DEF Init
<1>5. offer \in [Works -> Standings] /\ claimed \in BOOLEAN /\ removed \in BOOLEAN
  BY DEF Init
<1>6. /\ library \subseteq Works /\ queue \subseteq Works
      /\ seen \subseteq Works /\ rejected \subseteq Works
      /\ waiting \subseteq Works /\ discarded \subseteq Works
      /\ pending \subseteq Works \X Checks
      /\ handled \subseteq Works /\ pruned \subseteq Works /\ crossed \subseteq Works
      /\ lost \subseteq Works
  BY DEF Init
<1> QED
  BY <1>1, <1>2, <1>3, <1>4, <1>5, <1>6 DEF TypeOK

\* What a check decides, whatever it read, has its type.
LEMMA DecidedType ==
  ASSUME TypeOK, NEW c \in Checks, NEW read, read.asked \subseteq Works, DecideOn(c, read)
  PROVE  check' \in [Checks -> CheckTasks] /\ handled' \subseteq Works
<1> DEFINE Judged(verdicts) == {w \in Shown(c) : Verdict(c, w, read) \in verdicts}
<1>1. /\ Judged({"accepted"}) \subseteq Works
      /\ Judged({"held", "superseded"}) \subseteq Works
      /\ Conclusive(c, Shown(c) \ Judged({"soon"})) \subseteq Works
      /\ Conclusive(c, {w \in Judged({"rejected"}) : ~Redecided(c, w)}) \subseteq Works
      /\ Conclusive(c, {w \in Judged({"held", "accepted"}) : Redecided(c, w)})
           \subseteq Works
  BY DEF Shown, Conclusive
<1>2. check \in [Checks -> CheckTasks]
  BY DEF TypeOK
<1>3. /\ check' = [check EXCEPT
             ![c].step = "act", ![c].asked = read.asked, ![c].todo = Judged({"accepted"}),
             ![c].marks = Conclusive(c, Shown(c) \ Judged({"soon"})),
             ![c].turned = Conclusive(c, {w \in Judged({"rejected"}) : ~Redecided(c, w)}),
             ![c].taken = Conclusive(c, {w \in Judged({"held", "accepted"}) : Redecided(c, w)}),
             ![c].seen = {}, ![c].again = {}]
      /\ handled' = handled \union Judged({"held", "superseded"})
  BY DEF DecideOn
<1> HIDE DEF Judged
<1>4. [check[c] EXCEPT
         !.step = "act", !.asked = read.asked, !.todo = Judged({"accepted"}),
         !.marks = Conclusive(c, Shown(c) \ Judged({"soon"})),
         !.turned = Conclusive(c, {w \in Judged({"rejected"}) : ~Redecided(c, w)}),
         !.taken = Conclusive(c, {w \in Judged({"held", "accepted"}) : Redecided(c, w)}),
         !.seen = {}, !.again = {}] \in CheckTasks
  BY <1>1, <1>2, TaskDecideType
<1>5. check' \in [Checks -> CheckTasks]
  BY ZenonT(60), <1>2, <1>3, <1>4
<1> QED
  BY <1>1, <1>3, <1>5 DEF TypeOK

\* Every step keeps the types.
LEMMA NextTypeOK == TypeOK /\ AnswersName /\ [Next]_vars => TypeOK'
<1> SUFFICES ASSUME TypeOK, AnswersName, [Next]_vars PROVE TypeOK'
  OBVIOUS
<1>1. ASSUME NEW w \in Works, NEW o \in Standings, SourceChanges(w, o) PROVE TypeOK'
  BY <1>1, NoRowType DEF TypeOK, lists, answers, bounds, history, SourceChanges
<1>2. ASSUME NEW w \in Works, Downloaded(w) PROVE TypeOK'
  BY <1>2, NoRowType DEF TypeOK, lists, answers, bounds, history, Downloaded
<1>3. ASSUME NEW c \in Checks, Tick(c) PROVE TypeOK'
  <2>1. check' \in [Checks -> CheckTasks]
    BY <1>3, FreshTaskType DEF TypeOK, Tick, Begin, At
  <2> QED
    BY <1>3, TaskFields, <2>1
       DEF TypeOK, lists, answers, bounds, history, Tick, Begin, At, UserTasks,
           BeingForgotten
<1>4. ASSUME NEW c \in Checks, Release(c) PROVE TypeOK'
  <2>1. check' \in [Checks -> CheckTasks]
    BY <1>4, IdleCheckType DEF TypeOK, Release, At
  <2> QED
    BY <1>4, TaskFields, <2>1 DEF TypeOK, lists, answers, bounds, history, Release, At
<1>5. ASSUME NEW c \in Checks, Discover(c) PROVE TypeOK'
  <2>1. check' \in [Checks -> CheckTasks]
    BY <1>5, TaskListType DEF TypeOK, Discover, At
  <2> QED
    BY <1>5, TaskFields, <2>1 DEF TypeOK, lists, answers, bounds, history, Discover, At
<1>6. ASSUME NEW c \in Checks, NEW some \in SUBSET Works, DiscoverPart(c, some) PROVE TypeOK'
  <2>1. check' \in [Checks -> CheckTasks]
    BY <1>6, TaskListType, TaskFields DEF TypeOK, DiscoverPart, At
  <2> QED
    BY <1>6, TaskFields, <2>1
       DEF TypeOK, lists, answers, bounds, history, DiscoverPart, At
<1>7. ASSUME NEW c \in Checks, DiscoverFails(c) PROVE TypeOK'
  <2>1. check' \in [Checks -> CheckTasks]
    BY <1>7, IdleCheckType DEF TypeOK, DiscoverFails, At, Over
  <2> QED
    BY <1>7, TaskFields, <2>1
       DEF TypeOK, lists, answers, bounds, history, DiscoverFails, At, Over
<1>8. ASSUME NEW c \in Checks, ReadSeen(c) PROVE TypeOK'
  <2>1. check' \in [Checks -> CheckTasks]
    BY <1>8, TaskReadType DEF TypeOK, ReadSeen, At
  <2> QED
    BY <1>8, TaskFields, <2>1 DEF TypeOK, lists, answers, bounds, history, ReadSeen, At
<1>9. ASSUME NEW c \in Checks, ReadRejected(c) PROVE TypeOK'
  <2>1. check' \in [Checks -> CheckTasks]
    BY <1>9, TaskReadType DEF TypeOK, ReadRejected, At
  <2> QED
    BY <1>9, TaskFields, <2>1
       DEF TypeOK, lists, answers, bounds, history, ReadRejected, At
<1>10. ASSUME NEW c \in Checks, NEW newer \in SUBSET Works, Decide(c, newer) PROVE TypeOK'
  <2> DEFINE read == [held |-> library, newer |-> newer, settled |-> Settled, asked |-> Asked]
  <2>1. DecideOn(c, read) /\ UNCHANGED bounds
    BY <1>10 DEF Decide
  <2>2. read.asked \subseteq Works
    BY DEF TypeOK, Asked
  <2> HIDE DEF read
  <2>3. check' \in [Checks -> CheckTasks] /\ handled' \subseteq Works
    BY <2>1, <2>2, DecidedType
  <2>4. UNCHANGED <<offer, library, queue, row, lists, snapshot, answers, claimed, user,
                    pruned, crossed, lost, removed>>
    BY <2>1 DEF DecideOn
  <2> QED
    BY <2>1, <2>3, <2>4 DEF TypeOK, lists, answers, bounds
<1>11. ASSUME NEW c \in Checks, NEW w \in Works, Hold(c, w) PROVE TypeOK'
  <2>1. check' \in [Checks -> CheckTasks]
    BY <1>11, TaskDoneType, TaskFields DEF TypeOK, Hold, At, Acted
  <2> QED
    BY <1>11, TaskFields, <2>1
       DEF TypeOK, lists, answers, bounds, history, Hold, At, Acted
<1>12. ASSUME NEW c \in Checks, NEW w \in Works, Queue(c, w) PROVE TypeOK'
  <2>1. check' \in [Checks -> CheckTasks]
    BY <1>12, TaskDoneType, TaskFields DEF TypeOK, Queue, At, Acted
  <2> QED
    BY <1>12, TaskFields, <2>1
       DEF TypeOK, lists, answers, bounds, history, Queue, At, Acted
<1>13. ASSUME NEW c \in Checks, NEW w \in Works, Reserve(c, w) PROVE TypeOK'
  <2>1. check' \in [Checks -> CheckTasks]
    BY <1>13, TaskDoneType, TaskFields DEF TypeOK, Reserve, At, Acted
  <2> QED
    BY <1>13, TaskFields, <2>1
       DEF TypeOK, lists, answers, bounds, history, Reserve, At, Acted
<1>14. ASSUME NEW c \in Checks, NEW w \in Works, Withdraw(c, w) PROVE TypeOK'
  <2>1. check' \in [Checks -> CheckTasks]
    BY <1>14, TaskDoneType, TaskFields DEF TypeOK, Withdraw, At, Acted
  <2> QED
    BY <1>14, TaskFields, <2>1
       DEF TypeOK, lists, answers, bounds, history, Withdraw, At, Acted
<1>15. ASSUME NEW c \in Checks, MarkRejected(c) PROVE TypeOK'
  <2>1. check' \in [Checks -> CheckTasks]
    BY <1>15, TaskDoneType, TaskFields DEF TypeOK, MarkRejected, At, Turned
  <2> QED
    BY <1>15, TaskFields, <2>1
       DEF TypeOK, lists, answers, bounds, history, MarkRejected, At, Turned
<1>16. ASSUME NEW c \in Checks, ForgetRejected(c) PROVE TypeOK'
  <2>1. check' \in [Checks -> CheckTasks]
    BY <1>16, TaskDoneType, TaskFields DEF TypeOK, ForgetRejected, At, Taken
  <2> QED
    BY <1>16, TaskFields, <2>1
       DEF TypeOK, lists, answers, bounds, history, ForgetRejected, At, Taken
<1>17. ASSUME NEW c \in Checks, MarkSeen(c) PROVE TypeOK'
  <2>1. check' \in [Checks -> CheckTasks]
    BY <1>17, TaskDoneType, TaskFields DEF TypeOK, MarkSeen, At, Marked
  <2> QED
    BY <1>17, TaskFields, <2>1
       DEF TypeOK, lists, answers, bounds, history, MarkSeen, At, Marked
<1>18. ASSUME NEW c \in Checks, ReadSnapshot(c) PROVE TypeOK'
  <2>1. check' \in [Checks -> CheckTasks]
    BY <1>18, TaskPriorType DEF TypeOK, ReadSnapshot, At, Done
  <2> QED
    BY <1>18, TaskFields, <2>1
       DEF TypeOK, lists, answers, bounds, history, ReadSnapshot, At, Done
<1>19. ASSUME NEW c \in Checks, SaveSnapshot(c) PROVE TypeOK'
  <2>1. check' \in [Checks -> CheckTasks]
    BY <1>19, TaskWithdrawType DEF TypeOK, SaveSnapshot, At, Compared, Absent, Shown
  <2> QED
    BY <1>19, TaskFields, <2>1
       DEF TypeOK, lists, answers, bounds, history, SaveSnapshot, At, Absent, Shown,
           Missing
<1>20. ASSUME NEW c \in Checks, Save(c) PROVE TypeOK'
  <2>1. check' \in [Checks -> CheckTasks]
    BY <1>20, TaskStepType DEF TypeOK, Save, At, Goto
  <2> QED
    BY <1>20, TaskFields, <2>1 DEF TypeOK, lists, answers, bounds, history, Save, At, Goto
<1>21. ASSUME NEW c \in Checks, NEW gone \in SUBSET Settled, Prune(c, gone) PROVE TypeOK'
  <2>1. check' \in [Checks -> CheckTasks]
    BY <1>21, IdleCheckType DEF TypeOK, Prune, At, Over, Settled
  <2> QED
    BY <1>21, TaskFields, <2>1
       DEF TypeOK, lists, answers, bounds, history, Prune, At, Over, Settled
<1>22. ASSUME NEW c \in Checks, Refused(c) PROVE TypeOK'
  <2>1. check[c] \in CheckTasks
    BY DEF TypeOK
  <2>2. CASE RefusedRead(c)
    <3>1. check' \in [Checks -> CheckTasks]
      BY <2>1, <2>2, TaskStepType DEF TypeOK, RefusedRead, Goto
    <3> QED
      BY <1>22, <3>1 DEF TypeOK, Refused, lists, answers, bounds, history
  <2>3. CASE RefusedMark(c)
    <3>1. check' \in [Checks -> CheckTasks]
      <4>1. CASE Taken(c)
        BY <2>1, <4>1, TaskDoneType DEF TypeOK, Taken
      <4>2. CASE Marked(c)
        BY <2>1, <4>2, TaskDoneType DEF TypeOK, Marked
      <4>3. CASE check' = [check EXCEPT ![c].turned = {},
                                        ![c].missed = @ \union check[c].turned]
        <5>1. check[c].missed \union check[c].turned \in SUBSET Works
          BY <2>1, TaskFields
        <5>2. [check[c] EXCEPT !.turned = {}, !.missed = check[c].missed \union check[c].turned]
                \in CheckTasks
          BY <2>1, <5>1, TaskMissedType
        <5> QED
          BY <4>3, <5>2 DEF TypeOK
      <4> QED
        BY <2>3, <4>1, <4>2, <4>3 DEF RefusedMark
    <3> QED
      BY <1>22, <3>1 DEF TypeOK, Refused, lists, answers, bounds, history
  <2>5. CASE RefusedAct(c)
    <3>1. PICK w \in check[c].todo : Missed(c, w)
      BY <2>5 DEF RefusedAct
    <3>2. /\ check[c].todo \ {w} \in SUBSET Works
          /\ check[c].missed \union {w} \in SUBSET Works
      BY <2>1, TaskFields
    <3>3. [check[c] EXCEPT !.todo = check[c].todo \ {w},
                           !.missed = check[c].missed \union {w}] \in CheckTasks
      BY <2>1, <3>2, TaskMissedType
    <3>4. check' \in [Checks -> CheckTasks]
      BY <3>1, <3>3 DEF TypeOK, Missed
    <3> QED
      BY <1>22, <3>4 DEF TypeOK, Refused, lists, answers, bounds, history
  <2>4. CASE RefusedSave(c)
    <3>1. check' \in [Checks -> CheckTasks]
      <4>1. CASE Goto(c, "prune")
        BY <2>1, <4>1, TaskStepType DEF TypeOK, Goto
      <4>2. CASE Over(c)
        <5>1. (IF check[c].claim THEN [IdleCheck EXCEPT !.step = "release"] ELSE IdleCheck)
                \in CheckTasks
          BY IdleCheckType
        <5> QED
          BY <4>2, <5>1 DEF TypeOK, Over
      <4>3. CASE Compared(c)
        BY <2>1, <4>3, TaskWithdrawType DEF TypeOK, Compared, Absent, Shown
      <4>4. ASSUME NEW w \in check[c].todo, Acted(c, w)
            PROVE  check' \in [Checks -> CheckTasks]
        <5>1. check[c].todo \ {w} \in SUBSET Works
          BY <2>1, TaskFields
        <5>2. [check[c] EXCEPT !.todo = check[c].todo \ {w}] \in CheckTasks
          BY <2>1, <5>1, TaskDoneType
        <5> QED
          BY <4>4, <5>2 DEF TypeOK, Acted
      <4> QED
        BY <2>4, <4>1, <4>2, <4>3, <4>4 DEF RefusedSave
    <3> QED
      BY <1>22, <3>1 DEF TypeOK, Refused, lists, answers, bounds, history
  <2> QED
    BY <1>22, <2>2, <2>3, <2>4, <2>5 DEF Refused
<1>23. ASSUME NEW c \in Checks, CheckNow(c) PROVE TypeOK'
  <2>1. check' \in [Checks -> CheckTasks]
    BY <1>23, FreshTaskType DEF TypeOK, CheckNow, Begin, At
  <2> QED
    BY <1>23, TaskFields, <2>1
       DEF TypeOK, lists, answers, bounds, history, CheckNow, Begin, At, UserTasks,
           BeingForgotten
<1>24. ASSUME NEW u \in Users, Edit(u) PROVE TypeOK'
  <2>1. [row EXCEPT !.auto = ~@] \in Rows /\ [row EXCEPT !.on = ~@] \in Rows
    BY DEF TypeOK, Rows
  <2>2. user' \in [Users -> UserTasks]
    <3>1. CASE Request(u, "store", {}, Nothing, [row EXCEPT !.auto = ~@])
      BY <2>1, <3>1, RequestType DEF TypeOK, Request
    <3>2. CASE Request(u, "store", {}, Nothing, [row EXCEPT !.on = ~@])
      BY <2>1, <3>2, RequestType DEF TypeOK, Request
    <3> QED
      BY <1>24, <3>1, <3>2 DEF Edit
  <2> QED
    BY <1>24, <2>2 DEF TypeOK, lists, answers, bounds, history, Edit, Request
<1>25. ASSUME NEW u \in Users, StoreEdit(u) PROVE TypeOK'
  <2>1. user' \in [Users -> UserTasks]
    BY <1>25, IdleUserType DEF TypeOK, StoreEdit, UserAt, UserDone
  <2> QED
    BY <1>25, <2>1
       DEF TypeOK, lists, answers, bounds, history, StoreEdit, UserAt, UserDone,
           UserTasks
<1>26. ASSUME Remove PROVE TypeOK'
  BY <1>26, NoRowType
     DEF TypeOK, lists, answers, bounds, history, Remove, Unknown, Missing
<1>27. ASSUME NEW u \in Users, NEW e \in Works \X Checks, Approve(u, e) PROVE TypeOK'
  <2>1. user' \in [Users -> UserTasks]
    BY <1>27, RequestType, NoRowType DEF TypeOK, Approve, Request
  <2> QED
    BY <1>27, <2>1 DEF TypeOK, lists, answers, bounds, history, Approve, Request
<1>28. ASSUME NEW u \in Users, ApproveQueue(u) PROVE TypeOK'
  <2>1. user' \in [Users -> UserTasks]
    BY <1>28, HandlerStepType DEF TypeOK, ApproveQueue, UserAt, UserGoto
  <2> QED
    BY <1>28, <2>1
       DEF TypeOK, lists, answers, bounds, history, ApproveQueue, UserAt, UserGoto,
           AnswersName
<1>29. ASSUME NEW u \in Users, DropEntry(u) PROVE TypeOK'
  <2>1. user' \in [Users -> UserTasks]
    BY <1>29, IdleUserType DEF TypeOK, DropEntry, UserAt, UserDone
  <2> QED
    BY <1>29, <2>1
       DEF TypeOK, lists, answers, bounds, history, DropEntry, UserAt, UserDone,
           UserTasks
<1>30. ASSUME NEW u \in Users, NEW e \in Works \X Checks, Dismiss(u, e) PROVE TypeOK'
  <2>1. user' \in [Users -> UserTasks]
    BY <1>30, RequestType, NoRowType DEF TypeOK, Dismiss, Request
  <2> QED
    BY <1>30, <2>1 DEF TypeOK, lists, answers, bounds, history, Dismiss, Request
<1>31. ASSUME NEW u \in Users, DismissMark(u) PROVE TypeOK'
  <2>1. user' \in [Users -> UserTasks]
    BY <1>31, HandlerStepType DEF TypeOK, DismissMark, UserAt, UserGoto
  <2> QED
    BY <1>31, <2>1
       DEF TypeOK, lists, answers, bounds, history, DismissMark, UserAt, UserGoto,
           AnswersName
<1>32. ASSUME NEW u \in Users, NEW w \in Works, Block(u, w) PROVE TypeOK'
  <2>1. user' \in [Users -> UserTasks]
    BY <1>32, RequestType, NoRowType DEF TypeOK, Block, Request
  <2> QED
    BY <1>32, <2>1 DEF TypeOK, lists, answers, bounds, history, Block, Request
<1>33. ASSUME NEW u \in Users, BlockSeen(u) PROVE TypeOK'
  <2>1. user' \in [Users -> UserTasks]
    BY <1>33, HandlerStepType DEF TypeOK, BlockSeen, UserAt, UserGoto
  <2> QED
    BY <1>33, <2>1
       DEF TypeOK, lists, answers, bounds, history, BlockSeen, UserAt, UserGoto,
           UserTasks
<1>34. ASSUME NEW u \in Users, BlockUnreject(u) PROVE TypeOK'
  <2>1. user' \in [Users -> UserTasks]
    BY <1>34, IdleUserType DEF TypeOK, BlockUnreject, UserAt, UserDone
  <2> QED
    BY <1>34, <2>1
       DEF TypeOK, lists, answers, bounds, history, BlockUnreject, UserAt, UserDone,
           UserTasks
<1>35. ASSUME NEW u \in Users, NEW ws \in SUBSET Works, Forget(u, ws) PROVE TypeOK'
  <2>1. user' \in [Users -> UserTasks]
    BY <1>35, RequestType, NoRowType DEF TypeOK, Forget, Request
  <2> QED
    BY <1>35, <2>1 DEF TypeOK, lists, answers, bounds, history, Forget, Request
<1>36. ASSUME NEW u \in Users, ForgetSeen(u) PROVE TypeOK'
  <2>1. user' \in [Users -> UserTasks]
    BY <1>36, HandlerStepType DEF TypeOK, ForgetSeen, UserAt, UserGoto
  <2> QED
    BY <1>36, <2>1
       DEF TypeOK, lists, answers, bounds, history, ForgetSeen, UserAt, UserGoto,
           UserTasks
<1>37. ASSUME NEW u \in Users, ForgiveRejected(u) PROVE TypeOK'
  <2>1. user' \in [Users -> UserTasks]
    BY <1>37, IdleUserType DEF TypeOK, ForgiveRejected, UserAt, UserDone
  <2> QED
    BY <1>37, <2>1
       DEF TypeOK, lists, answers, bounds, history, ForgiveRejected, UserAt, UserDone
<1>38. ASSUME NEW w \in Works, Discard(w) PROVE TypeOK'
  BY <1>38, NoRowType DEF TypeOK, lists, answers, bounds, history, Discard
<1>39. ASSUME NEW w \in Works, DeleteArchive(w) PROVE TypeOK'
  BY <1>39, NoRowType DEF TypeOK, lists, answers, bounds, history, DeleteArchive
<1>40. ASSUME NEW u \in Users, Disconnect(u) PROVE TypeOK'
  <2>1. user' \in [Users -> UserTasks]
    BY <1>40, IdleUserType DEF TypeOK, Disconnect, UserDone
  <2> QED
    BY <1>40, <2>1 DEF TypeOK, lists, answers, bounds, history, Disconnect, UserDone
<1>41. ASSUME Crash PROVE TypeOK'
  <2>1. check' \in [Checks -> CheckTasks]
    BY <1>41, IdleCheckType DEF TypeOK, Crash
  <2>2. user' \in [Users -> UserTasks]
    BY <1>41, IdleUserType DEF TypeOK, Crash
  <2>3. faults < MaxFaults /\ faults' = faults + 1 /\ claimed' = FALSE
    BY <1>41 DEF Crash
  <2>4. faults' \in 0..MaxFaults
    BY <2>3 DEF TypeOK
  <2> QED
    BY <1>41, <2>1, <2>2, <2>3, <2>4 DEF TypeOK, Crash, lists, answers, history
<1>42. CASE UNCHANGED vars
  BY <1>42 DEF TypeOK, vars, lists, answers, bounds, history
<1>43. ASSUME NEW c \in Checks, DecideUnread(c) PROVE TypeOK'
  <2>1. PICK held \in {library, {}}, newer \in SUBSET Works,
             settled \in {Settled, {}}, asked \in {Asked, {}} :
               DecideOn(c, [held |-> held, newer |-> newer, settled |-> settled,
                            asked |-> asked])
    BY <1>43 DEF DecideUnread
  <2> DEFINE read == [held |-> held, newer |-> newer, settled |-> settled, asked |-> asked]
  <2>2. read.asked \subseteq Works
    BY DEF TypeOK, Asked
  <2>3. DecideOn(c, read)
    BY <2>1
  <2> HIDE DEF read
  <2>4. check' \in [Checks -> CheckTasks] /\ handled' \subseteq Works
    BY <2>2, <2>3, DecidedType
  <2>5. UNCHANGED <<offer, library, queue, row, lists, snapshot, answers, claimed, user,
                    pruned, crossed, lost, removed>>
    BY <2>3 DEF DecideOn
  <2>6. faults' \in 0..MaxFaults /\ UNCHANGED <<requests, changes>>
    BY <1>43 DEF DecideUnread, TypeOK
  <2> QED
    BY <2>4, <2>5, <2>6 DEF TypeOK, lists, answers
<1>44. ASSUME NEW u \in Users, DismissRefused(u) PROVE TypeOK'
  <2>1. user' \in [Users -> UserTasks]
    BY <1>44, HandlerStepType DEF TypeOK, DismissRefused, UserAt, UserGoto
  <2> QED
    BY <1>44, <2>1 DEF TypeOK, lists, answers, bounds, history, DismissRefused, UserGoto
<1>45. QED
  BY <1>1, <1>2, <1>3, <1>4, <1>5, <1>6, <1>7, <1>8, <1>9, <1>10, <1>11, <1>12, <1>13,
     <1>14, <1>15, <1>16, <1>17, <1>18, <1>19, <1>20, <1>21, <1>22, <1>23, <1>24, <1>25,
     <1>26, <1>27, <1>28, <1>29, <1>30, <1>31, <1>32, <1>33, <1>34, <1>35, <1>36, <1>37,
     <1>38, <1>39, <1>40, <1>41, <1>42, <1>43, <1>44
     DEF Next, CheckStep, CheckFault, UserStep, UserRequest, Environment

-----------------------------------------------------------------------------
\* What a request may do.
UserActs(u) == UserStep(u) \/ UserRequest(u) \/ DismissRefused(u) \/ Disconnect(u)

\* Only the user's handlers and a restart change what the handlers hold.
LEMMA ChecksKeepUsers ==
  ASSUME NEW c \in Checks, Tick(c) \/ CheckNow(c) \/ CheckStep(c) \/ CheckFault(c)
  PROVE  UNCHANGED <<user, removed>> /\ crossed \subseteq crossed' /\ pruned \subseteq pruned'
<1> DEFINE Goal ==
      UNCHANGED <<user, removed>> /\ crossed \subseteq crossed' /\ pruned \subseteq pruned'
<1>1. CASE Tick(c) \/ CheckNow(c)
  BY <1>1 DEF Tick, CheckNow, Begin
<1>2. ASSUME NEW read, DecideOn(c, read) PROVE Goal
  BY <1>2 DEF DecideOn
<1>3. CASE (\E newer \in SUBSET Works : Decide(c, newer)) \/ DecideUnread(c)
  BY <1>2, <1>3 DEF Decide, DecideUnread
<1>4. CASE \E w \in Works : Hold(c, w) \/ Queue(c, w) \/ Reserve(c, w) \/ Withdraw(c, w)
  BY <1>4 DEF Hold, Queue, Reserve, Withdraw, history
<1>5. CASE \E gone \in SUBSET Settled : Prune(c, gone)
  BY <1>5 DEF Prune
<1>6. CASE CheckFault(c)
  BY <1>3, <1>6 DEF CheckFault, DiscoverPart, DiscoverFails, Refused, history
<1> QED
  BY <1>1, <1>3, <1>4, <1>5, <1>6
     DEF CheckStep, Release, Discover, ReadSeen, ReadRejected, MarkRejected,
         ForgetRejected, MarkSeen, ReadSnapshot, SaveSnapshot, Save, history
LEMMA UsersKeepChecks ==
  ASSUME NEW u \in Users, UserActs(u)
  PROVE  UNCHANGED <<check, waiting, discarded, pruned, removed>>
BY DEF UserActs, UserStep, UserRequest, DismissRefused, Disconnect, Edit, StoreEdit,
       Approve, ApproveQueue, DropEntry,
       Dismiss, DismissMark, Block, BlockSeen, BlockUnreject, Forget, ForgetSeen,
       ForgiveRejected, history, answers

\* An answer in progress goes on being about a question.
LEMMA AnswersNameStep == TypeOK /\ AnswersName /\ [Next]_vars => AnswersName'
<1> SUFFICES ASSUME TypeOK, AnswersName, [Next]_vars PROVE AnswersName'
  OBVIOUS
<1> USE DEF AnswersName, TypeOK
<1>1. ASSUME NEW u \in Users, StoreEdit(u) PROVE AnswersName'
  BY <1>1 DEF StoreEdit, UserAt, UserDone, IdleUser, UserTasks
<1>2. ASSUME NEW u \in Users, ApproveQueue(u) PROVE AnswersName'
  BY <1>2 DEF ApproveQueue, UserAt, UserGoto, IdleUser, UserTasks
<1>3. ASSUME NEW u \in Users, DropEntry(u) PROVE AnswersName'
  BY <1>3 DEF DropEntry, UserAt, UserDone, IdleUser, UserTasks
<1>4. ASSUME NEW u \in Users, DismissMark(u) PROVE AnswersName'
  BY <1>4 DEF DismissMark, UserAt, UserGoto, IdleUser, UserTasks
<1>5. ASSUME NEW u \in Users, BlockSeen(u) PROVE AnswersName'
  BY <1>5 DEF BlockSeen, UserAt, UserGoto, IdleUser, UserTasks
<1>6. ASSUME NEW u \in Users, BlockUnreject(u) PROVE AnswersName'
  BY <1>6 DEF BlockUnreject, UserAt, UserDone, IdleUser, UserTasks
<1>7. ASSUME NEW u \in Users, ForgetSeen(u) PROVE AnswersName'
  BY <1>7 DEF ForgetSeen, UserAt, UserGoto, IdleUser, UserTasks
<1>8. ASSUME NEW u \in Users, ForgiveRejected(u) PROVE AnswersName'
  BY <1>8 DEF ForgiveRejected, UserAt, UserDone, IdleUser, UserTasks
<1>9. ASSUME NEW u \in Users, Edit(u) PROVE AnswersName'
  BY <1>9 DEF Edit, Request, IdleUser, UserTasks
<1>10. ASSUME NEW u \in Users, NEW e \in Works \X Checks, Approve(u, e) PROVE AnswersName'
  BY <1>10 DEF Approve, Request, IdleUser, UserTasks
<1>11. ASSUME NEW u \in Users, NEW e \in Works \X Checks, Dismiss(u, e) PROVE AnswersName'
  BY <1>11 DEF Dismiss, Request, IdleUser, UserTasks
<1>12. ASSUME NEW u \in Users, NEW w \in Works, Block(u, w) PROVE AnswersName'
  BY <1>12 DEF Block, Request, IdleUser, UserTasks
<1>13. ASSUME NEW u \in Users, NEW ws \in SUBSET Works, Forget(u, ws) PROVE AnswersName'
  BY <1>13 DEF Forget, Request, IdleUser, UserTasks
<1>14. ASSUME NEW u \in Users, Disconnect(u) PROVE AnswersName'
  BY <1>14 DEF Disconnect, UserDone, IdleUser, UserTasks
<1>15. ASSUME Crash PROVE AnswersName'
  BY <1>15 DEF Crash, IdleUser
<1>16. CASE UNCHANGED user
  BY <1>16
<1>17. ASSUME NEW u \in Users, DismissRefused(u) PROVE AnswersName'
  BY <1>17 DEF DismissRefused, UserAt, UserGoto, IdleUser, UserTasks
<1> QED
  BY <1>1, <1>2, <1>3, <1>4, <1>5, <1>6, <1>7, <1>8, <1>9, <1>10, <1>11, <1>12, <1>13,
     <1>14, <1>15, <1>16, <1>17, ChecksKeepUsers
     DEF Next, UserStep, UserRequest, Environment, SourceChanges, Downloaded, Discard,
         DeleteArchive, Remove, vars

\* What one step of a check does to its progress: it ran before (or gave its
\* claim back), the other checks are left alone, and when it stops, or comes to
\* the snapshot, nothing is left to record.
Progress(c) ==
  /\ \A d \in Checks \ {c} : check'[d] = check[d]
  /\ Running(c)' => Running(c)
  /\ ~Running(c)' => check'[c].seen = {} /\ check'[c].marks = {}
  /\ Recorded(c)'
\* What is in a check after it decided.
LEMMA Decided ==
  ASSUME TypeOK, NEW c \in Checks, NEW read, DecideOn(c, read)
  PROVE  LET Judged(verdicts) == {w \in Shown(c) : Verdict(c, w, read) \in verdicts} IN
         /\ \A d \in Checks \ {c} : check'[d] = check[d]
         /\ check[c].step = "decide" /\ check'[c].step = "act"
         /\ check'[c].asked = read.asked /\ check'[c].seen = {}
         /\ check'[c].todo = Judged({"accepted"})
         /\ check'[c].marks = Conclusive(c, Shown(c) \ Judged({"soon"}))
         /\ check'[c].turned = Conclusive(c, {w \in Judged({"rejected"}) : ~Redecided(c, w)})
         /\ check'[c].taken =
              Conclusive(c, {w \in Judged({"held", "accepted"}) : Redecided(c, w)})
<1> DEFINE Judged(verdicts) == {w \in Shown(c) : Verdict(c, w, read) \in verdicts}
           todo == Judged({"accepted"})
           marks == Conclusive(c, Shown(c) \ Judged({"soon"}))
           turned == Conclusive(c, {w \in Judged({"rejected"}) : ~Redecided(c, w)})
           taken == Conclusive(c, {w \in Judged({"held", "accepted"}) : Redecided(c, w)})
<1>1. /\ check' = [check EXCEPT ![c].step = "act", ![c].asked = read.asked, ![c].todo = todo,
                     ![c].marks = marks, ![c].turned = turned, ![c].taken = taken,
                     ![c].seen = {}, ![c].again = {}]
      /\ check[c].step = "decide"
  BY DEF DecideOn, At
<1>2. check \in [Checks -> CheckTasks]
  BY DEF TypeOK
<1> HIDE DEF todo, marks, turned, taken
<1>3. \A d \in Checks \ {c} : check'[d] = check[d]
  BY <1>1, <1>2
<1>4. /\ check'[c].step = "act" /\ check'[c].asked = read.asked /\ check'[c].seen = {}
      /\ check'[c].todo = todo /\ check'[c].marks = marks
      /\ check'[c].turned = turned /\ check'[c].taken = taken
  BY <1>1, <1>2 DEF CheckTasks
<1> QED
  BY <1>1, <1>3, <1>4 DEF todo, marks, turned, taken
LEMMA CheckProgress ==
  ASSUME TypeOK, ChecksRun, NEW c \in Checks, CheckStep(c) \/ CheckFault(c)
  PROVE  Progress(c)
<1> USE DEF TypeOK, CheckTasks, IdleCheck, Progress, Recorded, Running, At, Done
<1>1. ASSUME Release(c) PROVE Progress(c)
  BY <1>1 DEF Release
<1>2. ASSUME Discover(c) PROVE Progress(c)
  BY <1>2 DEF Discover
<1>3. ASSUME NEW some \in SUBSET Works, DiscoverPart(c, some) PROVE Progress(c)
  BY <1>3 DEF DiscoverPart
<1>4. ASSUME DiscoverFails(c) PROVE Progress(c)
  BY <1>4 DEF DiscoverFails, Over
<1>5. ASSUME ReadSeen(c) PROVE Progress(c)
  BY <1>5 DEF ReadSeen
<1>6. ASSUME ReadRejected(c) PROVE Progress(c)
  BY <1>6 DEF ReadRejected
<1>7. ASSUME NEW read, DecideOn(c, read) PROVE Progress(c)
  BY <1>7, Decided
<1>20. ASSUME NEW newer \in SUBSET Works, Decide(c, newer) PROVE Progress(c)
  BY <1>7, <1>20 DEF Decide
<1>21. ASSUME DecideUnread(c) PROVE Progress(c)
  BY <1>7, <1>21 DEF DecideUnread
<1>8. ASSUME NEW w \in Works, Hold(c, w) PROVE Progress(c)
  BY <1>8 DEF Hold, Acted
<1>9. ASSUME NEW w \in Works, Queue(c, w) PROVE Progress(c)
  BY <1>9 DEF Queue, Acted
<1>10. ASSUME NEW w \in Works, Reserve(c, w) PROVE Progress(c)
  BY <1>10 DEF Reserve, Acted
<1>11. ASSUME NEW w \in Works, Withdraw(c, w) PROVE Progress(c)
  BY <1>11 DEF Withdraw, Acted, ChecksRun
<1>12. ASSUME MarkRejected(c) PROVE Progress(c)
  BY <1>12 DEF MarkRejected, Turned
<1>13. ASSUME ForgetRejected(c) PROVE Progress(c)
  BY <1>13 DEF ForgetRejected, Taken
<1>14. ASSUME MarkSeen(c) PROVE Progress(c)
  BY <1>14 DEF MarkSeen, Marked
<1>15. ASSUME ReadSnapshot(c) PROVE Progress(c)
  BY <1>15 DEF ReadSnapshot
<1>16. ASSUME SaveSnapshot(c) PROVE Progress(c)
  BY <1>16 DEF SaveSnapshot, Compared, Absent, Shown, ChecksRun
<1>17. ASSUME Save(c) PROVE Progress(c)
  BY <1>17 DEF Save, Goto
<1>18. ASSUME NEW gone \in SUBSET Settled, Prune(c, gone) PROVE Progress(c)
  BY <1>18 DEF Prune, Over, Settled
<1>19. ASSUME Refused(c) PROVE Progress(c)
  <2>1. \A s \in CheckSteps \ {"idle", "release", "snapshot", "withdraw"} :
         Running(c) /\ Goto(c, s) => Progress(c)
    BY DEF Goto
  <2>2. At(c, "act") /\ Done(c) /\ Goto(c, "snapshot") => Progress(c)
    BY DEF Goto
  <2>3. Running(c) /\ Over(c) => Progress(c)
    BY DEF Over
  <2>4. Running(c) /\ Taken(c) => Progress(c)
    BY DEF Taken, ChecksRun
  <2>5. Running(c) /\ Marked(c) => Progress(c)
    BY DEF Marked, ChecksRun
  <2>6. CASE RefusedRead(c)
    BY <2>1, <2>2, <2>6 DEF RefusedRead
  <2>7. CASE RefusedAct(c)
    BY <2>7 DEF RefusedAct, Missed
  <2>8. ASSUME At(c, "act"),
               check' = [check EXCEPT ![c].turned = {}, ![c].missed = @ \union check[c].turned]
        PROVE  Progress(c)
    BY <2>8
  <2>9. CASE RefusedMark(c)
    BY <2>4, <2>5, <2>8, <2>9 DEF RefusedMark
  <2>10. ASSUME At(c, "snapshot"), Compared(c) PROVE Progress(c)
    BY <2>10 DEF Compared, ChecksRun
  <2>11. ASSUME At(c, "withdraw"), NEW w \in check[c].todo, Acted(c, w) PROVE Progress(c)
    BY <2>11 DEF Acted, ChecksRun
  <2>12. CASE RefusedSave(c)
    BY <2>1, <2>3, <2>10, <2>11, <2>12 DEF RefusedSave
  <2> QED
    BY <1>19, <2>6, <2>7, <2>9, <2>12 DEF Refused
<1> QED
  BY <1>1, <1>2, <1>3, <1>4, <1>5, <1>6, <1>8, <1>9, <1>10, <1>11, <1>12, <1>13,
     <1>14, <1>15, <1>16, <1>17, <1>18, <1>19, <1>20, <1>21
     DEF CheckStep, CheckFault

\* A check starts afresh.
LEMMA Started ==
  ASSUME TypeOK, NEW c \in Checks, Tick(c) \/ CheckNow(c)
  PROVE  /\ \A d \in Checks \ {c} : check'[d] = check[d]
         /\ check'[c].step = "list" /\ Running(c)'
         /\ check'[c].seen = {} /\ check'[c].marks = {} /\ check'[c].asked = {}
         /\ check'[c].taken = {}
         /\ crossed' = crossed \union BeingForgotten
         /\ UNCHANGED <<user, lists, answers, handled, pruned, lost, removed>>
<1>1. PICK b \in BOOLEAN : Begin(c, b)
  BY DEF Tick, CheckNow
<1>2. check' = [check EXCEPT ![c] = [IdleCheck EXCEPT !.step = "list", !.claim = b,
                                                    !.row = row]]
  BY <1>1 DEF Begin
<1>3. /\ \A d \in Checks \ {c} : check'[d] = check[d]
      /\ check'[c] = [IdleCheck EXCEPT !.step = "list", !.claim = b, !.row = row]
  BY <1>2 DEF TypeOK
<1>4. /\ check'[c].step = "list"
      /\ check'[c].seen = {} /\ check'[c].marks = {} /\ check'[c].asked = {}
      /\ check'[c].taken = {}
  BY <1>3 DEF IdleCheck
<1>5. UNCHANGED <<user, lists, answers, handled, pruned, lost, removed>>
  BY DEF Tick, CheckNow
<1> QED
  BY <1>1, <1>3, <1>4, <1>5 DEF Begin, Running

\* Checks go on having nothing in hand when they stop.
LEMMA ChecksRunStep == TypeOK /\ ChecksRun /\ [Next]_vars => ChecksRun'
<1> SUFFICES ASSUME TypeOK, ChecksRun, [Next]_vars PROVE ChecksRun'
  OBVIOUS
<1>1. ASSUME NEW c \in Checks, Tick(c) \/ CheckNow(c) PROVE ChecksRun'
  BY <1>1, Started DEF ChecksRun, Recorded, Running, At
<1>2. ASSUME NEW c \in Checks, CheckStep(c) \/ CheckFault(c) PROVE ChecksRun'
  BY <1>2, CheckProgress DEF ChecksRun, Recorded, Progress, Running, At
<1>3. ASSUME Crash PROVE ChecksRun'
  BY <1>3 DEF Crash, ChecksRun, Recorded, IdleCheck, Running, At
<1>4. CASE UNCHANGED check
  BY <1>4 DEF ChecksRun, Recorded, Running, At
<1> QED
  BY <1>1, <1>2, <1>3, <1>4, UsersKeepChecks
     DEF UserActs, Next, Environment, SourceChanges, Downloaded, Discard, DeleteArchive, Remove, vars

\* What is being forgotten under a running check goes on being crossed.
LEMMA ForgottenCrossStep ==
  TypeOK /\ ChecksRun /\ ForgottenCross /\ [Next]_vars => ForgottenCross'
<1> SUFFICES ASSUME TypeOK, ChecksRun, ForgottenCross, [Next]_vars PROVE ForgottenCross'
  OBVIOUS
<1>1. ASSUME NEW c \in Checks, Tick(c) \/ CheckNow(c) PROVE ForgottenCross'
  BY <1>1, Started DEF ForgottenCross, BeingForgotten
<1>2. ASSUME NEW c \in Checks, CheckStep(c) \/ CheckFault(c) PROVE ForgottenCross'
  <2>1. \A d \in Checks : Running(d)' => Running(d)
    BY <1>2, CheckProgress DEF Progress, Running
  <2>2. BeingForgotten' = BeingForgotten /\ crossed \subseteq crossed'
    BY <1>2, ChecksKeepUsers DEF BeingForgotten
  <2> QED
    BY <2>1, <2>2 DEF ForgottenCross
<1>3. ASSUME NEW u \in Users, UserActs(u)
      PROVE  ForgottenCross'
  <2>1. \A d \in Checks : Running(d)' <=> Running(d)
    BY <1>3, UsersKeepChecks DEF Running
  <2>2. ASSUME NEW ws \in SUBSET Works, Forget(u, ws) PROVE ForgottenCross'
    <3>1. BeingForgotten' \subseteq BeingForgotten \union ws
      BY <2>2 DEF Forget, Request, BeingForgotten, TypeOK
    <3> QED
      BY <2>1, <2>2, <3>1 DEF Forget, ForgottenCross
  <2>3. ASSUME BeingForgotten' \subseteq BeingForgotten, crossed' = crossed
        PROVE  ForgottenCross'
    BY <2>1, <2>3 DEF ForgottenCross
  <2>4. ASSUME StoreEdit(u) PROVE ForgottenCross'
    BY <2>4, <2>3
       DEF StoreEdit, UserAt, UserDone, IdleUser, UserTasks, TypeOK, BeingForgotten,
           history
  <2>5. ASSUME ApproveQueue(u) PROVE ForgottenCross'
    BY <2>5, <2>3
       DEF ApproveQueue, UserAt, UserGoto, IdleUser, UserTasks, TypeOK, BeingForgotten,
           history
  <2>6. ASSUME DropEntry(u) PROVE ForgottenCross'
    BY <2>6, <2>3
       DEF DropEntry, UserAt, UserDone, IdleUser, UserTasks, TypeOK, BeingForgotten,
           history
  <2>7. ASSUME DismissMark(u) PROVE ForgottenCross'
    BY <2>7, <2>3
       DEF DismissMark, UserAt, UserGoto, IdleUser, UserTasks, TypeOK, BeingForgotten,
           history
  <2>8. ASSUME BlockSeen(u) PROVE ForgottenCross'
    BY <2>8, <2>3
       DEF BlockSeen, UserAt, UserGoto, IdleUser, UserTasks, TypeOK, BeingForgotten,
           history
  <2>9. ASSUME BlockUnreject(u) PROVE ForgottenCross'
    BY <2>9, <2>3
       DEF BlockUnreject, UserAt, UserDone, IdleUser, UserTasks, TypeOK, BeingForgotten,
           history
  <2>10. ASSUME ForgetSeen(u) PROVE ForgottenCross'
    BY <2>10, <2>3
       DEF ForgetSeen, UserAt, UserGoto, IdleUser, UserTasks, TypeOK, BeingForgotten,
           history
  <2>11. ASSUME ForgiveRejected(u) PROVE ForgottenCross'
    BY <2>11, <2>3
       DEF ForgiveRejected, UserAt, UserDone, IdleUser, UserTasks, TypeOK,
           BeingForgotten, history
  <2>12. ASSUME Edit(u) PROVE ForgottenCross'
    <3>1. user'[u].step = "store" /\ \A v \in Users \ {u} : user'[v] = user[v]
      BY <2>12 DEF Edit, Request, TypeOK
    <3>2. crossed' = crossed
      BY <2>12 DEF Edit, history
    <3> QED
      BY <3>1, <3>2, <2>3 DEF BeingForgotten
  <2>13. ASSUME NEW e \in Works \X Checks, Approve(u, e) PROVE ForgottenCross'
    BY <2>13, <2>3
       DEF Approve, Request, IdleUser, UserTasks, TypeOK, BeingForgotten, history
  <2>14. ASSUME NEW e \in Works \X Checks, Dismiss(u, e) PROVE ForgottenCross'
    BY <2>14, <2>3
       DEF Dismiss, Request, IdleUser, UserTasks, TypeOK, BeingForgotten, history
  <2>15. ASSUME NEW w \in Works, Block(u, w) PROVE ForgottenCross'
    BY <2>15, <2>3
       DEF Block, Request, IdleUser, UserTasks, TypeOK, BeingForgotten, history
  <2>16. ASSUME Disconnect(u) PROVE ForgottenCross'
    BY <2>16, <2>3
       DEF Disconnect, UserDone, IdleUser, UserTasks, TypeOK, BeingForgotten, history
  <2>17. ASSUME DismissRefused(u) PROVE ForgottenCross'
    BY <2>17, <2>3
       DEF DismissRefused, UserAt, UserGoto, IdleUser, UserTasks, TypeOK, BeingForgotten,
           history
  <2> QED
    BY <1>3, <2>2, <2>4, <2>5, <2>6, <2>7, <2>8, <2>9, <2>10, <2>11, <2>12, <2>13, <2>14,
       <2>15, <2>16, <2>17
       DEF UserActs, UserStep, UserRequest
<1>4. ASSUME Crash PROVE ForgottenCross'
  BY <1>4 DEF Crash, ForgottenCross, Running, IdleCheck
<1>5. CASE UNCHANGED <<check, user, crossed>>
  BY <1>5 DEF ForgottenCross, Running, BeingForgotten
<1> QED
  BY <1>1, <1>2, <1>3, <1>4, <1>5
     DEF UserActs, Next, Environment, SourceChanges, Downloaded, Discard, DeleteArchive, Remove, vars,
         history

-----------------------------------------------------------------------------
\* What stays true of a work: once accounted for, it is; and a work leaves the
\* rejected set only if it is accounted for, or no longer seen with no check at
\* work.
Grows ==
  /\ Covered \subseteq Covered' /\ handled \subseteq handled'
  /\ \A w \in rejected \ rejected' :
       w \in Covered' \/ (w \notin seen' /\ \A c \in Checks : ~Running(c))

\* A check that does not move knows what it knew.
LEMMA CheckKept ==
  ASSUME ChecksRun, Grows, NEW d \in Checks, CheckKnows(d), check'[d] = check[d]
  PROVE  CheckKnows(d)'
<1>1. Safe \subseteq Safe' \/ \A c \in Checks : ~Running(c)
  BY DEF Grows, Safe
<1>2. CASE Safe \subseteq Safe'
  BY <1>2 DEF CheckKnows, Grows
<1>3. CASE ~Running(d)
  BY <1>3 DEF CheckKnows, Grows, ChecksRun
<1> QED
  BY <1>1, <1>2, <1>3

\* What was seen stays safe as long as only safe works are added.
LEMMA SeenKept ==
  ASSUME seen \subseteq Safe, Grows, seen' \subseteq seen \union Safe'
  PROVE  seen' \subseteq Safe'
BY DEF Grows, Safe

\* A handler that does not move knows what it knew, if what is recorded as seen
\* under it is accounted for.
LEMMA UserKept ==
  ASSUME Grows, NEW v \in Users, UserKnows(v), user'[v] = user[v],
         user[v].step = "forgive" => user[v].works \intersect (seen' \ seen) \subseteq Covered'
  PROVE  UserKnows(v)'
BY DEF Grows, UserKnows


\* A step of a check takes nothing back, and what the check knows after it is
\* true.
LEMMA CheckStepKnows ==
  ASSUME TypeOK, ChecksRun, seen \subseteq Safe,
         NEW c \in Checks, CheckKnows(c), CheckStep(c) \/ CheckFault(c)
  PROVE  /\ Grows /\ CheckKnows(c)'
         /\ seen' \subseteq seen \union Safe' /\ (Running(c) \/ seen' \subseteq seen)
<1> DEFINE Goal == /\ Grows /\ CheckKnows(c)'
                   /\ seen' \subseteq seen \union Safe' /\ (Running(c) \/ seen' \subseteq seen)
<1>a. ASSUME UNCHANGED <<lists, answers, history>> PROVE Grows /\ Safe' = Safe /\ Covered' = Covered
  BY <1>a DEF lists, answers, history, Grows, Covered, Safe, Asked, Settled
<1>b. check \in [Checks -> CheckTasks] /\ check[c] \in CheckTasks
  BY DEF TypeOK
<1>1. ASSUME Release(c) PROVE Goal
  <2>1. UNCHANGED <<lists, answers, history>>
    BY <1>1 DEF Release
  <2>2. CheckKnows(c)'
    BY <1>1, <1>a, <1>b, <2>1, TypeOK
       DEF Release, At, CheckTasks, CheckKnows, IdleCheck, ChecksRun, lists
  <2> QED
    BY <1>a, <2>1, <2>2 DEF lists
<1>2. ASSUME Discover(c) PROVE Goal
  <2>1. UNCHANGED <<lists, answers, history>>
    BY <1>2 DEF Discover
  <2>2. CheckKnows(c)'
    BY <1>2, <1>a, <1>b, <2>1, TypeOK
       DEF Discover, At, CheckTasks, CheckKnows, IdleCheck, ChecksRun, lists
  <2> QED
    BY <1>a, <2>1, <2>2 DEF lists
<1>3. ASSUME NEW some \in SUBSET Works, DiscoverPart(c, some) PROVE Goal
  <2>1. UNCHANGED <<lists, answers, history>>
    BY <1>3 DEF DiscoverPart
  <2>2. CheckKnows(c)'
    BY <1>3, <1>a, <1>b, <2>1, TypeOK
       DEF DiscoverPart, At, CheckTasks, CheckKnows, IdleCheck, ChecksRun, lists
  <2> QED
    BY <1>a, <2>1, <2>2 DEF lists
<1>4. ASSUME DiscoverFails(c) PROVE Goal
  <2>1. UNCHANGED <<lists, answers, history>>
    BY <1>4 DEF DiscoverFails
  <2>2. CheckKnows(c)'
    BY <1>4, <1>a, <1>b, <2>1, TypeOK
       DEF DiscoverFails, At, Over, CheckTasks, CheckKnows, IdleCheck, ChecksRun, lists
  <2> QED
    BY <1>a, <2>1, <2>2 DEF lists
<1>5. ASSUME ReadSeen(c) PROVE Goal
  <2>1. UNCHANGED <<lists, answers, history>>
    BY <1>5 DEF ReadSeen
  <2>2. CheckKnows(c)'
    BY <1>5, <1>a, <1>b, <2>1, TypeOK
       DEF ReadSeen, At, CheckTasks, CheckKnows, IdleCheck, ChecksRun, lists
  <2> QED
    BY <1>a, <2>1, <2>2 DEF lists
<1>6. ASSUME ReadRejected(c) PROVE Goal
  <2>1. UNCHANGED <<lists, answers, history>>
    BY <1>6 DEF ReadRejected
  <2>2. CheckKnows(c)'
    BY <1>6, <1>a, <1>b, <2>1, TypeOK
       DEF ReadRejected, At, CheckTasks, CheckKnows, IdleCheck, ChecksRun, lists
  <2> QED
    BY <1>a, <2>1, <2>2 DEF lists
<1>7. ASSUME NEW read, read.settled \subseteq Settled, read.asked \subseteq Asked,
             DecideOn(c, read)
      PROVE  Goal
  <2>1. Grows
    BY <1>7, <1>b
       DEF DecideOn, At, Shown, Conclusive, Asked, Grows, Covered, Settled, TypeOK, lists,
           answers, history, CheckKnows
  <2>2. CheckKnows(c)'
    <3> DEFINE Judged(verdicts) == {w \in Shown(c) : Verdict(c, w, read) \in verdicts}
    <3>1. /\ handled' = handled \union Judged({"held", "superseded"})
          /\ rejected' = rejected /\ Settled \subseteq Covered
      BY <1>7 DEF DecideOn, lists, Covered
    <3>2. /\ Judged({"held", "superseded"}) \subseteq Covered' /\ read.asked \subseteq Covered'
          /\ Safe \subseteq Safe' /\ Covered \subseteq Safe'
      BY <1>7, <2>1, <3>1 DEF Covered, Safe, Grows
    <3>3. ASSUME NEW w \in Shown(c) \ Judged({"soon"})
          PROVE  \/ w \in Safe' \/ w \in Judged({"accepted"})
                 \/ w \in {v \in Judged({"rejected"}) : ~Redecided(c, v)}
      <4>1. CASE w \in check[c].seen
        BY <3>2, <4>1 DEF CheckKnows
      <4>2. CASE w \in read.settled
        BY <1>7, <2>1, <3>1, <3>2, <4>2 DEF Grows
      <4>3. CASE w \notin check[c].seen \union read.settled
        <5>1. check[c].shows[w] \in {"rejected", "soon", "accepted"}
          BY <1>b DEF Shown, CheckTasks
        <5>2. Verdict(c, w, read) \in {"held", "superseded", "rejected", "soon", "accepted"}
          BY <4>3, <5>1 DEF Verdict
        <5>3. ~Redecided(c, w)
          BY <4>3 DEF Redecided
        <5>4. Judged({"held", "superseded"}) \subseteq Safe'
          BY <3>2 DEF Safe
        <5> QED
          BY <5>2, <5>3, <5>4
      <4> QED
        BY <4>1, <4>2, <4>3
    <3>8. /\ check'[c].asked = read.asked /\ check'[c].seen = {}
          /\ check'[c].todo = Judged({"accepted"})
          /\ check'[c].marks = Conclusive(c, Shown(c) \ Judged({"soon"}))
          /\ check'[c].turned =
               Conclusive(c, {w \in Judged({"rejected"}) : ~Redecided(c, w)})
          /\ check'[c].taken =
               Conclusive(c, {w \in Judged({"held", "accepted"}) : Redecided(c, w)})
      BY ZenonT(60), <1>7, Decided
    <3>4. check'[c].marks \subseteq Safe' \union check'[c].turned \union check'[c].todo
      <4>1. /\ check'[c].todo = Judged({"accepted"})
            /\ check'[c].marks = Conclusive(c, Shown(c) \ Judged({"soon"}))
            /\ check'[c].turned =
                 Conclusive(c, {w \in Judged({"rejected"}) : ~Redecided(c, w)})
        BY <3>8
      <4>2. CASE check[c].whole
        <5> HIDE DEF Judged
        <5>1. check'[c].turned = {w \in Judged({"rejected"}) : ~Redecided(c, w)}
          BY <4>1, <4>2 DEF Conclusive
        <5>2. check'[c].marks = Shown(c) \ Judged({"soon"})
          BY <4>1, <4>2 DEF Conclusive
        <5> QED
          BY <3>3, <4>1, <5>1, <5>2
      <4>3. CASE ~check[c].whole
        BY <4>1, <4>3 DEF Conclusive
      <4> QED
        BY <4>2, <4>3
    <3>7. Judged({"held", "accepted"}) \subseteq Covered' \union Judged({"accepted"})
      BY <3>2
    <3>5. check'[c].taken \subseteq Covered' \union check'[c].todo
      <4>1. check'[c].todo = Judged({"accepted"})
        BY <3>8
      <4>2. check'[c].taken \subseteq Judged({"held", "accepted"})
        <5>1. check'[c].taken =
                Conclusive(c, {w \in Judged({"held", "accepted"}) : Redecided(c, w)})
          BY <3>8
        <5> HIDE DEF Judged
        <5> QED
          BY <5>1 DEF Conclusive
      <4> QED
        BY <3>7, <4>1, <4>2
    <3>6. check'[c].asked \subseteq Covered' /\ check'[c].seen \subseteq Safe'
      BY <3>2, <3>8
    <3> QED
      BY <3>4, <3>5, <3>6 DEF CheckKnows
  <2>3. seen' \subseteq seen \union Safe' /\ (Running(c) \/ seen' \subseteq seen)
    BY <1>7, <1>b
       DEF DecideOn, At, Shown, Conclusive, Asked, CheckKnows, Safe, Covered, Settled,
           lists, history, answers, Running
  <2> QED
    BY <2>1, <2>2, <2>3
<1>20. ASSUME NEW newer \in SUBSET Works, Decide(c, newer) PROVE Goal
  <2> DEFINE read == [held |-> library, newer |-> newer, settled |-> Settled, asked |-> Asked]
  <2>1. DecideOn(c, read) /\ read.settled \subseteq Settled /\ read.asked \subseteq Asked
    BY <1>20 DEF Decide
  <2> HIDE DEF read
  <2> QED
    BY <1>7, <2>1
<1>21. ASSUME DecideUnread(c) PROVE Goal
  <2>1. PICK held \in {library, {}}, newer \in SUBSET Works,
             settled \in {Settled, {}}, asked \in {Asked, {}} :
               DecideOn(c, [held |-> held, newer |-> newer, settled |-> settled,
                            asked |-> asked])
    BY <1>21 DEF DecideUnread
  <2> DEFINE read == [held |-> held, newer |-> newer, settled |-> settled, asked |-> asked]
  <2>2. DecideOn(c, read) /\ read.settled \subseteq Settled /\ read.asked \subseteq Asked
    BY <2>1
  <2> HIDE DEF read
  <2> QED
    BY <1>7, <2>2
<1>8. ASSUME NEW w \in Works, Hold(c, w) PROVE Goal
  <2>1. Grows
    BY <1>8, <1>b
       DEF Hold, At, Acted, Grows, Covered, Asked, Settled, TypeOK, lists, answers,
           history, CheckKnows
  <2>2. CheckKnows(c)'
    <3>1. w \in Covered'
      <4>1. CASE w \in check[c].asked
        BY <2>1, <4>1 DEF CheckKnows, Grows
      <4>2. CASE w \notin check[c].asked
        <5>1. <<w, c>> \in pending' /\ <<w, c>>[1] = w
          BY <1>8, <4>2 DEF Hold
        <5> QED
          BY <5>1 DEF Covered, Asked
      <4> QED
        BY <4>1, <4>2
    <3>2. rejected' = rejected
      BY <1>8 DEF Hold, lists
    <3>3. check'[c] = [check[c] EXCEPT !.todo = @ \ {w}]
      BY <1>8, <1>b DEF Hold, Acted
    <3> QED
      BY <1>b, <2>1, <3>1, <3>2, <3>3 DEF CheckKnows, CheckTasks, Safe, Grows
  <2>3. seen' \subseteq seen \union Safe' /\ (Running(c) \/ seen' \subseteq seen)
    BY <1>8, <1>b
       DEF Hold, At, Acted, CheckKnows, Safe, Covered, Asked, Settled, lists, history,
           answers, Running
  <2> QED
    BY <2>1, <2>2, <2>3
<1>9. ASSUME NEW w \in Works, Queue(c, w) PROVE Goal
  <2>1. Grows
    BY <1>9, <1>b
       DEF Queue, At, Acted, Grows, Covered, Asked, Settled, TypeOK, lists, answers,
           history, CheckKnows
  <2>2. CheckKnows(c)'
    BY <1>9, <1>b
       DEF Queue, At, Acted, CheckTasks, CheckKnows, IdleCheck, lists, answers, history,
           Safe, Covered, Asked, Settled
  <2>3. seen' \subseteq seen \union Safe' /\ (Running(c) \/ seen' \subseteq seen)
    BY <1>9, <1>b
       DEF Queue, At, Acted, CheckKnows, Safe, Covered, Asked, Settled, lists, history,
           answers, Running
  <2> QED
    BY <2>1, <2>2, <2>3
<1>10. ASSUME NEW w \in Works, Reserve(c, w) PROVE Goal
  <2>1. Grows
    BY <1>10, <1>b
       DEF Reserve, At, Acted, Grows, Covered, Asked, Settled, TypeOK, lists, answers,
           history, CheckKnows
  <2>2. CheckKnows(c)'
    BY <1>10, <1>b
       DEF Reserve, At, Acted, CheckTasks, CheckKnows, IdleCheck, lists, answers,
           history, Safe, Covered, Asked, Settled
  <2>3. seen' \subseteq seen \union Safe' /\ (Running(c) \/ seen' \subseteq seen)
    BY <1>10, <1>b
       DEF Reserve, At, Acted, CheckKnows, Safe, Covered, Asked, Settled, lists, history,
           answers, Running
  <2> QED
    BY <2>1, <2>2, <2>3
<1>11. ASSUME NEW w \in Works, Withdraw(c, w) PROVE Goal
  <2>1. Grows
    <3>1. /\ handled' = handled \union {w} /\ pending' = {e \in pending : e[1] # w}
          /\ UNCHANGED <<lists, waiting, discarded, pruned, crossed, lost>>
      BY <1>11 DEF Withdraw
    <3>2. Asked \subseteq Asked' \union {w}
      BY <3>1 DEF Asked
    <3>3. Covered \subseteq Covered'
      BY <3>1, <3>2 DEF Covered, Settled
    <3> QED
      BY <3>1, <3>3 DEF Grows, lists
  <2>2. CheckKnows(c)'
    <3>1. Covered \subseteq Covered' /\ Safe \subseteq Safe'
      <4>1. rejected' = rejected
        BY <1>11 DEF Withdraw, lists
      <4> QED
        BY <2>1, <4>1 DEF Grows, Safe
    <3>2. /\ check'[c].asked = check[c].asked /\ check'[c].seen = check[c].seen
          /\ check'[c].marks = {} /\ check'[c].taken = {}
      BY <1>11, <1>b DEF Withdraw, At, Acted, CheckTasks, ChecksRun, Recorded
    <3> QED
      BY <3>1, <3>2 DEF CheckKnows
  <2>3. seen' \subseteq seen \union Safe' /\ (Running(c) \/ seen' \subseteq seen)
    BY <1>11, <1>b
       DEF Withdraw, At, Acted, CheckKnows, Safe, Covered, Asked, Settled, lists,
           history, answers, Running
  <2> QED
    BY <2>1, <2>2, <2>3
<1>12. ASSUME MarkRejected(c) PROVE Goal
  <2>1. Grows
    BY <1>12, <1>b
       DEF MarkRejected, At, Turned, Grows, Covered, Asked, Settled, TypeOK, lists,
           answers, history, CheckKnows
  <2>2. CheckKnows(c)'
    BY <1>12, <1>b
       DEF MarkRejected, At, Turned, CheckTasks, CheckKnows, IdleCheck, lists, answers,
           history, Safe, Covered, Asked, Settled
  <2>3. seen' \subseteq seen \union Safe' /\ (Running(c) \/ seen' \subseteq seen)
    BY <1>12, <1>b
       DEF MarkRejected, At, Turned, CheckKnows, Safe, Covered, Asked, Settled, lists,
           history, answers, Running
  <2> QED
    BY <2>1, <2>2, <2>3
<1>13. ASSUME ForgetRejected(c) PROVE Goal
  <2>1. Grows
    BY <1>13, <1>b
       DEF ForgetRejected, At, Taken, Grows, Covered, Asked, Settled, TypeOK, lists,
           answers, history, CheckKnows
  <2>2. CheckKnows(c)'
    BY <1>13, <1>b
       DEF ForgetRejected, At, Taken, CheckTasks, CheckKnows, IdleCheck, lists, answers,
           history, Safe, Covered, Asked, Settled
  <2>3. seen' \subseteq seen \union Safe' /\ (Running(c) \/ seen' \subseteq seen)
    BY <1>13, <1>b
       DEF ForgetRejected, At, Taken, CheckKnows, Safe, Covered, Asked, Settled, lists,
           history, answers, Running
  <2> QED
    BY <2>1, <2>2, <2>3
<1>14. ASSUME MarkSeen(c) PROVE Goal
  <2>1. Grows
    BY <1>14, <1>b
       DEF MarkSeen, At, Marked, Grows, Covered, Asked, Settled, TypeOK, lists, answers,
           history, CheckKnows
  <2>2. CheckKnows(c)'
    BY <1>14, <1>b
       DEF MarkSeen, At, Marked, CheckTasks, CheckKnows, IdleCheck, lists, answers,
           history, Safe, Covered, Asked, Settled
  <2>3. seen' \subseteq seen \union Safe' /\ (Running(c) \/ seen' \subseteq seen)
    BY <1>14, <1>b
       DEF MarkSeen, At, Marked, CheckKnows, Safe, Covered, Asked, Settled, lists,
           history, answers, Running
  <2> QED
    BY <2>1, <2>2, <2>3
<1>15. ASSUME ReadSnapshot(c) PROVE Goal
  <2>1. UNCHANGED <<lists, answers, history>>
    BY <1>15 DEF ReadSnapshot
  <2>2. CheckKnows(c)'
    BY <1>15, <1>a, <1>b, <2>1, TypeOK
       DEF ReadSnapshot, At, Done, CheckTasks, CheckKnows, IdleCheck, ChecksRun, lists
  <2> QED
    BY <1>a, <2>1, <2>2 DEF lists
<1>16. ASSUME SaveSnapshot(c) PROVE Goal
  <2>1. UNCHANGED <<lists, answers, history>>
    BY <1>16 DEF SaveSnapshot
  <2>2. CheckKnows(c)'
    BY <1>16, <1>a, <1>b, <2>1, TypeOK
       DEF SaveSnapshot, At, Compared, Absent, Shown, CheckTasks, CheckKnows, IdleCheck, ChecksRun,
           Recorded, lists
  <2> QED
    BY <1>a, <2>1, <2>2 DEF lists
<1>17. ASSUME Save(c) PROVE Goal
  <2>1. UNCHANGED <<lists, answers, history>>
    BY <1>17 DEF Save
  <2>2. CheckKnows(c)'
    BY <1>17, <1>a, <1>b, <2>1, TypeOK
       DEF Save, At, Goto, CheckTasks, CheckKnows, IdleCheck, ChecksRun, lists
  <2> QED
    BY <1>a, <2>1, <2>2 DEF lists
<1>18. ASSUME NEW gone \in SUBSET Settled, Prune(c, gone) PROVE Goal
  <2>1. Grows
    BY <1>18, <1>b
       DEF Prune, At, Over, Settled, Grows, Covered, Asked, TypeOK, lists, answers,
           history, CheckKnows
  <2>2. CheckKnows(c)'
    BY <1>18, <1>b
       DEF Prune, At, Over, Settled, CheckTasks, CheckKnows, IdleCheck, lists, answers,
           history, Safe, Covered, Asked
  <2>3. seen' \subseteq seen \union Safe' /\ (Running(c) \/ seen' \subseteq seen)
    BY <1>18, <1>b
       DEF Prune, At, Over, Settled, CheckKnows, Safe, Covered, Asked, lists, history,
           answers, Running
  <2> QED
    BY <2>1, <2>2, <2>3
<1>19. ASSUME Refused(c) PROVE Goal
  <2>1. UNCHANGED <<lists, answers, history>>
    BY <1>19 DEF Refused
  <2>2. CheckKnows(c)'
    <3>1. \A s \in CheckSteps : Goto(c, s) => CheckKnows(c)'
      BY <1>a, <1>b, <2>1 DEF Goto, CheckKnows, CheckTasks
    <3>2. CASE RefusedRead(c)
      BY <3>1, <3>2 DEF RefusedRead
    <3>3. CASE RefusedAct(c)
      <4>1. PICK w \in check[c].todo : Missed(c, w)
        BY <3>3 DEF RefusedAct
      <4>2. check'[c] = [check[c] EXCEPT !.todo = @ \ {w}, !.missed = @ \union {w}]
        BY <1>b, <4>1 DEF Missed
      <4> QED
        BY <1>a, <1>b, <2>1, <4>2 DEF CheckKnows, CheckTasks
    <3>4. CASE RefusedMark(c)
      <4>1. Taken(c) => CheckKnows(c)'
        BY <1>a, <1>b, <2>1 DEF Taken, CheckKnows, CheckTasks
      <4>2. Marked(c) => CheckKnows(c)'
        BY <1>a, <1>b, <2>1 DEF Marked, CheckKnows, CheckTasks
      <4>3. ASSUME check' = [check EXCEPT ![c].turned = {},
                                          ![c].missed = @ \union check[c].turned]
            PROVE  CheckKnows(c)'
        <5>1. check'[c] = [check[c] EXCEPT !.turned = {}, !.missed = @ \union check[c].turned]
          BY <1>b, <4>3
        <5> QED
          BY <1>a, <1>b, <2>1, <5>1 DEF CheckKnows, CheckTasks
      <4> QED
        BY <3>4, <4>1, <4>2, <4>3 DEF RefusedMark
    <3>5. CASE Over(c)
      <4>1. /\ check'[c].asked = {} /\ check'[c].seen = {} /\ check'[c].marks = {}
            /\ check'[c].taken = {}
        BY <1>b, <3>5 DEF Over, IdleCheck
      <4> QED
        BY <4>1 DEF CheckKnows
    <3>6. ASSUME At(c, "snapshot"), Compared(c) PROVE CheckKnows(c)'
      BY <1>a, <1>b, <2>1, <3>6
         DEF At, Compared, CheckTasks, CheckKnows, ChecksRun, Recorded
    <3>7. ASSUME At(c, "withdraw"), NEW w \in check[c].todo, Acted(c, w)
          PROVE  CheckKnows(c)'
      <4>1. check'[c] = [check[c] EXCEPT !.todo = @ \ {w}]
        BY <1>b, <3>7 DEF Acted
      <4>2. check[c].marks = {} /\ check[c].taken = {}
        BY <3>7 DEF ChecksRun, Recorded, At
      <4> QED
        BY <1>a, <1>b, <2>1, <4>1, <4>2 DEF CheckTasks, CheckKnows
    <3> QED
      BY <1>19, <3>1, <3>2, <3>3, <3>4, <3>5, <3>6, <3>7 DEF Refused, RefusedSave
  <2> QED
    BY <1>a, <2>1, <2>2 DEF lists
<1> QED
  BY <1>1, <1>2, <1>3, <1>4, <1>5, <1>6, <1>8, <1>9, <1>10, <1>11, <1>12, <1>13,
     <1>14, <1>15, <1>16, <1>17, <1>18, <1>19, <1>20, <1>21
     DEF CheckStep, CheckFault

\* Neither does a step of a request.
LEMMA UserStepKnows ==
  ASSUME TypeOK, AnswersName, ForgottenCross,
         NEW u \in Users, UserKnows(u), UserActs(u)
  PROVE  /\ Grows /\ UserKnows(u)' /\ seen' \subseteq seen \union handled'
         /\ \A v \in Users \ {u} : user'[v] = user[v]
<1> DEFINE Goal == /\ Grows /\ UserKnows(u)' /\ seen' \subseteq seen \union handled'
                   /\ \A v \in Users \ {u} : user'[v] = user[v]
<1>a. user \in [Users -> UserTasks] /\ user[u] \in UserTasks
  BY DEF TypeOK
<1>1. ASSUME StoreEdit(u) PROVE Goal
  <2>1. Grows
    BY <1>1, <1>a
       DEF StoreEdit, UserAt, UserDone, Grows, Covered, Asked, Settled, lists, answers,
           history, AnswersName, UserKnows
  <2>2. UserKnows(u)'
    BY <1>1, <1>a
       DEF StoreEdit, UserAt, UserDone, UserKnows, UserTasks, IdleUser, lists, history
  <2>3. /\ seen' \subseteq seen \union handled'
        /\ \A v \in Users \ {u} : user'[v] = user[v]
    BY <1>1, <1>a DEF StoreEdit, UserAt, UserDone, lists, UserKnows, AnswersName, history
  <2> QED
    BY <2>1, <2>2, <2>3
<1>2. ASSUME ApproveQueue(u) PROVE Goal
  <2>1. Grows
    BY <1>2, <1>a
       DEF ApproveQueue, UserAt, UserGoto, Grows, Covered, Asked, Settled, lists,
           answers, history, AnswersName, UserKnows
  <2>2. UserKnows(u)'
    BY <1>2, <1>a
       DEF ApproveQueue, UserAt, UserGoto, UserKnows, UserTasks, IdleUser, lists, history
  <2>3. /\ seen' \subseteq seen \union handled'
        /\ \A v \in Users \ {u} : user'[v] = user[v]
    BY <1>2, <1>a
       DEF ApproveQueue, UserAt, UserGoto, lists, UserKnows, AnswersName, history
  <2> QED
    BY <2>1, <2>2, <2>3
<1>3. ASSUME DropEntry(u) PROVE Goal
  <2>1. Grows
    BY <1>3, <1>a
       DEF DropEntry, UserAt, UserDone, Grows, Covered, Asked, Settled, lists, answers,
           history, AnswersName, UserKnows
  <2>2. UserKnows(u)'
    BY <1>3, <1>a
       DEF DropEntry, UserAt, UserDone, UserKnows, UserTasks, IdleUser, lists, history
  <2>3. /\ seen' \subseteq seen \union handled'
        /\ \A v \in Users \ {u} : user'[v] = user[v]
    BY <1>3, <1>a DEF DropEntry, UserAt, UserDone, lists, UserKnows, AnswersName, history
  <2> QED
    BY <2>1, <2>2, <2>3
<1>4. ASSUME DismissMark(u) PROVE Goal
  <2>1. Grows
    BY <1>4, <1>a
       DEF DismissMark, UserAt, UserGoto, Grows, Covered, Asked, Settled, lists, answers,
           history, AnswersName, UserKnows
  <2>2. UserKnows(u)'
    BY <1>4, <1>a
       DEF DismissMark, UserAt, UserGoto, UserKnows, UserTasks, IdleUser, lists, history
  <2>3. /\ seen' \subseteq seen \union handled'
        /\ \A v \in Users \ {u} : user'[v] = user[v]
    BY <1>4, <1>a
       DEF DismissMark, UserAt, UserGoto, lists, UserKnows, AnswersName, history
  <2> QED
    BY <2>1, <2>2, <2>3
<1>5. ASSUME BlockSeen(u) PROVE Goal
  <2>1. Grows
    BY <1>5, <1>a
       DEF BlockSeen, UserAt, UserGoto, Grows, Covered, Asked, Settled, lists, answers,
           history, AnswersName, UserKnows
  <2>2. UserKnows(u)'
    BY <1>5, <1>a
       DEF BlockSeen, UserAt, UserGoto, UserKnows, UserTasks, IdleUser, lists, history
  <2>3. /\ seen' \subseteq seen \union handled'
        /\ \A v \in Users \ {u} : user'[v] = user[v]
    BY <1>5, <1>a DEF BlockSeen, UserAt, UserGoto, lists, UserKnows, AnswersName, history
  <2> QED
    BY <2>1, <2>2, <2>3
<1>6. ASSUME BlockUnreject(u) PROVE Goal
  <2>1. Grows
    BY <1>6, <1>a
       DEF BlockUnreject, UserAt, UserDone, Grows, Covered, Asked, Settled, lists,
           answers, history, AnswersName, UserKnows
  <2>2. UserKnows(u)'
    BY <1>6, <1>a
       DEF BlockUnreject, UserAt, UserDone, UserKnows, UserTasks, IdleUser, lists,
           history
  <2>3. /\ seen' \subseteq seen \union handled'
        /\ \A v \in Users \ {u} : user'[v] = user[v]
    BY <1>6, <1>a
       DEF BlockUnreject, UserAt, UserDone, lists, UserKnows, AnswersName, history
  <2> QED
    BY <2>1, <2>2, <2>3
<1>7. ASSUME ForgetSeen(u) PROVE Goal
  <2>1. Grows
    BY <1>7, <1>a
       DEF ForgetSeen, UserAt, UserGoto, Grows, Covered, Asked, Settled, lists, answers,
           history, AnswersName, UserKnows
  <2>2. UserKnows(u)'
    BY <1>7, <1>a
       DEF ForgetSeen, UserAt, UserGoto, UserKnows, UserTasks, IdleUser, lists, history
  <2>3. /\ seen' \subseteq seen \union handled'
        /\ \A v \in Users \ {u} : user'[v] = user[v]
    BY <1>7, <1>a DEF ForgetSeen, UserAt, UserGoto, lists, UserKnows, AnswersName, history
  <2> QED
    BY <2>1, <2>2, <2>3
<1>8. ASSUME ForgiveRejected(u) PROVE Goal
  <2>1. Grows
    BY <1>8, <1>a
       DEF ForgiveRejected, UserAt, UserDone, Grows, Covered, Asked, Settled, lists,
           answers, history, AnswersName, UserKnows, ForgottenCross, BeingForgotten
  <2>2. UserKnows(u)'
    BY <1>8, <1>a
       DEF ForgiveRejected, UserAt, UserDone, UserKnows, UserTasks, IdleUser, lists,
           history
  <2>3. /\ seen' \subseteq seen \union handled'
        /\ \A v \in Users \ {u} : user'[v] = user[v]
    BY <1>8, <1>a
       DEF ForgiveRejected, UserAt, UserDone, lists, UserKnows, AnswersName, history
  <2> QED
    BY <2>1, <2>2, <2>3
<1>9. ASSUME Edit(u) PROVE Goal
  <2>1. Grows
    BY <1>9, <1>a
       DEF Edit, Request, Grows, Covered, Asked, Settled, lists, answers, history,
           AnswersName, UserKnows
  <2>2. UserKnows(u)'
    BY <1>9, <1>a DEF Edit, Request, UserKnows, UserTasks, IdleUser, lists, history
  <2>3. /\ seen' \subseteq seen \union handled'
        /\ \A v \in Users \ {u} : user'[v] = user[v]
    BY <1>9, <1>a DEF Edit, Request, lists, UserKnows, AnswersName, history
  <2> QED
    BY <2>1, <2>2, <2>3
<1>10. ASSUME NEW e \in Works \X Checks, Approve(u, e) PROVE Goal
  <2>1. Grows
    BY <1>10, <1>a
       DEF Approve, Request, Grows, Covered, Asked, Settled, lists, answers, history,
           AnswersName, UserKnows
  <2>2. UserKnows(u)'
    BY <1>10, <1>a DEF Approve, Request, UserKnows, UserTasks, IdleUser, lists, history
  <2>3. /\ seen' \subseteq seen \union handled'
        /\ \A v \in Users \ {u} : user'[v] = user[v]
    BY <1>10, <1>a DEF Approve, Request, lists, UserKnows, AnswersName, history
  <2> QED
    BY <2>1, <2>2, <2>3
<1>11. ASSUME NEW e \in Works \X Checks, Dismiss(u, e) PROVE Goal
  <2>1. Grows
    BY <1>11, <1>a
       DEF Dismiss, Request, Grows, Covered, Asked, Settled, lists, answers, history,
           AnswersName, UserKnows
  <2>2. UserKnows(u)'
    BY <1>11, <1>a DEF Dismiss, Request, UserKnows, UserTasks, IdleUser, lists, history
  <2>3. /\ seen' \subseteq seen \union handled'
        /\ \A v \in Users \ {u} : user'[v] = user[v]
    BY <1>11, <1>a DEF Dismiss, Request, lists, UserKnows, AnswersName, history
  <2> QED
    BY <2>1, <2>2, <2>3
<1>12. ASSUME NEW w \in Works, Block(u, w) PROVE Goal
  <2>1. Grows
    BY <1>12, <1>a
       DEF Block, Request, Grows, Covered, Asked, Settled, lists, answers, history,
           AnswersName, UserKnows
  <2>2. UserKnows(u)'
    BY <1>12, <1>a DEF Block, Request, UserKnows, UserTasks, IdleUser, lists, history
  <2>3. /\ seen' \subseteq seen \union handled'
        /\ \A v \in Users \ {u} : user'[v] = user[v]
    BY <1>12, <1>a DEF Block, Request, lists, UserKnows, AnswersName, history
  <2> QED
    BY <2>1, <2>2, <2>3
<1>13. ASSUME NEW ws \in SUBSET Works, Forget(u, ws) PROVE Goal
  <2>1. Grows
    BY <1>13, <1>a
       DEF Forget, Request, Grows, Covered, Asked, Settled, lists, answers, history,
           AnswersName, UserKnows
  <2>2. UserKnows(u)'
    BY <1>13, <1>a DEF Forget, Request, UserKnows, UserTasks, IdleUser, lists, history
  <2>3. /\ seen' \subseteq seen \union handled'
        /\ \A v \in Users \ {u} : user'[v] = user[v]
    BY <1>13, <1>a DEF Forget, Request, lists, UserKnows, AnswersName, history
  <2> QED
    BY <2>1, <2>2, <2>3
<1>14. ASSUME Disconnect(u) PROVE Goal
  <2>1. Grows
    BY <1>14, <1>a
       DEF Disconnect, UserDone, Grows, Covered, Asked, Settled, lists, answers, history,
           AnswersName, UserKnows
  <2>2. UserKnows(u)'
    BY <1>14, <1>a
       DEF Disconnect, UserDone, UserKnows, UserTasks, IdleUser, lists, history
  <2>3. /\ seen' \subseteq seen \union handled'
        /\ \A v \in Users \ {u} : user'[v] = user[v]
    BY <1>14, <1>a DEF Disconnect, UserDone, lists, UserKnows, AnswersName, history
  <2> QED
    BY <2>1, <2>2, <2>3
<1>15. ASSUME DismissRefused(u) PROVE Goal
  <2>1. Grows
    BY <1>15 DEF DismissRefused, Grows, Covered, Asked, Settled, lists, answers, history
  <2>2. UserKnows(u)'
    BY <1>15, <1>a
       DEF DismissRefused, UserAt, UserGoto, UserKnows, UserTasks, lists, history
  <2>3. /\ seen' \subseteq seen \union handled'
        /\ \A v \in Users \ {u} : user'[v] = user[v]
    BY <1>15, <1>a DEF DismissRefused, UserGoto, lists
  <2> QED
    BY <2>1, <2>2, <2>3
<1> QED
  BY <1>1, <1>2, <1>3, <1>4, <1>5, <1>6, <1>7, <1>8, <1>9, <1>10, <1>11, <1>12, <1>13,
     <1>14, <1>15
     DEF UserActs, UserStep, UserRequest

-----------------------------------------------------------------------------
\* What is known while the subscription exists.
Knowledge ==
  /\ seen \subseteq Safe
  /\ \A c \in Checks : CheckKnows(c)
  /\ \A u \in Users : UserKnows(u)

\* No step makes any of it untrue.
LEMMA KnowledgeStep ==
  ASSUME IndInv, Knowledge, [Next]_vars, ~removed'
  PROVE  Knowledge'
<1> USE DEF IndInv
<1>1. ASSUME NEW c \in Checks, CheckStep(c) \/ CheckFault(c) PROVE Knowledge'
  <2>1. /\ Grows /\ CheckKnows(c)'
        /\ seen' \subseteq seen \union Safe' /\ (Running(c) \/ seen' \subseteq seen)
    BY <1>1, CheckStepKnows DEF Knowledge
  <2>2. seen' \subseteq Safe'
    BY <2>1, SeenKept DEF Knowledge
  <2>3. ASSUME NEW d \in Checks \ {c} PROVE CheckKnows(d)'
    BY <1>1, <2>1, CheckProgress, CheckKept DEF Progress, Knowledge
  <2>4. ASSUME NEW u \in Users PROVE UserKnows(u)'
    <3>1. user'[u] = user[u]
      BY <1>1, ChecksKeepUsers
    <3>2. ASSUME user[u].step = "forgive", Running(c)
          PROVE  user[u].works \subseteq Covered'
      BY <2>1, <3>2 DEF ForgottenCross, BeingForgotten, Covered, Grows
    <3> QED
      BY <2>1, <3>1, <3>2, UserKept DEF Knowledge
  <2> QED
    BY <2>1, <2>2, <2>3, <2>4 DEF Knowledge
<1>2. ASSUME NEW c \in Checks, Tick(c) \/ CheckNow(c) PROVE Knowledge'
  <2>1. Grows /\ UNCHANGED <<seen, user>>
    BY <1>2, Started DEF Grows, Covered, Asked, Settled, lists, answers
  <2>2. CheckKnows(c)'
    BY <1>2, Started DEF CheckKnows
  <2>3. ASSUME NEW d \in Checks \ {c} PROVE CheckKnows(d)'
    BY <1>2, <2>1, Started, CheckKept DEF Knowledge
  <2>4. ASSUME NEW u \in Users PROVE UserKnows(u)'
    BY <2>1, UserKept DEF Knowledge
  <2>5. seen' \subseteq Safe'
    BY <2>1, SeenKept DEF Knowledge
  <2> QED
    BY <2>2, <2>3, <2>4, <2>5 DEF Knowledge
<1>3. ASSUME NEW u \in Users, UserActs(u)
      PROVE  Knowledge'
  <2>1. /\ Grows /\ UserKnows(u)' /\ seen' \subseteq seen \union handled'
        /\ \A v \in Users \ {u} : user'[v] = user[v]
    BY <1>3, UserStepKnows DEF Knowledge
  <2>2. handled' \subseteq Covered' /\ handled' \subseteq Safe'
    BY DEF Covered, Safe
  <2>3. ASSUME NEW d \in Checks PROVE CheckKnows(d)'
    BY <1>3, <2>1, UsersKeepChecks, CheckKept DEF Knowledge
  <2>4. ASSUME NEW v \in Users \ {u} PROVE UserKnows(v)'
    BY <2>1, <2>2, UserKept DEF Knowledge
  <2>5. seen' \subseteq Safe'
    BY <2>1, <2>2, SeenKept DEF Knowledge
  <2> QED
    BY <2>1, <2>3, <2>4, <2>5 DEF Knowledge
<1>4. ASSUME Grows, UNCHANGED <<seen, check, user>> PROVE Knowledge'
  BY <1>4, CheckKept, SeenKept, UserKept DEF Knowledge
<1>5. ASSUME NEW w \in Works, Discard(w) PROVE Knowledge'
  BY <1>4, <1>5 DEF Discard, Grows, Covered, Asked, Settled, lists, history
<1>6. ASSUME Crash PROVE Knowledge'
  <2>1. Grows /\ UNCHANGED seen
    BY <1>6 DEF Crash, Grows, Covered, Asked, Settled, lists, answers, history
  <2>2. ASSUME NEW d \in Checks PROVE CheckKnows(d)'
    BY <1>6 DEF Crash, CheckKnows, IdleCheck
  <2>3. ASSUME NEW u \in Users PROVE UserKnows(u)'
    BY <1>6 DEF Crash, UserKnows, IdleUser
  <2>4. seen' \subseteq Safe'
    BY <2>1, SeenKept DEF Knowledge
  <2> QED
    BY <2>2, <2>3, <2>4 DEF Knowledge
<1>7. ASSUME UNCHANGED <<lists, answers, history, check, user>> PROVE Knowledge'
  BY <1>4, <1>7 DEF lists, answers, history, Grows, Covered, Asked, Settled
<1>8. ASSUME NEW w \in Works,
             (\E o \in Standings : SourceChanges(w, o)) \/ Downloaded(w) \/ DeleteArchive(w)
      PROVE  Knowledge'
  BY <1>7, <1>8 DEF SourceChanges, Downloaded, DeleteArchive
<1>9. CASE Remove
  BY <1>9 DEF Remove
<1>10. CASE UNCHANGED vars
  BY <1>7, <1>10 DEF vars
<1> QED
  BY <1>1, <1>2, <1>3, <1>5, <1>6, <1>8, <1>9, <1>10
     DEF UserActs, Next, Environment

\* A deleted subscription stays deleted.
LEMMA RemovedStays == removed /\ TypeOK /\ [Next]_vars => removed'
BY ChecksKeepUsers, UsersKeepChecks
   DEF UserActs, Next, Environment, SourceChanges, Downloaded, Discard, DeleteArchive, Remove, Crash,
       vars, history, TypeOK

\* The invariant holds at the start, ...
LEMMA InitIndInv == Init => IndInv
<1> SUFFICES ASSUME Init PROVE IndInv
  OBVIOUS
<1>1. TypeOK
  BY InitTypeOK
<1>2. AnswersName /\ ChecksRun /\ ForgottenCross
  BY DEF Init, AnswersName, ChecksRun, Recorded, ForgottenCross, IdleCheck, IdleUser,
         Running, At
<1>3. \A c \in Checks : CheckKnows(c)
  BY DEF Init, CheckKnows, IdleCheck
<1>4. \A u \in Users : UserKnows(u)
  BY DEF Init, UserKnows, IdleUser
<1> QED
  BY <1>1, <1>2, <1>3, <1>4 DEF IndInv, Init

\* ... and every step keeps it.
LEMMA NextIndInv == IndInv /\ [Next]_vars => IndInv'
<1> SUFFICES ASSUME IndInv, [Next]_vars PROVE IndInv'
  OBVIOUS
<1>1. TypeOK' /\ AnswersName'
  BY NextTypeOK, AnswersNameStep DEF IndInv
<1>2. ChecksRun' /\ ForgottenCross'
  BY ChecksRunStep, ForgottenCrossStep DEF IndInv
<1>3. ASSUME ~removed' PROVE Knowledge'
  <2>1. Knowledge
    BY <1>3, RemovedStays DEF IndInv, Knowledge
  <2> QED
    BY <1>3, <2>1, KnowledgeStep
<1> QED
  BY <1>1, <1>2, <1>3 DEF IndInv, Knowledge

\* The invariant holds in every run (run_check, runner.rs:533): what a check is about
\* to record is accounted for, or still to be acted on, or was refused it by Redis.
THEOREM SpecIndInv == Spec => []IndInv
BY InitIndInv, NextIndInv, PTL DEF Spec

\* Type correctness of the subscription's state.
THEOREM AlwaysTypeOK == Spec => []TypeOK
<1>1. IndInv => TypeOK
  BY DEF IndInv
<1> QED
  BY <1>1, SpecIndInv, PTL

\* A work no check will look at again can always be met: it was queued, held,
\* superseded, withdrawn or answered, or it is a question or a reservation (the order
\* in which run_check acts and records, runner.rs:629-793). Excused: a pruned
\* reservation, a request to reconsider that met a running check, and a work whose
\* question, reservation or rejection Redis refused the check that then recorded it
\* (lost).
THEOREM AlwaysNothingSlipsAway == Spec => []NothingSlipsAway
<1>1. IndInv => NothingSlipsAway
  BY DEF IndInv, NothingSlipsAway, Accounted, Safe, Covered
<1> QED
  BY <1>1, SpecIndInv, PTL
=============================================================================
