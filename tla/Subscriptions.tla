--------------------------- MODULE Subscriptions ---------------------------
(***************************************************************************)
(* One subscription: its scheduled and manual checks (run_check), what a    *)
(* check leaves in Redis, and the user's requests about it and about the    *)
(* works it offers (lanrurugi-api/src/subscriptions, storage/subscriptions).*)
(*                                                                          *)
(* A check asks the source, reads the sets that say what was settled        *)
(* before, decides, acts on each accepted work, and only then records what  *)
(* it saw; every read and every write is a step of its own, and so other    *)
(* checks, requests and a crash come in between. A seen work is never       *)
(* looked at again unless it is also in the rejected set.                   *)
(***************************************************************************)
EXTENDS Naturals, FiniteSets

CONSTANTS
  Works,             \* canonical source urls
  Checks,            \* tasks that run run_check
  Users,             \* requests in progress
  Nothing,
  MissingThreshold,  \* snapshot.rs: MISSING_THRESHOLD
  MaxRequests,       \* bound on the user's requests
  MaxChanges,         \* bound on changes at the source
  MaxFaults          \* bound on bad listings, refused steps, lost clients and restarts

ASSUME SubscriptionsAssumption ==
  /\ Nothing \notin Works
  /\ MissingThreshold \in Nat \ {0}
  /\ MaxRequests \in Nat /\ MaxChanges \in Nat /\ MaxFaults \in Nat

VARIABLES
  offer,      \* what a full listing would show of a work, judged by the rules
  library,    \* works an archive carries as its source
  queue,      \* works with a row in the download queue
  row,        \* the subscription's record
  seen, rejected,
  snapshot,   \* checks a listed work has been missing from
  pending,    \* questions to the user: the work, and the check that asked
  waiting, discarded,   \* reservations
  claimed,    \* the in-flight set holds the subscription
  check, user,
  requests, changes, faults,
  handled,    \* history: queued, held, superseded, withdrawn or answered
  pruned,     \* history: dropped from the full reservation list
  crossed,    \* history: a request to reconsider met a running check
  lost,       \* history: recorded as handled although Redis refused what handled it
  removed     \* history: the user deleted the subscription

lists == <<seen, rejected>>
answers == <<pending, waiting, discarded>>
history == <<handled, pruned, crossed, lost, removed>>
bounds == <<requests, changes, faults>>
vars == <<offer, library, queue, row, lists, snapshot, answers, claimed, check, user,
          bounds, history>>

Standings == {"absent", "rejected", "soon", "accepted"}
Rows == [there : BOOLEAN, on : BOOLEAN, auto : BOOLEAN]
Missing == (0..MissingThreshold) \union {Nothing}

CheckSteps == {"idle", "list", "seen", "rejected", "decide", "act", "snapshot",
               "withdraw", "prune", "release"}
NoRow == [there |-> FALSE, on |-> FALSE, auto |-> FALSE]
Unlisted == [w \in Works |-> "absent"]
Unknown == [w \in Works |-> Nothing]
IdleCheck ==
  [step |-> "idle", claim |-> FALSE, row |-> NoRow, shows |-> Unlisted, whole |-> FALSE,
   seen |-> {}, again |-> {}, asked |-> {}, todo |-> {}, marks |-> {}, turned |-> {},
   taken |-> {}, missed |-> {}, prior |-> Unknown]
CheckTasks ==
  [step : CheckSteps, claim : BOOLEAN, row : Rows, shows : [Works -> Standings],
   whole : BOOLEAN, seen : SUBSET Works, again : SUBSET Works, asked : SUBSET Works,
   todo : SUBSET Works, marks : SUBSET Works, turned : SUBSET Works,
   taken : SUBSET Works, missed : SUBSET Works, prior : [Works -> Missing]]

UserSteps == {"idle", "store", "queue", "dismiss", "drop", "block", "unreject",
              "forget", "forgive"}
IdleUser == [step |-> "idle", row |-> NoRow, works |-> {}, entry |-> Nothing]
UserTasks == [step : UserSteps, row : Rows, works : SUBSET Works,
              entry : (Works \X Checks) \union {Nothing}]

TypeOK ==
  /\ offer \in [Works -> Standings] /\ snapshot \in [Works -> Missing]
  /\ library \subseteq Works /\ queue \subseteq Works
  /\ seen \subseteq Works /\ rejected \subseteq Works
  /\ waiting \subseteq Works /\ discarded \subseteq Works
  /\ pending \subseteq Works \X Checks
  /\ row \in Rows /\ claimed \in BOOLEAN
  /\ check \in [Checks -> CheckTasks] /\ user \in [Users -> UserTasks]
  /\ handled \subseteq Works /\ pruned \subseteq Works /\ crossed \subseteq Works
  /\ lost \subseteq Works /\ removed \in BOOLEAN
  /\ requests \in 0..MaxRequests /\ changes \in 0..MaxChanges /\ faults \in 0..MaxFaults

Asked == {e[1] : e \in pending}
Settled == waiting \union discarded

Init ==
  /\ offer \in [Works -> Standings]
  /\ row \in [there : {TRUE}, on : {TRUE}, auto : BOOLEAN]
  /\ library = {} /\ queue = {} /\ snapshot = Unknown
  /\ seen = {} /\ rejected = {}
  /\ pending = {} /\ waiting = {} /\ discarded = {}
  /\ claimed = FALSE /\ removed = FALSE
  /\ check = [c \in Checks |-> IdleCheck] /\ user = [u \in Users |-> IdleUser]
  /\ requests = 0 /\ changes = 0 /\ faults = 0
  /\ handled = {} /\ pruned = {} /\ crossed = {} /\ lost = {}

-----------------------------------------------------------------------------
\* The source and the downloads.

\* The source's listing changes: a work appears, is edited, rated, withdrawn.
SourceChanges(w, o) ==
  /\ o # offer[w] /\ changes < MaxChanges
  /\ changes' = changes + 1 /\ offer' = [offer EXCEPT ![w] = o]
  /\ UNCHANGED <<library, queue, row, lists, snapshot, answers, claimed, check, user,
                 requests, faults, history>>

\* A row of the queue is downloaded and its archive carries the source.
Downloaded(w) ==
  /\ w \in queue
  /\ queue' = queue \ {w} /\ library' = library \union {w}
  /\ UNCHANGED <<offer, row, lists, snapshot, answers, claimed, check, user, bounds,
                 history>>

-----------------------------------------------------------------------------
\* A check.

At(c, step) == check[c].step = step
Running(c) == check[c].step \notin {"idle", "release"}
Goto(c, step) == check' = [check EXCEPT ![c].step = step]

\* The works whose reconsideration is being asked for right now.
BeingForgotten ==
  UNION {user[u].works : u \in {v \in Users : user[v].step \in {"forget", "forgive"}}}

\* Begin the check c, with or without the claim: run_check reads the record that
\* it will store at its end.
Begin(c, claim) ==
  /\ check' = [check EXCEPT ![c] = [IdleCheck EXCEPT !.step = "list", !.claim = claim,
                                                   !.row = row]]
  /\ crossed' = crossed \union BeingForgotten

\* The scheduler's tick: an enabled subscription that nobody has claimed. When its
\* interval and its settle window are over is left open.
Tick(c) ==
  /\ At(c, "idle") /\ row.there /\ row.on /\ ~claimed
  /\ Begin(c, TRUE) /\ claimed' = TRUE
  /\ UNCHANGED <<offer, library, queue, row, lists, snapshot, answers, user, bounds,
                 handled, pruned, lost, removed>>

\* The check is over: the guard's drop spawns the release of the claim.
Over(c) == check' = [check EXCEPT ![c] =
  IF check[c].claim THEN [IdleCheck EXCEPT !.step = "release"] ELSE IdleCheck]

\* The spawned task takes the claim back.
Release(c) ==
  /\ At(c, "release")
  /\ check' = [check EXCEPT ![c] = IdleCheck] /\ claimed' = FALSE
  /\ UNCHANGED <<offer, library, queue, row, lists, snapshot, answers, user, bounds,
                 history>>

\* The plugin's listing: all of it.
Discover(c) ==
  /\ At(c, "list")
  /\ check' = [check EXCEPT ![c].step = "seen", ![c].shows = offer, ![c].whole = TRUE]
  /\ UNCHANGED <<offer, library, queue, row, lists, snapshot, answers, claimed, user,
                 bounds, history>>

\* The sign-in was missing, or the source answered with an error: a part of the
\* listing, or nothing of it, and no authority.
DiscoverPart(c, some) ==
  /\ At(c, "list") /\ faults < MaxFaults
  /\ faults' = faults + 1
  /\ check' = [check EXCEPT ![c].step = "seen",
       ![c].shows = [w \in Works |-> IF w \in some THEN offer[w] ELSE "absent"]]
  /\ UNCHANGED <<offer, library, queue, row, lists, snapshot, answers, claimed, user,
                 requests, changes, history>>

\* The plugin is gone or its call failed: the check returns at once.
DiscoverFails(c) ==
  /\ At(c, "list") /\ faults < MaxFaults
  /\ faults' = faults + 1 /\ Over(c)
  /\ UNCHANGED <<offer, library, queue, row, lists, snapshot, answers, claimed, user,
                 requests, changes, history>>

ReadSeen(c) ==
  /\ At(c, "seen")
  /\ check' = [check EXCEPT ![c].step = "rejected", ![c].seen = seen]
  /\ UNCHANGED <<offer, library, queue, row, lists, snapshot, answers, claimed, user,
                 bounds, history>>

ReadRejected(c) ==
  /\ At(c, "rejected")
  /\ check' = [check EXCEPT ![c].step = "decide", ![c].again = rejected]
  /\ UNCHANGED <<offer, library, queue, row, lists, snapshot, answers, claimed, user,
                 bounds, history>>

\* Mutant: a rejection is final.
RedecidedNever(c, w) == FALSE /\ w \in check[c].again

\* A seen work is decided afresh only if a rule had turned it away.
Redecided(c, w) == w \in check[c].seen /\ w \in check[c].again

\* Redecided or not, a work is settled if it is held or reserved already, or if
\* the library holds a newer revision of it.
Verdict(c, w, read) ==
  IF w \in read.held THEN "held"
  ELSE IF w \in read.newer \ (check[c].seen \union read.settled) THEN "superseded"
  ELSE IF w \in read.settled \/ (w \in check[c].seen /\ ~Redecided(c, w)) THEN "seen"
  ELSE check[c].shows[w]

Shown(c) == {w \in Works : check[c].shows[w] # "absent"}

\* Mutant: a work in its waiting period is recorded as seen, too.
ConclusiveTooSoon(c, works) == IF check[c].whole THEN Shown(c) ELSE {}

\* Only a full listing concludes anything.
Conclusive(c, works) == IF check[c].whole THEN works ELSE {}

\* The decision on what was read of the library, of the works it has a newer revision
\* of, of the reservations and of the open questions.
DecideOn(c, read) ==
  LET Judged(verdicts) == {w \in Shown(c) : Verdict(c, w, read) \in verdicts} IN
  /\ At(c, "decide")
  /\ check' = [check EXCEPT
       ![c].step = "act",
       ![c].asked = read.asked,
       ![c].todo = Judged({"accepted"}),
       ![c].marks = Conclusive(c, Shown(c) \ Judged({"soon"})),
       ![c].turned = Conclusive(c, {w \in Judged({"rejected"}) : ~Redecided(c, w)}),
       ![c].taken = Conclusive(c, {w \in Judged({"held", "accepted"}) : Redecided(c, w)}),
       ![c].seen = {}, ![c].again = {}]
  /\ handled' = handled \union Judged({"held", "superseded"})
  /\ UNCHANGED <<offer, library, queue, row, lists, snapshot, answers, claimed, user,
                 pruned, crossed, lost, removed>>

Decide(c, newer) ==
  /\ DecideOn(c, [held |-> library, newer |-> newer, settled |-> Settled, asked |-> Asked])
  /\ UNCHANGED bounds

\* Redis refuses some of the reads: they give nothing.
DecideUnread(c) ==
  /\ faults < MaxFaults /\ faults' = faults + 1
  /\ \E held \in {library, {}}, newer \in SUBSET Works,
        settled \in {Settled, {}}, asked \in {Asked, {}} :
       DecideOn(c, [held |-> held, newer |-> newer, settled |-> settled, asked |-> asked])
  /\ UNCHANGED <<requests, changes>>

\* What is left to do shrinks.
Acted(c, w) == check' = [check EXCEPT ![c].todo = @ \ {w}]
Missed(c, w) == check' = [check EXCEPT ![c].todo = @ \ {w}, ![c].missed = @ \union {w}]
Turned(c) == check' = [check EXCEPT ![c].turned = {}]
Taken(c) == check' = [check EXCEPT ![c].taken = {}]
Marked(c) == check' = [check EXCEPT ![c].marks = {}]
Done(c) == check[c].todo \union check[c].turned \union check[c].taken \union check[c].marks = {}

\* Not downloading by itself, the check asks the user, once.
Hold(c, w) ==
  /\ At(c, "act") /\ w \in check[c].todo /\ ~check[c].row.auto
  /\ Acted(c, w)
  /\ pending' = IF w \in check[c].asked THEN pending ELSE pending \union {<<w, c>>}
  /\ UNCHANGED <<offer, library, queue, row, lists, snapshot, waiting, discarded,
                 claimed, user, bounds, history>>

\* The work enters the download queue and is started there.
Queue(c, w) ==
  /\ At(c, "act") /\ w \in check[c].todo /\ check[c].row.auto
  /\ Acted(c, w)
  /\ queue' = queue \union {w} /\ handled' = handled \union {w}
  /\ UNCHANGED <<offer, library, row, lists, snapshot, answers, claimed, user, bounds,
                 pruned, crossed, lost, removed>>

\* No plugin downloads it, or the queue refused it: it is reserved.
Reserve(c, w) ==
  /\ At(c, "act") /\ w \in check[c].todo /\ check[c].row.auto
  /\ Acted(c, w)
  /\ waiting' = waiting \union {w}
  /\ UNCHANGED <<offer, library, queue, row, lists, snapshot, pending, discarded,
                 claimed, user, bounds, history>>

\* Everything was acted on: the rejected works are recorded, those that are no
\* longer rejected forgotten, and only then the works are seen.
MarkRejected(c) ==
  /\ At(c, "act") /\ check[c].todo = {} /\ check[c].turned # {}
  /\ rejected' = rejected \union check[c].turned /\ Turned(c)
  /\ UNCHANGED <<offer, library, queue, row, seen, snapshot, answers, claimed, user,
                 bounds, history>>

ForgetRejected(c) ==
  /\ At(c, "act") /\ check[c].todo \union check[c].turned = {} /\ check[c].taken # {}
  /\ rejected' = rejected \ check[c].taken /\ Taken(c)
  /\ lost' = lost \union (check[c].taken \intersect check[c].missed)
  /\ UNCHANGED <<offer, library, queue, row, seen, snapshot, answers, claimed, user,
                 bounds, handled, pruned, crossed, removed>>

MarkSeen(c) ==
  /\ At(c, "act") /\ check[c].todo \union check[c].turned \union check[c].taken = {}
  /\ check[c].marks # {}
  /\ seen' = seen \union check[c].marks /\ Marked(c)
  /\ lost' = lost \union (check[c].marks \intersect check[c].missed)
  /\ UNCHANGED <<offer, library, queue, row, rejected, snapshot, answers, claimed, user,
                 bounds, handled, pruned, crossed, removed>>

\* The listing is compared with the snapshot the last one left.
ReadSnapshot(c) ==
  /\ At(c, "act") /\ Done(c)
  /\ check' = [check EXCEPT ![c].step = "snapshot", ![c].prior = snapshot,
                             ![c].asked = {}, ![c].missed = {}]
  /\ UNCHANGED <<offer, library, queue, row, lists, snapshot, answers, claimed, user,
                 bounds, history>>

\* Mutant: a work that is gone goes on being counted.
AbsentForEver(c) ==
  {w \in Works \ Shown(c) : check[c].whole /\ check[c].prior[w] \in 0..MissingThreshold}

\* A full listing counts the works it misses; one that is missing for the
\* MissingThreshold-th time is gone from the source.
Absent(c) ==
  {w \in Works \ Shown(c) : check[c].whole /\ check[c].prior[w] \in 0..MissingThreshold - 1}

\* The works that are gone are to be withdrawn.
Compared(c) ==
  check' = [check EXCEPT ![c].step = "withdraw",
    ![c].shows = Unlisted, ![c].whole = FALSE, ![c].prior = Unknown,
    ![c].todo = {w \in Absent(c) : check[c].prior[w] + 1 = MissingThreshold}]

\* What was shown is no longer missing, what was missed is counted.
SaveSnapshot(c) ==
  /\ At(c, "snapshot")
  /\ snapshot' = [w \in Works |-> IF w \in Shown(c) THEN 0
                                  ELSE IF w \in Absent(c) THEN check[c].prior[w] + 1
                                  ELSE snapshot[w]]
  /\ Compared(c)
  /\ UNCHANGED <<offer, library, queue, row, lists, answers, claimed, user, bounds,
                 history>>

\* The questions about a work that is gone are withdrawn.
Withdraw(c, w) ==
  /\ At(c, "withdraw") /\ w \in check[c].todo
  /\ Acted(c, w)
  /\ pending' = {e \in pending : e[1] # w} /\ handled' = handled \union {w}
  /\ UNCHANGED <<offer, library, queue, row, lists, snapshot, waiting, discarded,
                 claimed, user, bounds, pruned, crossed, lost, removed>>

\* The record that was read at the beginning is stored whole.
Save(c) ==
  /\ At(c, "withdraw") /\ check[c].todo = {}
  /\ Goto(c, "prune") /\ row' = check[c].row
  /\ UNCHANGED <<offer, library, queue, lists, snapshot, answers, claimed, user, bounds,
                 history>>

\* A reservation list past its limit loses its oldest entries: whichever of these
\* are, as other subscriptions fill the list too.
Prune(c, gone) ==
  /\ At(c, "prune")
  /\ Over(c)
  /\ waiting' = waiting \ gone /\ discarded' = discarded \ gone
  /\ pruned' = pruned \union gone
  /\ UNCHANGED <<offer, library, queue, row, lists, snapshot, pending, claimed, user,
                 bounds, handled, crossed, lost, removed>>

\* Redis refuses a read or a write of a check: a refused read gives nothing, a
\* refused write is logged at most, and the check goes on, to record the work as
\* seen all the same.
RefusedRead(c) ==
  \/ At(c, "seen") /\ Goto(c, "rejected")
  \/ At(c, "rejected") /\ Goto(c, "decide")
  \/ At(c, "act") /\ Done(c) /\ Goto(c, "snapshot")
RefusedAct(c) ==
  /\ At(c, "act")
  /\ \E w \in check[c].todo : (check[c].row.auto \/ w \notin check[c].asked) /\ Missed(c, w)
RefusedMark(c) ==
  LET work == check[c] IN
  /\ At(c, "act") /\ work.todo = {}
  /\ \/ work.turned # {}
        /\ check' = [check EXCEPT ![c].turned = {}, ![c].missed = @ \union work.turned]
     \/ work.turned = {} /\ work.taken # {} /\ Taken(c)
     \/ work.turned \union work.taken = {} /\ work.marks # {} /\ Marked(c)
RefusedSave(c) ==
  \/ At(c, "snapshot") /\ Compared(c)
  \/ At(c, "withdraw") /\ \E w \in check[c].todo : Acted(c, w)
  \/ At(c, "withdraw") /\ check[c].todo = {} /\ Goto(c, "prune")
  \/ At(c, "prune") /\ Over(c)
Refused(c) ==
  /\ faults < MaxFaults /\ faults' = faults + 1
  /\ RefusedRead(c) \/ RefusedAct(c) \/ RefusedMark(c) \/ RefusedSave(c)
  /\ UNCHANGED <<offer, library, queue, row, lists, snapshot, answers, claimed, user,
                 requests, changes, history>>

-----------------------------------------------------------------------------
\* The user's requests.

\* Start a request whose handler has something left to do.
Request(u, step, works, entry, copy) ==
  /\ user[u].step = "idle" /\ requests < MaxRequests
  /\ requests' = requests + 1
  /\ user' = [user EXCEPT ![u] =
       [step |-> step, row |-> copy, works |-> works, entry |-> entry]]
UserAt(u, step) == user[u].step = step
UserGoto(u, step) == user' = [user EXCEPT ![u].step = step]
UserDone(u) == user' = [user EXCEPT ![u] = IdleUser]

\* "Check now": a check of its own, started without the claim.
CheckNow(c) ==
  /\ row.there /\ requests < MaxRequests
  /\ requests' = requests + 1
  /\ At(c, "idle") /\ Begin(c, FALSE)
  /\ UNCHANGED <<offer, library, queue, row, lists, snapshot, answers, claimed, user,
                 changes, faults, handled, pruned, lost, removed>>

\* Edit the settings (automatic or not), or enable, disable or resume: the record
\* is read ...
Edit(u) ==
  /\ row.there
  /\ \/ Request(u, "store", {}, Nothing, [row EXCEPT !.auto = ~@])
     \/ Request(u, "store", {}, Nothing, [row EXCEPT !.on = ~@])
  /\ UNCHANGED <<offer, library, queue, row, lists, snapshot, answers, claimed, check,
                 changes, faults, history>>

\* ... and stored whole.
StoreEdit(u) ==
  /\ UserAt(u, "store")
  /\ row' = user[u].row /\ UserDone(u)
  /\ UNCHANGED <<offer, library, queue, lists, snapshot, answers, claimed, check, bounds,
                 history>>

\* Delete the subscription and all that belongs to it but the reservations.
Remove ==
  /\ row.there /\ requests < MaxRequests
  /\ requests' = requests + 1
  /\ row' = NoRow /\ pending' = {} /\ snapshot' = Unknown /\ removed' = TRUE
  /\ seen' = {} /\ rejected' = {}
  /\ UNCHANGED <<offer, library, queue, waiting, discarded, claimed, check, user, changes,
                 faults, handled, pruned, crossed, lost>>

\* Approve a question: the work enters the queue ...
Approve(u, e) ==
  /\ row.there /\ e \in pending /\ Request(u, "queue", {}, e, NoRow)
  /\ UNCHANGED <<offer, library, queue, row, lists, snapshot, answers, claimed, check,
                 changes, faults, history>>
ApproveQueue(u) ==
  LET w == user[u].entry[1] IN
  /\ UserAt(u, "queue")
  /\ queue' = queue \union {w} /\ handled' = handled \union {w}
  /\ UserGoto(u, "drop")
  /\ UNCHANGED <<offer, library, row, lists, snapshot, answers, claimed, check, bounds,
                 pruned, crossed, lost, removed>>

\* ... and only then the question goes.
DropEntry(u) ==
  /\ UserAt(u, "drop")
  /\ pending' = pending \ {user[u].entry} /\ UserDone(u)
  /\ UNCHANGED <<offer, library, queue, row, lists, snapshot, waiting, discarded,
                 claimed, check, bounds, history>>

\* Dismiss a question: the work is seen, then the question goes.
Dismiss(u, e) ==
  /\ e \in pending /\ Request(u, "dismiss", {}, e, NoRow)
  /\ handled' = handled \union {e[1]}
  /\ UNCHANGED <<offer, library, queue, row, lists, snapshot, answers, claimed, check,
                 changes, faults, pruned, crossed, lost, removed>>
DismissMark(u) ==
  /\ UserAt(u, "dismiss")
  /\ seen' = seen \union {user[u].entry[1]} /\ UserGoto(u, "drop")
  /\ UNCHANGED <<offer, library, queue, row, rejected, snapshot, answers,
                 claimed, check, bounds, history>>

\* Redis refuses the mark: the question goes all the same.
DismissRefused(u) ==
  /\ UserAt(u, "dismiss") /\ faults < MaxFaults
  /\ faults' = faults + 1 /\ UserGoto(u, "drop")
  /\ UNCHANGED <<offer, library, queue, row, lists, snapshot, answers, claimed, check,
                 requests, changes, history>>

\* Block a work: seen, and no longer rejected.
Block(u, w) ==
  /\ row.there /\ Request(u, "block", {w}, Nothing, NoRow)
  /\ handled' = handled \union {w}
  /\ UNCHANGED <<offer, library, queue, row, lists, snapshot, answers, claimed, check,
                 changes, faults, pruned, crossed, lost, removed>>
BlockSeen(u) ==
  /\ UserAt(u, "block")
  /\ seen' = seen \union user[u].works /\ UserGoto(u, "unreject")
  /\ UNCHANGED <<offer, library, queue, row, rejected, snapshot, answers,
                 claimed, check, bounds, history>>
BlockUnreject(u) ==
  /\ UserAt(u, "unreject")
  /\ rejected' = rejected \ user[u].works /\ UserDone(u)
  /\ UNCHANGED <<offer, library, queue, row, seen, snapshot, answers, claimed,
                 check, bounds, history>>

\* Reconsider works, one or all: no longer seen, no longer rejected.
Forget(u, ws) ==
  /\ row.there /\ Request(u, "forget", ws, Nothing, NoRow)
  /\ crossed' = IF \E c \in Checks : Running(c) THEN crossed \union ws ELSE crossed
  /\ UNCHANGED <<offer, library, queue, row, lists, snapshot, answers, claimed, check,
                 changes, faults, handled, pruned, lost, removed>>
ForgetSeen(u) ==
  /\ UserAt(u, "forget")
  /\ seen' = seen \ user[u].works /\ UserGoto(u, "forgive")
  /\ UNCHANGED <<offer, library, queue, row, rejected, snapshot, answers,
                 claimed, check, bounds, history>>
ForgiveRejected(u) ==
  /\ UserAt(u, "forgive")
  /\ rejected' = rejected \ user[u].works /\ UserDone(u)
  /\ UNCHANGED <<offer, library, queue, row, seen, snapshot, answers, claimed,
                 check, bounds, history>>
\* Discard a reservation: it is kept, so that the work is not offered again.
Discard(w) ==
  /\ w \in waiting /\ requests < MaxRequests
  /\ requests' = requests + 1
  /\ waiting' = waiting \ {w} /\ discarded' = discarded \union {w}
  /\ UNCHANGED <<offer, library, queue, row, lists, snapshot, pending, claimed, check,
                 user, changes, faults, history>>

\* Delete an archive: what was seen stays seen.
DeleteArchive(w) ==
  /\ w \in library /\ requests < MaxRequests
  /\ requests' = requests + 1 /\ library' = library \ {w}
  /\ UNCHANGED <<offer, queue, row, lists, snapshot, answers, claimed, check, user,
                 changes, faults, history>>

\* The client goes away, and its handler with it; or Redis refuses what is left of it.
Disconnect(u) ==
  /\ user[u].step # "idle" /\ faults < MaxFaults
  /\ faults' = faults + 1 /\ UserDone(u)
  /\ UNCHANGED <<offer, library, queue, row, lists, snapshot, answers, claimed, check,
                 requests, changes, history>>

\* The process restarts: the checks, the requests and the claim are gone.
Crash ==
  /\ faults < MaxFaults /\ faults' = faults + 1
  /\ check' = [c \in Checks |-> IdleCheck] /\ user' = [u \in Users |-> IdleUser]
  /\ claimed' = FALSE
  /\ UNCHANGED <<offer, library, queue, row, lists, snapshot, answers, requests, changes,
                 history>>

-----------------------------------------------------------------------------
CheckStep(c) ==
  \/ Release(c) \/ Discover(c) \/ ReadSeen(c) \/ ReadRejected(c)
  \/ \E newer \in SUBSET Works : Decide(c, newer)
  \/ \E w \in Works : Hold(c, w) \/ Queue(c, w) \/ Reserve(c, w) \/ Withdraw(c, w)
  \/ MarkRejected(c) \/ ForgetRejected(c) \/ MarkSeen(c)
  \/ ReadSnapshot(c) \/ SaveSnapshot(c) \/ Save(c)
  \/ \E gone \in SUBSET Settled : Prune(c, gone)
CheckFault(c) ==
  \/ \E some \in SUBSET Works : DiscoverPart(c, some)
  \/ DiscoverFails(c) \/ DecideUnread(c) \/ Refused(c)
UserStep(u) ==
  \/ StoreEdit(u) \/ ApproveQueue(u) \/ DropEntry(u) \/ DismissMark(u)
  \/ BlockSeen(u) \/ BlockUnreject(u) \/ ForgetSeen(u) \/ ForgiveRejected(u)
UserRequest(u) ==
  \/ Edit(u)
  \/ \E e \in Works \X Checks : Approve(u, e) \/ Dismiss(u, e)
  \/ \E w \in Works : Block(u, w) \/ Forget(u, {w})
  \/ Forget(u, Works)
Environment ==
  \/ \E w \in Works, o \in Standings : SourceChanges(w, o)
  \/ \E w \in Works : Downloaded(w) \/ Discard(w) \/ DeleteArchive(w)
  \/ Remove \/ Crash

Next ==
  \/ \E c \in Checks : Tick(c) \/ CheckNow(c) \/ CheckStep(c) \/ CheckFault(c)
  \/ \E u \in Users : UserStep(u) \/ UserRequest(u) \/ DismissRefused(u) \/ Disconnect(u)
  \/ Environment

\* The clock, the scheduler and the checks go on: a check ends because the
\* plugin's calls have a time-out.
Fairness == WF_vars(\E c \in Checks : Tick(c) \/ CheckStep(c))

Spec == Init /\ [][Next]_vars /\ Fairness

-----------------------------------------------------------------------------
\* Where the user, or a download, can still meet the work w.
Accounted(w) == w \in handled \union Asked \union Settled \union pruned

\* A work a check will not look at again (seen, and not in the rejected set,
\* runner.rs:161-162) was queued, held, superseded, withdrawn, answered by the
\* user, or is a question or a reservation: whatever checks overlap, and wherever a
\* crash, a bad listing or a refused call of Redis comes in. Excused: the reservations
\* past the limit, a request to reconsider that met a running check, and the works
\* that one check recorded as settled (runner.rs:780-793) after Redis had refused it
\* the question, the reservation or the rejection of the work (653, 678, 763, 773).
NothingSlipsAway ==
  ~removed => \A w \in seen \ rejected : Accounted(w) \/ w \in crossed \union lost

\* Why it holds. What a check has read or is about to record is accounted for,
\* or will be by what the check still does before it records it.
Covered == handled \union Asked \union Settled \union pruned \union crossed \union lost
Safe == Covered \union rejected
CheckKnows(c) ==
  /\ check[c].asked \subseteq Covered
  /\ check[c].seen \subseteq Safe
  /\ check[c].marks \subseteq
       Safe \union check[c].turned \union check[c].todo \union check[c].missed
  /\ check[c].taken \subseteq Covered \union check[c].todo \union check[c].missed

\* A check that works on something runs, and looks at the snapshot when it has
\* recorded what it saw.
Recorded(c) == check[c].step \in {"snapshot", "withdraw"} =>
                 check[c].marks = {} /\ check[c].taken = {}
ChecksRun ==
  \A c \in Checks : /\ ~Running(c) => check[c].seen = {} /\ check[c].marks = {}
                    /\ Recorded(c)

\* An answer in progress is about a question.
AnswersName ==
  \A u \in Users :
    user[u].step \in {"queue", "dismiss", "drop"} => user[u].entry \in Works \X Checks

\* What the user has answered is handled, and what is being forgotten under a
\* running check is crossed, or else no longer seen.
UserKnows(u) ==
  /\ user[u].step \in {"dismiss", "drop"} => user[u].entry[1] \in handled
  /\ user[u].step \in {"block", "unreject"} => user[u].works \subseteq handled
  /\ user[u].step = "forgive" => user[u].works \intersect seen \subseteq Covered
ForgottenCross == (\E c \in Checks : Running(c)) => BeingForgotten \subseteq crossed

IndInv ==
  /\ TypeOK /\ AnswersName /\ ChecksRun /\ ForgottenCross
  /\ ~removed => /\ seen \subseteq Safe
                 /\ \A c \in Checks : CheckKnows(c)
                 /\ \A u \in Users : UserKnows(u)

\* A work that the rules accept is offered sooner or later if the subscription
\* stays on, also one that a rule had turned away before (storage/subscriptions.rs:
\* 782-787): a crash, a bad listing or a refused call only delays it, unless the
\* refused call is the question, the reservation or the rejection of the work and the
\* same check goes on to record it as settled.
MatchesAreOffered ==
  \A w \in Works :
    (offer[w] = "accepted") ~>
      (Accounted(w) \/ w \in crossed \union lost \/ offer[w] # "accepted" \/ ~row.on \/ removed)
=============================================================================
