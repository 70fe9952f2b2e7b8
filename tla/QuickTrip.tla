----------------------------- MODULE QuickTrip -----------------------------
(***************************************************************************)
(* The quick trip of osp-quicktrip.js: a trip confirmed on the dashboard   *)
(* is posted at once; when that fails it goes to a queue in localStorage   *)
(* and is posted again by flushQueue, on every page load, when the browser *)
(* comes back online, and after every trip that was saved.                 *)
(*                                                                         *)
(* localStorage is shared by the tabs of the browser.  Every await on a    *)
(* request lets all other handlers run, of this tab and of the others.     *)
(* The order of the queue is left open: flushQueue may post it in any.     *)
(***************************************************************************)
EXTENDS Naturals, FiniteSets

CONSTANTS
  Trips,        \* quick trips, known by their localId
  Tabs,         \* tabs of the browser
  Flushes,      \* runs of flushQueue that a page load or 'online' starts
  None,
  Legacy,       \* the queues an older version may have left, under either key
  Troubles,     \* the sets of what may happen in a run besides failing requests
  MaxFailures   \* bound: how many requests fail and flushes are cut short

VARIABLES
  stored,       \* localStorage: QUEUE_KEY, INTERMEDIATE_QUEUE_KEY, LEGACY_QUEUE_KEY
  rows,         \* rows[t]: how many rows of the table trips are trip t
  confirmed,    \* the trips confirmed so far
  undone,       \* those the user has undone
  open,         \* the tabs with the page loaded
  toasts,       \* toasts[w]: the trips with an undo button in tab w
  pending,      \* pending[w]: PENDING_UNDO_ID of tab w
  run,          \* run[p]: a handler waiting for a request, or not running
  failures,     \* counts for MaxFailures
  forgotten,    \* forgotten[t]: how often t was saved and the queue did not learn it
  troubles      \* what may happen in this run

vars == <<stored, rows, confirmed, undone, open, toasts, pending, run, failures, forgotten,
          troubles>>
counts == <<failures, forgotten>>
page == <<confirmed, undone, open, toasts, pending, troubles>>

(* A confirmation runs under the name of its trip.                         *)
Runs == Trips \cup Flushes

AllTroubles ==
  {"overlap", "leaves flush", "leaves trip", "lost answer", "service worker",
   "session expires", "two old queues"}

(* Those in which the page lets go of a trip that is not on the server, so *)
(* that a run with one of them says nothing of what is kept.               *)
Lossy == {"leaves trip", "service worker", "session expires", "two old queues"}

ASSUME QuickTripAssumption ==
  /\ Trips \cap Flushes = {} /\ None \notin Runs \cup Tabs
  /\ \A q \in SUBSET Trips : q # None
  /\ Legacy \subseteq ({None} \cup SUBSET Trips)
  /\ Troubles \subseteq SUBSET AllTroubles
  /\ MaxFailures \in Nat

Run == [pc : {"idle", "confirm", "flush"}, tab : Tabs \cup {None},
        item : Trips \cup {None}, todo : SUBSET Trips, remaining : SUBSET Trips,
        post : {"none", "sent", "saved", "refused", "login"}]

Idle == [pc |-> "idle", tab |-> None, item |-> None, todo |-> {}, remaining |-> {},
         post |-> "none"]

Contents(q) == IF q = None THEN {} ELSE q

(* loadQueue, and migrateLegacyQueue: the intermediate key is preferred to *)
(* the legacy key as soon as it exists; both are removed after a migration. *)
Queue == Contents(stored.v2)

Old == Contents(IF stored.mid # None THEN stored.mid ELSE stored.v1)

Migrated ==
  IF stored.v2 # None \/ Old = {} THEN stored
                                  ELSE [v2 |-> Old, mid |-> None, v1 |-> None]

Quiet == "overlap" \notin troubles => \A p \in Runs : run[p].pc = "idle"

Fail == failures < MaxFailures /\ failures' = failures + 1

(* flushQueue up to its first post: offline or with an empty queue it does  *)
(* nothing; being offline counts as a failure.                             *)
Flushing(w, queue) ==
  IF queue = {} THEN Idle ELSE [Idle EXCEPT !.pc = "flush", !.tab = w, !.todo = queue]

-----------------------------------------------------------------------------
(* The request.  What the server does with it, and what fetch returns.     *)

Serve(p, outcome) ==
  /\ run[p].post = "sent"
  /\ run' = [run EXCEPT ![p].post = outcome]
  /\ UNCHANGED <<stored, page>>

ServerSaves(p) ==
  /\ Serve(p, "saved")
  /\ rows' = [rows EXCEPT ![run[p].item] = @ + 1]
  /\ UNCHANGED counts

(* CSRF, validation, rate limit, database: an error status with a message. *)
ServerRefuses(p) == Serve(p, "refused") /\ Fail /\ UNCHANGED <<rows, forgotten>>

(* The row is committed, but the reply to the commit is lost, or            *)
(* AuditService.log raises after it: the answer is an error all the same.  *)
ServerFailsLate(p) ==
  /\ Serve(p, "refused") /\ Fail
  /\ rows' = [rows EXCEPT ![run[p].item] = @ + 1]
  /\ forgotten' = [forgotten EXCEPT ![run[p].item] = @ + 1]

(* An expired session is redirected to the login page, which is fetched    *)
(* with status 200.                                                        *)
ServerRedirects(p) ==
  "session expires" \in troubles /\ Serve(p, "login") /\ UNCHANGED <<rows, counts>>

(* slip: the status is not looked at *)
Returns_AnyStatus(p) == run[p].post \in {"saved", "login", "refused"}

(* postQuickTrip returns: response.ok, and a body that is no JSON counts   *)
(* as {}.  sw.js answers any request that fails with the cached '/'.        *)
Returns(p) ==
  \/ run[p].post \in {"saved", "login"}
  \/ "service worker" \in troubles /\ run[p].post = "sent"

(* postQuickTrip throws: refused, or the network failed on the way there,   *)
(* or on the way back, or after 15 seconds without an answer.               *)
Throws(p) ==
  \/ run[p].post = "refused" /\ UNCHANGED counts
  \/ run[p].post = "sent" /\ Fail /\ UNCHANGED forgotten
  \/ /\ "lost answer" \in troubles /\ run[p].post = "saved" /\ Fail
     /\ forgotten' = [forgotten EXCEPT ![run[p].item] = @ + 1]

-----------------------------------------------------------------------------
(* handleQuickTripConfirm. *)

Confirm(t, w) ==
  /\ t \notin confirmed /\ w \in open /\ Quiet
  /\ run' = [run EXCEPT ![t] = [Idle EXCEPT !.pc = "confirm", !.tab = w, !.item = t,
                                            !.post = "sent"]]
  /\ confirmed' = confirmed \cup {t}
  /\ toasts' = [toasts EXCEPT ![w] = @ \cup {t}]
  /\ pending' = [pending EXCEPT ![w] = t]
  /\ UNCHANGED <<stored, rows, undone, open, counts, troubles>>

(* 'Szybki wyjazd zapisany.', then flushQueue. *)
ConfirmSaved(t) ==
  /\ run[t].pc = "confirm" /\ Returns(t)
  /\ \/ run' = [run EXCEPT ![t] = Flushing(run[t].tab, Queue)] /\ UNCHANGED failures
     \/ run' = [run EXCEPT ![t] = Idle] /\ Fail
  /\ UNCHANGED <<stored, rows, page, forgotten>>

(* slip: what another handler has queued meanwhile is not read again *)
ConfirmFails_Overwrites(t) ==
  /\ run[t].pc = "confirm" /\ Throws(t)
  /\ stored' = [stored EXCEPT !.v2 = {t}]
  /\ run' = [run EXCEPT ![t] = Idle]
  /\ UNCHANGED <<rows, page>>

(* queueForRetry; 'zapisano do kolejki offline'. *)
ConfirmFails(t) ==
  /\ run[t].pc = "confirm" /\ Throws(t)
  /\ stored' = [stored EXCEPT !.v2 = Queue \cup {t}]
  /\ run' = [run EXCEPT ![t] = Idle]
  /\ UNCHANGED <<rows, page>>

(* The button of the toast; and the 7 seconds after which it goes.          *)
Undo(t, w) ==
  /\ t \in toasts[w]
  /\ stored' = [stored EXCEPT !.v2 = Queue \ {t}]
  /\ undone' = undone \cup {t}
  /\ toasts' = [toasts EXCEPT ![w] = @ \ {t}]
  /\ pending' = [pending EXCEPT ![w] = None]
  /\ UNCHANGED <<rows, confirmed, open, run, counts, troubles>>

UndoExpires(t, w) ==
  /\ t \in toasts[w]
  /\ toasts' = [toasts EXCEPT ![w] = @ \ {t}]
  /\ pending' = [pending EXCEPT ![w] = IF @ = t THEN None ELSE @]
  /\ UNCHANGED <<stored, rows, confirmed, undone, open, run, counts, troubles>>

-----------------------------------------------------------------------------
(* flushQueue. *)

FlushHolds(p) ==
  /\ run[p].pc = "flush" /\ run[p].item = None
  /\ \E t \in run[p].todo :
       /\ pending[run[p].tab] = t
       /\ run' = [run EXCEPT ![p].todo = @ \ {t}, ![p].remaining = @ \cup {t}]
  /\ UNCHANGED <<stored, rows, page, counts>>

FlushPosts(p) ==
  /\ run[p].pc = "flush" /\ run[p].item = None
  /\ \E t \in run[p].todo :
       /\ pending[run[p].tab] # t
       /\ run' = [run EXCEPT ![p].item = t, ![p].post = "sent"]
  /\ UNCHANGED <<stored, rows, page, counts>>

(* slip: the trip stays in the queue although it was saved *)
FlushSaved_Kept(p) ==
  /\ run[p].pc = "flush" /\ Returns(p)
  /\ run' = [run EXCEPT ![p].todo = @ \ {run[p].item},
                        ![p].remaining = @ \cup {run[p].item},
                        ![p].item = None, ![p].post = "none"]
  /\ UNCHANGED <<stored, rows, page, counts>>

FlushSaved(p) ==
  /\ run[p].pc = "flush" /\ Returns(p)
  /\ run' = [run EXCEPT ![p].todo = @ \ {run[p].item},
                        ![p].item = None, ![p].post = "none"]
  /\ UNCHANGED <<stored, rows, page, counts>>

(* slip: a trip that could not be posted is dropped *)
FlushFails_Dropped(p) ==
  /\ run[p].pc = "flush" /\ Throws(p)
  /\ run' = [run EXCEPT ![p].todo = @ \ {run[p].item},
                        ![p].item = None, ![p].post = "none"]
  /\ UNCHANGED <<stored, rows, page>>

(* slip: the request is not forgotten *)
FlushFails_NoReset(p) ==
  /\ run[p].pc = "flush" /\ Throws(p)
  /\ run' = [run EXCEPT ![p].todo = @ \ {run[p].item},
                        ![p].remaining = @ \cup {run[p].item},
                        ![p].item = None]
  /\ UNCHANGED <<stored, rows, page>>

FlushFails(p) ==
  /\ run[p].pc = "flush" /\ Throws(p)
  /\ run' = [run EXCEPT ![p].todo = @ \ {run[p].item},
                        ![p].remaining = @ \cup {run[p].item},
                        ![p].item = None, ![p].post = "none"]
  /\ UNCHANGED <<stored, rows, page>>

(* The queue becomes what is left of the one that was read at the start.    *)
FlushEnds(p) ==
  /\ run[p].pc = "flush" /\ run[p].item = None /\ run[p].todo = {}
  /\ stored' = [stored EXCEPT !.v2 = run[p].remaining]
  /\ run' = [run EXCEPT ![p] = Idle]
  /\ UNCHANGED <<rows, page, counts>>

-----------------------------------------------------------------------------
(* What starts it: 'online', and bootstrapQuickTrip. *)

Online(p, w) ==
  /\ run[p].pc = "idle" /\ w \in open /\ Quiet
  /\ run' = [run EXCEPT ![p] = Flushing(w, Queue)]
  /\ UNCHANGED <<stored, rows, page, counts>>

(* Posts that have been answered, or saved, but are not yet out of the queue. *)
Unwritten(q) ==
  {t \in Trips : \/ run[q].item = t /\ run[q].post = "saved"
                 \/ run[q].pc = "flush" /\ t \in Queue \ (run[q].todo \cup run[q].remaining)}

(* A page load ends what ran in the tab, if the user leaves before it has   *)
(* ended; the requests under way may have reached the server before.        *)
PageLoad(p, w) ==
  LET ended == {q \in Runs : run[q].tab = w}
      cut   == \E q \in ended : run[q].pc # "idle"
      Stop(q) == IF q \in ended THEN Idle ELSE run[q]
  IN
  /\ run[p].pc = "idle"
  /\ \A q \in ended : /\ run[q].pc = "confirm" => "leaves trip" \in troubles
                      /\ run[q].pc = "flush" => "leaves flush" \in troubles
  /\ "overlap" \notin troubles => \A q \in Runs \ ended : run[q].pc = "idle"
  /\ stored' = Migrated
  /\ \/ /\ run' = [q \in Runs |-> IF q = p THEN Flushing(w, Contents(Migrated.v2))
                                            ELSE Stop(q)]
        /\ IF cut THEN Fail ELSE UNCHANGED failures
     \/ /\ run' = [q \in Runs |-> Stop(q)]
        /\ Fail
  /\ forgotten' = [t \in Trips |->
       forgotten[t] + Cardinality({q \in ended : t \in Unwritten(q)})]
  /\ open' = open \cup {w}
  /\ toasts' = [toasts EXCEPT ![w] = {}]
  /\ pending' = [pending EXCEPT ![w] = None]
  /\ UNCHANGED <<rows, confirmed, undone, troubles>>

Init ==
  /\ troubles \in Troubles
  /\ stored \in [v2 : {None}, mid : Legacy, v1 : Legacy]
  /\ Contents(stored.mid) \cap Contents(stored.v1) = {}
  /\ "two old queues" \notin troubles => None \in {stored.mid, stored.v1}
  /\ rows = [t \in Trips |-> 0]
  /\ confirmed = Contents(stored.mid) \cup Contents(stored.v1)
  /\ undone = {} /\ open = {}
  /\ toasts = [w \in Tabs |-> {}]
  /\ pending = [w \in Tabs |-> None]
  /\ run = [p \in Runs |-> Idle]
  /\ failures = 0
  /\ forgotten = [t \in Trips |-> 0]

Request(p) == ServerSaves(p) \/ ServerRefuses(p) \/ ServerFailsLate(p) \/ ServerRedirects(p)
Flush(p)   == FlushHolds(p) \/ FlushPosts(p) \/ FlushSaved(p) \/ FlushFails(p) \/ FlushEnds(p)

Next ==
  \/ \E p \in Runs : Request(p) \/ Flush(p)
  \/ \E t \in Trips : ConfirmSaved(t) \/ ConfirmFails(t)
  \/ \E t \in Trips, w \in Tabs : Confirm(t, w) \/ Undo(t, w) \/ UndoExpires(t, w)
  \/ \E p \in Flushes, w \in Tabs : Online(p, w) \/ PageLoad(p, w)

(* The event loop runs what is ready, the server answers what reaches it,   *)
(* and the user comes back to the page.                                    *)
Fairness ==
  /\ \A p \in Runs : WF_vars(Request(p)) /\ WF_vars(Flush(p))
  /\ \A t \in Trips : WF_vars(ConfirmSaved(t) \/ ConfirmFails(t))
  /\ \A t \in Trips, w \in Tabs : WF_vars(UndoExpires(t, w))
  /\ WF_vars(\E p \in Flushes, w \in Tabs : PageLoad(p, w))

Spec == Init /\ [][Next]_vars
LiveSpec == Spec /\ Fairness
-----------------------------------------------------------------------------
(* Every variable has its type; an undo button belongs to a confirmed trip, *)
(* and a request to the run that waits for it.                             *)
TypeOK ==
  /\ stored \in [v2 : {None} \cup SUBSET Trips, mid : {None} \cup SUBSET Trips,
                 v1 : {None} \cup SUBSET Trips]
  /\ rows \in [Trips -> Nat]
  /\ confirmed \in SUBSET Trips /\ undone \in SUBSET confirmed /\ open \in SUBSET Tabs
  /\ toasts \in [Tabs -> SUBSET confirmed]
  /\ pending \in [Tabs -> Trips \cup {None}]
  /\ run \in [Runs -> Run] /\ \A p \in Runs : run[p].item = None <=> run[p].post = "none"
  /\ failures \in 0..MaxFailures
  /\ forgotten \in [Trips -> Nat]
  /\ troubles \in Troubles

(* "Zapisano do kolejki offline": a confirmed trip that was not undone is   *)
(* on the server, or in a queue, or its first request is under way; a flush *)
(* that fails, or that a page load cuts short, does not lose it, and what a *)
(* page takes for saved, and stops posting, is saved.                       *)
KeptUntilSaved ==
  troubles \cap Lossy = {} => \A t \in confirmed \ undone :
    \/ rows[t] > 0
    \/ t \in Queue \cup Contents(stored.mid) \cup Contents(stored.v1)
    \/ run[t].pc = "confirm"

(* However often a trip is posted, by its confirmation and by the flushes   *)
(* that follow, every row of it beyond the first has been paid for by an    *)
(* answer that was lost, an error after the commit (api.py:106), or a flush *)
(* that was cut short before it could save the queue.                      *)
SavedOnce == \A t \in Trips : rows[t] <= 1 + forgotten[t]

(* Once requests cease to fail, every confirmed trip is saved, unless the   *)
(* user undoes it.                                                         *)
EventuallySaved ==
  troubles \cap Lossy = {} => \A t \in Trips :
    t \in confirmed ~> (rows[t] > 0 \/ t \in undone)
=============================================================================
