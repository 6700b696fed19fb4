------------------------------ MODULE GithubCycle ------------------------------
(***************************************************************************)
(* review_github.py: ask the review bot of a pull request for a review, or  *)
(* find the request that is already there, and poll until it is answered.   *)
(*                                                                          *)
(* Nothing is stored: every decision is taken from what GitHub shows, read  *)
(* call by call, while the bot works, other callers post requests and the   *)
(* head of the pull request moves.                                          *)
(***************************************************************************)
EXTENDS Naturals, Sequences, FiniteSets

CONSTANTS
    MaxHead,        \* bound: commits the pull request has had as its head
    MaxThread,      \* bound: comments and reviews on the pull request
    MaxAnswers,     \* bound: the bot's
    MaxOthers,      \* bound: requests by other callers
    MaxTime,        \* bound: ticks; a tick is 20 s or more
    MaxRuns,        \* bound: invocations, one after the other
    Answering,      \* bound: <<kind, names its commit>> the bot answers with
    PageSize,       \* comments GitHub returns; later ones are never seen
    Timeout,        \* DEFAULT_TIMEOUT_MINUTES
    ReRequestAfter, \* DEFAULT_RE_REQUEST_AFTER_SECONDS
    MaxAttempts,    \* DEFAULT_MAX_REQUEST_ATTEMPTS
    Settle          \* DEFAULT_SETTLE_SECONDS, EXISTING_RESPONSE_SETTLE_SECONDS

ASSUME GithubAssumption ==
    /\ {MaxThread, MaxAnswers, MaxOthers, MaxTime, MaxRuns, Timeout,
        ReRequestAfter, Settle} \subseteq Nat
    /\ Answering \subseteq {"issue_comment", "review_comment", "review"} \X BOOLEAN
    /\ {MaxHead, PageSize, MaxAttempts} \subseteq Nat \ {0}

VARIABLES
    now,     \* the clock of GitHub and of the caller
    head,    \* the head of the pull request
    pushed,  \* pushed[h]: when h became the head
    dated,   \* dated[h]: the committer date of h
    thread,  \* requests and answers, oldest first
    run,     \* the invocation
    report,  \* what the last invocation returned
    runs     \* invocations started

vars == <<now, head, pushed, dated, thread, run, report, runs>>

--------------------------------------------------------------------------------
(* The thread of the pull request.                                          *)

Heads == 1..MaxHead
Times == 0..MaxTime
AnswerKinds == {"issue_comment", "review_comment", "review"}

\* about: the commit the bot looked at.  commit: the commit an answer names, 0
\* when it names none.
Comment == [kind: {"request"} \union AnswerKinds, at: Times, eyes: BOOLEAN,
            plus: BOOLEAN, about: 0..MaxHead, commit: 0..MaxHead]

Request == [kind |-> "request", at |-> now, eyes |-> FALSE,
                plus |-> FALSE, about |-> 0, commit |-> 0]

\* get_issue_comments, get_reviews, get_review_comments: one page of each.
Page(kinds) ==
    {i \in DOMAIN thread : thread[i].kind \in kinds
        /\ Cardinality({j \in 1..i : thread[j].kind \in kinds}) <= PageSize}

Requests == {i \in Page({"request", "issue_comment"}) : thread[i].kind = "request"}

Answers ==
    (Page({"request", "issue_comment"}) \ Requests)
        \union Page({"review"}) \union Page({"review_comment"})

At(i) == thread[i].at
LastAt(items) == CHOOSE t \in {At(i) : i \in items} : \A i \in items : At(i) <= t

\* The newest request; among requests of one second the code takes the first.
Newest(reqs) ==
    CHOOSE r \in reqs : \A q \in reqs : At(q) < At(r) \/ (At(q) = At(r) /\ r <= q)

\* mutant: whatever commit they name
AnyAnswerSince(t, h) == {i \in Answers : At(i) >= t}

\* emit_new_items: the bot's answers since a request, except those that name
\* another commit.
AnswersSince(t, h) == {i \in Answers : At(i) >= t /\ thread[i].commit \in {0, h}}

\* cycle_coverage_timestamp: inline comments count when they name the head; a
\* shortened commit in a comment's text is no explicit match.
Coverage(items, h) ==
    LET explicit == {i \in items : thread[i].commit = h /\ thread[i].kind # "issue_comment"}
        topLevel == {i \in items : thread[i].kind # "review_comment"}
    IN  LastAt(IF explicit \union topLevel # {} THEN explicit \union topLevel ELSE items)

\* mutant: an answer of the same second counts as older
HeadIsAsNew(h, t) == dated[h] >= t

HeadIsNewer(h, t) == dated[h] > t

\* An answer the bot may still be writing: eyes, no inline comment, just posted.
StillWriting(r, items) ==
    /\ thread[r].eyes
    /\ \A i \in items : thread[i].kind # "review_comment"
    /\ now - LastAt(items) < Settle

\* inspect_existing_cycle, given the newest request and the answers to it.
Existing(r, items, h) ==
    IF r = 0 THEN "none"
    ELSE IF items # {} THEN
        CASE HeadIsNewer(h, Coverage(items, h)) -> "none"
          [] ~HeadIsNewer(h, Coverage(items, h)) /\ StillWriting(r, items) -> "eyes"
          [] OTHER -> "response"
    ELSE CASE HeadIsNewer(h, At(r)) -> "none"
           [] ~HeadIsNewer(h, At(r)) /\ thread[r].eyes -> "eyes"
           [] ~HeadIsNewer(h, At(r)) /\ ~thread[r].eyes /\ thread[r].plus -> "acknowledged"
           [] OTHER -> "active"

--------------------------------------------------------------------------------
(* An invocation.                                                           *)

\* request: the request it waits on; found, items: what an inspection has read;
\* got: the answers collected, the last of them at lastNew.
Run == [pc: {"idle", "inspect", "reactions", "post", "posted", "poll", "collect",
             "plus"},
        force: BOOLEAN, first: 0..MaxHead, head: 0..MaxHead, until: Nat,
        polledAt: Times, request: 0..MaxThread, found: 0..MaxThread,
        items: SUBSET (1..MaxThread), got: SUBSET (1..MaxThread), lastNew: Times,
        attempts: 0..MaxAttempts, eyes: BOOLEAN, looping: BOOLEAN]

Idle == [pc |-> "idle", force |-> FALSE, first |-> 0, head |-> 0, until |-> 0,
         polledAt |-> 0, request |-> 0, found |-> 0, items |-> {}, got |-> {},
         lastNew |-> 0, attempts |-> 0, eyes |-> FALSE, looping |-> FALSE]

Statuses == {"none", "existing_completed_cycle", "response_found",
             "acknowledged_without_body", "timeout", "error"}

Report == [status: Statuses, first: 0..MaxHead, head: 0..MaxHead,
           request: 0..MaxThread, items: SUBSET (1..MaxThread)]

NoReport == [status |-> "none", first |-> 0, head |-> 0, request |-> 0,
             items |-> {}]

End(status, h, r, items) ==
    /\ report' = [status |-> status, first |-> run.first, head |-> h,
                  request |-> r, items |-> items]
    /\ run' = Idle

world == <<now, head, pushed, dated, thread>>

\* The top of the loop, where what the last turn read is forgotten.
ToPoll(r) == [r EXCEPT !.pc = "poll", !.head = 0, !.polledAt = 0]

Start(force) ==
    /\ run.pc = "idle" /\ runs < MaxRuns /\ now + Timeout <= MaxTime
    /\ runs' = runs + 1
    /\ run' = [Idle EXCEPT !.pc = "inspect", !.force = force, !.first = head,
                           !.head = head, !.until = now + Timeout]
    /\ report' = NoReport
    /\ UNCHANGED world

\* The request comments and the answers to the newest one are read first...
InspectThread ==
    /\ run.pc = "inspect"
    /\ LET r == IF Requests = {} THEN 0 ELSE Newest(Requests) IN
        run' = [run EXCEPT !.pc = "reactions", !.found = r,
            !.items = IF r = 0 THEN {} ELSE AnswersSince(At(r), run.head)]
    /\ UNCHANGED <<world, report, runs>>

Inspected == Existing(run.found, run.items, run.head)
Adopt == [run EXCEPT !.request = run.found, !.found = 0, !.items = {}]

\* ... the reactions to that request afterwards.
InspectWorking ==
    /\ run.pc = "reactions" /\ Inspected = "eyes"
    /\ run' = [ToPoll(Adopt) EXCEPT !.eyes = TRUE]
    /\ UNCHANGED <<world, report, runs>>

\* A request that nobody looks at is waited for at first, repeated later.
InspectActive ==
    /\ run.pc = "reactions" /\ Inspected = "active"
    /\ run' = IF run.looping THEN [Adopt EXCEPT !.pc = "post"] ELSE ToPoll(Adopt)
    /\ UNCHANGED <<world, report, runs>>

InspectAnswered ==
    /\ run.pc = "reactions" /\ Inspected = "response"
    /\ IF run.force THEN run' = [Adopt EXCEPT !.pc = "post"] /\ report' = report
       ELSE End("existing_completed_cycle", run.head, run.found, run.items)
    /\ UNCHANGED <<world, runs>>

InspectAcknowledged ==
    /\ run.pc = "reactions" /\ Inspected = "acknowledged"
    /\ End("existing_completed_cycle", run.head, run.found, {})
    /\ UNCHANGED <<world, runs>>

InspectNothing ==
    /\ run.pc = "reactions" /\ Inspected = "none"
    /\ run' = [run EXCEPT !.pc = "post", !.found = 0, !.items = {}]
    /\ UNCHANGED <<world, report, runs>>

PostRequest ==
    /\ run.pc = "post"
    /\ Len(thread) < MaxThread
    /\ thread' = Append(thread, Request)
    /\ run' = [run EXCEPT !.pc = "posted", !.attempts = @ + 1, !.polledAt = now]
    /\ UNCHANGED <<now, head, pushed, dated, report, runs>>

\* The newest request that is not older than the post is taken for it, whoever
\* posted it; a request beyond the first page is not found.
Posted == {i \in Requests : At(i) >= run.polledAt}

ResolveRequest ==
    /\ run.pc = "posted" /\ Posted # {}
    /\ run' = [ToPoll(run) EXCEPT
            !.request = CHOOSE i \in Posted : \A j \in Posted : At(j) <= At(i)
                            /\ (At(j) = At(i) => j <= i)]
    /\ UNCHANGED <<world, report, runs>>

RequestNotFound ==
    /\ run.pc = "posted" /\ Posted = {}
    /\ End("error", 0, 0, {})
    /\ UNCHANGED <<world, runs>>

\* One turn of the loop: the head and the eyes, then the answers, then the +1.
Poll ==
    /\ run.pc = "poll" /\ now < run.until
    /\ run' = [run EXCEPT !.pc = "collect", !.polledAt = now, !.head = head,
                          !.eyes = @ \/ thread[run.request].eyes]
    /\ UNCHANGED <<world, report, runs>>

TimeOut ==
    /\ run.pc = "poll" /\ now >= run.until
    /\ End("timeout", head, run.request, {})
    /\ UNCHANGED <<world, runs>>

New == AnswersSince(At(run.request), run.head) \ run.got
Collected == run.got \union New
Settled == Collected # {} /\ New = {} /\ now - run.lastNew >= Settle

Collect ==
    /\ run.pc = "collect" /\ ~Settled
    /\ run' = [run EXCEPT !.pc = "plus", !.got = Collected,
                          !.lastNew = IF New # {} THEN now ELSE @]
    /\ UNCHANGED <<world, report, runs>>

ResponseFound ==
    /\ run.pc = "collect" /\ Settled
    /\ End("response_found", run.head, run.request, Collected)
    /\ UNCHANGED <<world, runs>>

Thumbs == run.got = {} /\ thread[run.request].plus

Acknowledged ==
    /\ run.pc = "plus" /\ Thumbs
    /\ End("acknowledged_without_body", run.head, run.request, {})
    /\ UNCHANGED <<world, runs>>

\* mutants: neither the pause nor the number of requests counts; nor do the eyes
OverdueAtOnce == ~run.eyes
OverdueWithEyes ==
    /\ run.attempts < MaxAttempts
    /\ run.polledAt >= At(run.request) + ReRequestAfter

\* No eyes for a while: look again, and perhaps ask again.
PickupOverdue ==
    /\ ~run.eyes /\ run.attempts < MaxAttempts
    /\ run.polledAt >= At(run.request) + ReRequestAfter

LookAgain ==
    /\ run.pc = "plus" /\ ~Thumbs /\ PickupOverdue
    /\ run' = [run EXCEPT !.pc = "inspect", !.looping = TRUE]
    /\ UNCHANGED <<world, report, runs>>

Sleep ==
    /\ run.pc = "plus" /\ ~Thumbs /\ ~PickupOverdue
    /\ run' = ToPoll(run)
    /\ UNCHANGED <<world, report, runs>>

\* A gh call that fails ends the invocation.  It matters at the post, which may
\* have been made or not; elsewhere a failure leaves nothing behind.
GhFails ==
    /\ run.pc \in {"post", "posted"}
    /\ End("error", 0, 0, {})
    /\ UNCHANGED <<world, runs>>

--------------------------------------------------------------------------------
(* The bot, other callers, the author of the branch, and time.  Bound: they  *)
(* stop when the last invocation has ended.                                  *)

Watched == run.pc # "idle" \/ runs < MaxRuns

Room == Len(thread) < MaxThread
Count(kinds) == Cardinality({i \in DOMAIN thread : thread[i].kind \in kinds})

PickUp(r) ==
    /\ thread[r].kind = "request" /\ thread[r].about = 0
    /\ thread' = [thread EXCEPT ![r].eyes = TRUE, ![r].about = head]
    /\ UNCHANGED <<now, head, pushed, dated, run, report, runs>>

\* Reviews and inline comments carry their commit; the text of a comment may.
Answer(r, kind, named) ==
    /\ thread[r].kind = "request" /\ thread[r].eyes
    /\ Room /\ Count(AnswerKinds) < MaxAnswers
    /\ thread' = Append(thread, [Request EXCEPT !.kind = kind,
            !.about = thread[r].about,
            !.commit = IF named THEN thread[r].about ELSE 0])
    /\ UNCHANGED <<now, head, pushed, dated, run, report, runs>>

\* A review without anything to say ends with a +1.
Finish(r) ==
    /\ thread[r].kind = "request" /\ thread[r].eyes
    /\ thread' = [thread EXCEPT ![r].eyes = FALSE,
            ![r].plus = \A i \in DOMAIN thread : thread[i].kind = "request" \/ i < r]
    /\ UNCHANGED <<now, head, pushed, dated, run, report, runs>>

OtherRequest ==
    /\ Room /\ Count({"request"}) < MaxOthers + run.attempts
    /\ thread' = Append(thread, Request)
    /\ UNCHANGED <<now, head, pushed, dated, run, report, runs>>

\* A commit may have been made long before it is pushed.  Bound: not within the
\* second of a comment.
Push ==
    /\ head < MaxHead
    /\ \A i \in DOMAIN thread : At(i) < now
    /\ head' = head + 1
    /\ pushed' = [pushed EXCEPT ![head + 1] = now]
    /\ \E t \in {0, now} : dated' = [dated EXCEPT ![head + 1] = t]
    /\ UNCHANGED <<now, thread, run, report, runs>>

Tick ==
    /\ now < MaxTime
    /\ now' = now + 1
    /\ UNCHANGED <<head, pushed, dated, thread, run, report, runs>>

Init ==
    /\ now = 0 /\ head = 1
    /\ pushed = [h \in Heads |-> 0] /\ dated = [h \in Heads |-> 0]
    /\ thread = <<>>
    /\ run = Idle /\ report = NoReport /\ runs = 0

Invocation ==
    \/ InspectThread \/ InspectWorking \/ InspectActive \/ InspectAnswered
    \/ InspectAcknowledged \/ InspectNothing
    \/ PostRequest \/ ResolveRequest \/ RequestNotFound
    \/ Poll \/ TimeOut \/ Collect \/ ResponseFound \/ Acknowledged
    \/ LookAgain \/ Sleep

Bot ==
    \E r \in DOMAIN thread :
        \/ PickUp(r)
        \/ \E a \in Answering : Answer(r, a[1], a[2])
        \/ Finish(r)

Next ==
    \/ \E force \in BOOLEAN : Start(force)
    \/ Invocation \/ GhFails
    \/ Watched /\ (Bot \/ OtherRequest \/ Push \/ Tick)

Spec == Init /\ [][Next]_vars

--------------------------------------------------------------------------------
(* Properties.                                                              *)

\* The variables keep their types; a run posts at most MaxAttempts requests.
TypeOK ==
    /\ now \in Times /\ head \in Heads /\ runs \in 0..MaxRuns
    /\ pushed \in [Heads -> Times] /\ dated \in [Heads -> Times]
    /\ Len(thread) <= MaxThread /\ \A i \in DOMAIN thread : thread[i] \in Comment
    /\ run \in Run /\ report \in Report

\* run_review_cycle, inspect_existing_cycle: what is reported for a head that did
\* not move meanwhile fits it: no answer names another commit, an existing answer
\* is one posted since the head was there, and an existing +1 one the bot gave
\* after it had looked at this head or a later one.
ReportFitsHead ==
    /\ report.first = report.head =>
        \A i \in report.items : thread[i].commit \in {0, report.head}
    /\ report.status = "existing_completed_cycle"
            /\ dated[report.head] = pushed[report.head] =>
        IF report.items # {}
        THEN \E i \in report.items : At(i) >= pushed[report.head]
        ELSE thread[report.request].about >= report.head

\* inspect_existing_cycle: once an answer that names the head and its request can
\* be read, an unforced run for that head asks for no review of its own.
AnsweredBefore(h) ==
    \E i \in Answers : \E r \in Requests :
        thread[i].commit = h /\ At(r) <= At(i) /\ At(i) < run.until - Timeout

AnsweredIsReused ==
    [][~run.force /\ ~run.looping /\ AnsweredBefore(run.head) => ~PostRequest]_vars

\* run_review_cycle: once a run has seen the bot look at a request, it posts no
\* further one, whatever becomes of the eyes, the head and the clock.
NoRequestOnceSeen == [][run.eyes => ~PostRequest]_vars

================================================================================
