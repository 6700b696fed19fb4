---------------------------- MODULE GithubCycleProofs ----------------------------
(* Theorems about GithubCycle, for any number of heads, comments, answers,       *)
(* invocations and any timeouts.  The inductive invariant says what the thread   *)
(* records of the heads, and what an invocation has read and may still rely on   *)
(* while the thread and the head move on.                                        *)
EXTENDS GithubCycle, TLAPS, SequenceTheorems, FiniteSetTheorems, WellFoundedInduction

Items == DOMAIN thread

\* a commit is not younger than its push, and no push lies in the future
HeadsGood == \A h \in 1..head : dated[h] <= pushed[h] /\ pushed[h] <= now

\* a request the bot has looked at is about every head that was there before it;
\* an answer was posted after the head it names
CommentGood(c) ==
    /\ c.at <= now /\ c.about <= head
    /\ c.commit # 0 => c.commit <= head /\ pushed[c.commit] <= c.at
    /\ c.kind = "request" =>
        /\ c.eyes \/ c.plus => c.about # 0
        /\ c.about # 0 => \A h \in 1..head : pushed[h] <= c.at => h <= c.about

ThreadGood ==
    /\ thread \in Seq(Comment) /\ Len(thread) <= MaxThread
    /\ \A i \in Items : CommentGood(thread[i])

Looking == run.pc \in {"inspect", "reactions", "post"}

\* where the invocation is, and what it has read
RunGood ==
    /\ run.pc = "idle" => run = Idle
    /\ run.pc # "idle" => run.first \in 1..head
    /\ run.head = 0 \/ (run.first <= run.head /\ run.head <= head)
    /\ Looking \/ run.pc \in {"collect", "plus"} => run.head # 0
    /\ run.pc # "idle" => Timeout <= run.until /\ run.until - Timeout <= now
    /\ run.pc \in {"poll", "collect", "plus"} => run.request \in Items
    /\ Looking => run.attempts < MaxAttempts
    /\ Looking \/ run.pc = "posted" => ~run.eyes
    /\ run.pc = "reactions" =>
        /\ run.items \subseteq Items
        /\ run.found = 0 => run.items = {}
        /\ run.found # 0 => /\ run.found \in Items /\ thread[run.found].kind = "request"
                            /\ \A i \in run.items : At(i) >= At(run.found)
        /\ \A i \in run.items : thread[i].commit \in {0, run.head}

\* what was collected names no head from before the run, nor one it has not seen
GotGood ==
    /\ run.got \subseteq Items
    /\ \A i \in run.got :
        \/ thread[i].commit = 0
        \/ /\ run.first <= thread[i].commit
           /\ thread[i].commit <= IF run.head # 0 THEN run.head ELSE head

\* the answers that say how recent the bot's last look is
Covering(items, h) ==
    LET explicit == {i \in items : thread[i].commit = h /\ thread[i].kind # "issue_comment"}
        topLevel == {i \in items : thread[i].kind # "review_comment"}
    IN  IF explicit \union topLevel # {} THEN explicit \union topLevel ELSE items

\* an unforced run that could read an answer to its head has found a request, and
\* neither it nor its answers look older than the head
ReuseGood ==
    ~run.force /\ ~run.looping /\ AnsweredBefore(run.head) =>
        /\ run.pc = "reactions" =>
            /\ run.found # 0
            /\ \E i \in IF run.items = {} THEN {run.found} ELSE Covering(run.items, run.head) :
                    dated[run.head] <= At(i)
        /\ run.pc # "post"

ReportGood ==
    /\ report.head <= head
    /\ report.items \subseteq Items
    /\ report.status = "existing_completed_cycle" =>
        /\ report.head # 0 /\ report.request \in Items
        /\ thread[report.request].kind = "request"
    /\ ReportFitsHead

VarsTyped ==
    /\ now \in Times /\ head \in Heads /\ runs \in 0..MaxRuns
    /\ pushed \in [Heads -> Times] /\ dated \in [Heads -> Times]
    /\ run \in Run /\ report \in Report

IInv ==
    /\ VarsTyped /\ HeadsGood /\ ThreadGood
    /\ RunGood /\ GotGood /\ ReuseGood /\ ReportGood

-----------------------------------------------------------------------------
(* Choices the code makes among comments                                    *)

LEMMA Bounds ==
  /\ MaxHead \in Nat /\ MaxHead > 0 /\ MaxThread \in Nat /\ MaxTime \in Nat /\ Timeout \in Nat
  /\ MaxAttempts \in Nat /\ MaxAttempts > 0 /\ MaxRuns \in Nat /\ MaxAnswers \in Nat
  BY GithubAssumption

\* A set of numbers that is not empty has a least one; among times there is a last one.
LEMMA LeastOf ==
  ASSUME NEW T, T \subseteq Nat, T # {}
  PROVE  \E t \in T : \A u \in T : t <= u
  <1> DEFINE below(t) == {u \in T : u <= t}
             R == StrictSubsetOrdering(Nat)
             F == {below(t) : t \in T}
  <1>1. F \subseteq FiniteSubsetsOf(Nat) /\ F # {}
    <2>1. ASSUME NEW t \in T PROVE below(t) \subseteq Nat /\ IsFiniteSet(below(t))
      <3>1. t \in Nat
        BY <2>1
      <3>2. below(t) \in SUBSET Nat /\ \A u \in below(t) : u <= t
        OBVIOUS
      <3>3. QED
        BY <3>1, <3>2, FS_BoundedSetOfNaturals
    <2>2. QED
      BY <2>1 DEF FiniteSubsetsOf
  <1>2. IsWellFoundedOn(R, FiniteSubsetsOf(Nat))
    BY FS_StrictSubsetOrderingWellFounded
  <1>3. PICK x \in F : \A y \in F : ~(<<y, x>> \in R)
    BY <1>1, <1>2, WFMin
  <1>4. PICK t \in T : x = below(t)
    BY <1>3
  <1>5. ASSUME NEW u \in T, u < t PROVE FALSE
    <2>1. t \in Nat /\ u \in Nat /\ u < t
      BY <1>4, <1>5
    <2>2. t \in below(t) /\ t \notin below(u)
      BY <1>4, <2>1
    <2>3. \A v \in below(u) : v \in below(t)
      BY <2>1
    <2>4. below(u) \subseteq below(t) /\ below(u) # below(t)
          /\ below(u) \subseteq Nat /\ below(t) \subseteq Nat
      BY <2>2, <2>3
    <2>5. <<below(u), below(t)>> \in R
      BY <2>4 DEF StrictSubsetOrdering
    <2>6. QED
      BY <1>3, <1>4, <1>5, <2>5
  <1>6. QED
    BY <1>4, <1>5

LEMMA LatestOf ==
  ASSUME NEW T, T \subseteq Times, T # {}
  PROVE  \E t \in T : \A u \in T : u <= t
  <1> DEFINE left == {MaxTime - t : t \in T}
  <1>1. left \subseteq Nat /\ left # {}
    <2>1. \A t \in T : t \in Int /\ t <= MaxTime
      BY Bounds DEF Times
    <2>2. \A t \in T : MaxTime - t \in Nat
      BY <2>1, Bounds
    <2>3. QED
      BY <2>2
  <1>2. PICK m \in left : \A n \in left : m <= n
    BY <1>1, LeastOf
  <1>3. PICK t \in T : m = MaxTime - t
    BY <1>2
  <1>4. \A u \in T : MaxTime - t <= MaxTime - u
    BY <1>2, <1>3
  <1>5. QED
    BY <1>3, <1>4, Bounds DEF Times

LEMMA ItemsTyped ==
  ASSUME ThreadGood
  PROVE  /\ Len(thread) \in Nat /\ Items = 1..Len(thread) /\ Items \subseteq 1..MaxThread
         /\ \A i \in Items : thread[i] \in Comment /\ At(i) \in Times
  <1>1. /\ Len(thread) \in Nat /\ Items = 1..Len(thread) /\ thread \in [1..Len(thread) -> Comment]
    BY LenProperties DEF ThreadGood, Items
  <1>2. \A i \in Items : thread[i] \in Comment
    BY <1>1
  <1>3. QED
    BY <1>1, <1>2, Bounds DEF ThreadGood, Comment, At

\* The last of some comments is as late as one of them and none is later.
LEMMA LastAtIs ==
  ASSUME ThreadGood, NEW items, items \subseteq Items, items # {}
  PROVE  /\ LastAt(items) \in Times
         /\ \E i \in items : At(i) = LastAt(items)
         /\ \A i \in items : At(i) <= LastAt(items)
  <1> DEFINE T == {At(i) : i \in items}
  <1>1. T \subseteq Times /\ T # {}
    BY ItemsTyped
  <1>2. \E t \in T : \A u \in T : u <= t
    BY <1>1, LatestOf
  <1>3. \E t \in T : \A i \in items : At(i) <= t
    BY <1>2
  <1>4. LastAt(items) \in T /\ \A i \in items : At(i) <= LastAt(items)
    BY <1>3 DEF LastAt
  <1>5. QED
    BY <1>1, <1>4

\* The newest request is one of them, and none is newer.
LEMMA NewestIs ==
  ASSUME ThreadGood, NEW reqs, reqs \subseteq Items, reqs # {}
  PROVE  Newest(reqs) \in reqs /\ \A q \in reqs : At(q) <= At(Newest(reqs))
  <1>1. /\ LastAt(reqs) \in Times /\ \A q \in reqs : At(q) \in Times /\ q \in Nat
        /\ \A q \in reqs : At(q) <= LastAt(reqs)
    BY LastAtIs, ItemsTyped
  <1> DEFINE last == {q \in reqs : At(q) = LastAt(reqs)}
  <1>2. last \subseteq Nat /\ last # {}
    BY <1>1, LastAtIs
  <1>3. PICK r \in last : \A q \in last : r <= q
    BY <1>2, LeastOf
  <1>4. \A q \in reqs : At(q) < At(r) \/ (At(q) = At(r) /\ r <= q)
    BY <1>1, <1>3, Bounds DEF Times
  <1>5. /\ Newest(reqs) \in reqs
        /\ \A q \in reqs : At(q) < At(Newest(reqs)) \/ (At(q) = At(Newest(reqs)) /\ Newest(reqs) <= q)
    BY <1>3, <1>4 DEF Newest
  <1>6. QED
    BY <1>1, <1>5, Bounds DEF Times

\* The request that is taken for the one that was posted is one that can be read.
LEMMA ResolvedIs ==
  ASSUME ThreadGood, Posted # {}, Posted \subseteq Items
  PROVE  (CHOOSE i \in Posted : \A j \in Posted : At(j) <= At(i)
                            /\ (At(j) = At(i) => j <= i)) \in Posted
  <1>1. /\ LastAt(Posted) \in Times /\ \A q \in Posted : At(q) \in Times /\ q \in 1..MaxThread
        /\ \A q \in Posted : At(q) <= LastAt(Posted)
    BY LastAtIs, ItemsTyped
  <1> DEFINE last == {q \in Posted : At(q) = LastAt(Posted)}
             left == {MaxThread - q : q \in last}
  <1>2. left \subseteq Nat /\ left # {}
    BY <1>1, LastAtIs, Bounds
  <1>3. PICK m \in left : \A n \in left : m <= n
    BY <1>2, LeastOf
  <1>4. PICK r \in last : m = MaxThread - r
    BY <1>3
  <1>5. \A q \in last : q <= r
    BY <1>1, <1>3, <1>4, Bounds
  <1>6. \A j \in Posted : At(j) <= At(r) /\ (At(j) = At(r) => j <= r)
    BY <1>1, <1>4, <1>5
  <1>7. QED
    BY <1>4, <1>6

\* What can be read is in the thread: requests, and answers that are none.
LEMMA Readable ==
  ASSUME ThreadGood
  PROVE  /\ Requests \subseteq Items /\ Answers \subseteq Items
         /\ \A i \in Requests : thread[i].kind = "request"
         /\ \A t, h : AnswersSince(t, h) \subseteq Answers
  BY DEF Requests, Answers, Page, AnswersSince, Items

-----------------------------------------------------------------------------
(* The thread only grows                                                    *)

\* Comments keep their kind, time and commit, and the head they are about once the
\* bot has looked; a new one has the present time.
ThreadGrows ==
    /\ Items \subseteq Items'
    /\ \A i \in Items : /\ thread'[i].kind = thread[i].kind /\ thread'[i].at = thread[i].at
                        /\ thread'[i].commit = thread[i].commit
                        /\ thread[i].about # 0 => thread'[i].about = thread[i].about
    /\ \A i \in Items' \ Items : thread'[i].at = now

HeadGrows ==
    /\ head <= head' /\ now <= now'
    /\ \A h \in 1..head : pushed'[h] = pushed[h] /\ dated'[h] = dated[h]

\* What could be read stays readable, and what is new was not there before.
LEMMA PagesGrow ==
  ASSUME ThreadGood, ThreadGrows, NEW i \in Items
  PROVE  /\ \A kinds : (i \in Page(kinds))' <=> i \in Page(kinds)
         /\ (i \in Requests)' <=> i \in Requests
         /\ (i \in Answers)' <=> i \in Answers
         /\ At(i)' = At(i)
  <1>1. 1..i \subseteq Items
    BY ItemsTyped
  <1>2. ASSUME NEW kinds
        PROVE  i \in {j \in DOMAIN thread' : thread'[j].kind \in kinds
                        /\ Cardinality({k \in 1..j : thread'[k].kind \in kinds}) <= PageSize}
               <=> i \in Page(kinds)
    <2>1. {k \in 1..i : thread'[k].kind \in kinds} = {k \in 1..i : thread[k].kind \in kinds}
      BY <1>1 DEF ThreadGrows
    <2>2. i \in DOMAIN thread' /\ i \in DOMAIN thread /\ thread'[i].kind = thread[i].kind
      BY DEF ThreadGrows, Items
    <2>3. QED
      BY <2>1, <2>2 DEF Page
  <1>3. \A kinds : (i \in Page(kinds))' <=> i \in Page(kinds)
    BY <1>2 DEF Page
  <1>4. thread'[i].kind = thread[i].kind /\ thread'[i].at = thread[i].at
    BY DEF ThreadGrows
  <1>5. (i \in Requests)' <=> i \in Requests
    BY <1>3, <1>4 DEF Requests
  <1>6. QED
    BY <1>3, <1>4, <1>5 DEF Answers, At

\* What had been answered when the run began does not become more.
LEMMA BeforeStays ==
  ASSUME ThreadGood, ThreadGood', ThreadGrows, NEW h, now \in Nat, run.until \in Nat,
         run'.until = run.until, Timeout <= run.until, run.until - Timeout <= now,
         AnsweredBefore(h)'
  PROVE  AnsweredBefore(h)
  <1>1. PICK i \in Answers', r \in Requests' :
          /\ thread'[i].commit = h /\ thread'[r].at <= thread'[i].at
          /\ thread'[i].at < run.until - Timeout
    BY DEF AnsweredBefore, At
  <1>2. i \in Items' /\ r \in Items'
    BY DEF Answers, Requests, Page, Items
  <1>3. thread'[i].at \in Nat /\ thread'[r].at \in Nat
    <2>1. \A k \in 1..Len(thread') : thread'[k] \in Comment
      BY ElementOfSeq DEF ThreadGood
    <2>2. i \in 1..Len(thread') /\ r \in 1..Len(thread')
      BY <1>2, LenProperties DEF ThreadGood, Items
    <2>3. QED
      BY <2>1, <2>2 DEF Comment, Times
  <1>4. thread'[i].at < now /\ thread'[r].at < now
    BY <1>1, <1>3, Bounds
  <1>5. i \in Items /\ r \in Items
    BY <1>2, <1>4 DEF ThreadGrows
  <1>6. i \in Answers /\ r \in Requests
    BY <1>1, <1>5, PagesGrow
  <1>7. QED
    BY <1>1, <1>5, <1>6 DEF AnsweredBefore, At, ThreadGrows

\* A comment is added.
LEMMA Appended ==
  ASSUME VarsTyped, ThreadGood, NEW c \in Comment, CommentGood(c), c.at = now,
         Len(thread) < MaxThread, thread' = Append(thread, c),
         UNCHANGED <<now, head, pushed, dated>>
  PROVE  ThreadGood' /\ ThreadGrows /\ HeadGrows
  <1>1. /\ Len(thread) \in Nat /\ Items = 1..Len(thread)
    BY ItemsTyped
  <1>2. /\ thread' \in Seq(Comment) /\ Len(thread') = Len(thread) + 1
        /\ \A i \in 1..Len(thread) : thread'[i] = thread[i]
        /\ thread'[Len(thread) + 1] = c
    BY AppendProperties DEF ThreadGood
  <1>3. Items' = 1..(Len(thread) + 1)
    BY <1>2, LenProperties DEF Items
  <1>4. \A i \in Items' : i \in Items \/ i = Len(thread) + 1
    BY <1>1, <1>3
  <1>5. ThreadGrows
    BY <1>1, <1>2, <1>3, <1>4 DEF ThreadGrows
  <1>6. \A i \in Items' : CommentGood(thread'[i])
    BY <1>1, <1>2, <1>4 DEF ThreadGood
  <1>7. ThreadGood'
    <2>1. Len(thread') <= MaxThread
      BY <1>1, <1>2, Bounds
    <2>2. \A i \in Items' : CommentGood(thread[i])'
      BY <1>6 DEF CommentGood
    <2>3. QED
      BY <1>2, <2>1, <2>2 DEF ThreadGood
  <1>8. HeadGrows
    BY Bounds DEF HeadGrows, VarsTyped, Heads, Times
  <1>9. QED
    BY <1>5, <1>7, <1>8

\* A request is looked at, or done with.
LEMMA Changed ==
  ASSUME VarsTyped, ThreadGood, NEW r \in Items, NEW c \in Comment, CommentGood(c),
         c.kind = thread[r].kind, c.at = thread[r].at, c.commit = thread[r].commit,
         thread[r].about # 0 => c.about = thread[r].about,
         thread' = [thread EXCEPT ![r] = c], UNCHANGED <<now, head, pushed, dated>>
  PROVE  ThreadGood' /\ ThreadGrows /\ HeadGrows
  <1>1. /\ Len(thread) \in Nat /\ Items = 1..Len(thread)
    BY ItemsTyped
  <1>2. /\ thread' \in Seq(Comment) /\ Len(thread') = Len(thread)
        /\ \A i \in 1..Len(thread) : thread'[i] = IF i = r THEN c ELSE thread[i]
    BY <1>1, ExceptSeq DEF ThreadGood
  <1>3. Items' = Items
    BY <1>1, <1>2, LenProperties DEF Items
  <1>4. ThreadGrows
    BY <1>1, <1>2, <1>3 DEF ThreadGrows
  <1>5. \A i \in Items' : CommentGood(thread'[i])
    BY <1>1, <1>2, <1>3 DEF ThreadGood
  <1>6. ThreadGood'
    BY <1>2, <1>3, <1>5 DEF ThreadGood, CommentGood
  <1>7. HeadGrows
    BY Bounds DEF HeadGrows, VarsTyped, Heads, Times
  <1>8. QED
    BY <1>4, <1>6, <1>7

\* A new head is younger than every comment.
LEMMA Pushed ==
  ASSUME VarsTyped, HeadsGood, ThreadGood, Push
  PROVE  VarsTyped' /\ HeadsGood' /\ ThreadGood' /\ ThreadGrows /\ HeadGrows
  <1>1. PICK t \in {0, now} : dated' = [dated EXCEPT ![head + 1] = t]
    BY DEF Push
  <1>2. /\ head < MaxHead /\ head' = head + 1 /\ pushed' = [pushed EXCEPT ![head + 1] = now]
        /\ UNCHANGED <<now, thread, run, report, runs>>
        /\ \A i \in Items : At(i) < now
    BY DEF Push, Items
  <1>3. head \in Nat /\ head > 0 /\ now \in Times /\ now \in Nat /\ t \in Times /\ t <= now
        /\ head + 1 \in Heads
    BY <1>1, <1>2, Bounds DEF VarsTyped, Heads, Times
  <1>4. VarsTyped'
    BY <1>1, <1>2, <1>3 DEF VarsTyped, Run, Report, Times, Heads
  <1>5. /\ \A h \in 1..head : pushed'[h] = pushed[h] /\ dated'[h] = dated[h]
        /\ pushed'[head + 1] = now /\ dated'[head + 1] = t
    BY <1>1, <1>2, <1>3 DEF VarsTyped, Heads
  <1>6. HeadsGood'
    BY <1>2, <1>3, <1>5 DEF HeadsGood
  <1>7. ASSUME NEW i \in Items PROVE CommentGood(thread[i])'
    <2>1. thread[i] \in Comment /\ CommentGood(thread[i]) /\ thread[i].at < now
      BY <1>2, ItemsTyped DEF ThreadGood, At
    <2>2. thread[i].at \in Nat /\ thread[i].about \in Nat /\ thread[i].commit \in Nat
      BY <2>1, Bounds DEF Comment, Times
    <2>3. thread[i].commit # 0 => thread[i].commit \in 1..head
      BY <1>3, <2>1, <2>2 DEF CommentGood
    <2>4. \A h \in 1..(head + 1) : h \in 1..head \/ h = head + 1
      BY <1>3
    <2>5. QED
      BY <1>2, <1>3, <1>5, <2>1, <2>2, <2>3, <2>4 DEF CommentGood
  <1>8. ThreadGood'
    BY <1>2, <1>7 DEF ThreadGood, Items
  <1>9. ThreadGrows /\ HeadGrows
    BY <1>2, <1>3, <1>5 DEF ThreadGrows, HeadGrows, Items
  <1>10. QED
    BY <1>4, <1>6, <1>8, <1>9

\* Time passes.
LEMMA Ticked ==
  ASSUME VarsTyped, HeadsGood, ThreadGood, Tick
  PROVE  VarsTyped' /\ HeadsGood' /\ ThreadGood' /\ ThreadGrows /\ HeadGrows
  <1>1. /\ now' = now + 1 /\ now < MaxTime
        /\ UNCHANGED <<head, pushed, dated, thread, run, report, runs>>
    BY DEF Tick
  <1>2. now \in Nat /\ now' \in Times /\ now' \in Nat
    BY <1>1, Bounds DEF VarsTyped, Times
  <1>3. VarsTyped'
    BY <1>1, <1>2 DEF VarsTyped, Run, Report
  <1>4. \A h \in 1..head : pushed[h] \in Nat /\ dated[h] \in Nat
    BY Bounds DEF VarsTyped, Heads, Times
  <1>5. HeadsGood'
    BY <1>1, <1>2, <1>4 DEF HeadsGood
  <1>6. ASSUME NEW i \in Items PROVE CommentGood(thread[i])'
    <2>1. thread[i].at \in Nat
      BY ItemsTyped, Bounds DEF Comment, Times
    <2>2. CommentGood(thread[i])
      BY DEF ThreadGood
    <2>3. thread[i].at <= now + 1
      BY <1>2, <2>1, <2>2 DEF CommentGood
    <2>4. QED
      BY <1>1, <2>2, <2>3 DEF CommentGood
  <1>7. ThreadGood'
    BY <1>1, <1>6 DEF ThreadGood, Items
  <1>8. ThreadGrows /\ HeadGrows
    BY <1>1, <1>2 DEF ThreadGrows, HeadGrows, Items, VarsTyped, Heads
  <1>9. QED
    BY <1>3, <1>5, <1>7, <1>8

\* A fresh request is good: nobody has looked at it.
LEMMA RequestGood ==
  ASSUME VarsTyped, HeadsGood
  PROVE  Request \in Comment /\ CommentGood(Request) /\ Request.at = now
  BY Bounds DEF VarsTyped, Request, Comment, CommentGood, Heads, Times

\* The bot and other callers.
WorldGrows == /\ VarsTyped' /\ HeadsGood' /\ ThreadGood' /\ ThreadGrows /\ HeadGrows
              /\ UNCHANGED <<run, report>>

LEMMA WorldGrown ==
  ASSUME VarsTyped, HeadsGood, ThreadGood, Bot \/ OtherRequest \/ Push \/ Tick
  PROVE  WorldGrows
  <1>1. CASE Push
    BY <1>1, Pushed DEF Push, WorldGrows
  <1>2. CASE Tick
    BY <1>2, Ticked DEF Tick, WorldGrows
  <1>3. ASSUME UNCHANGED <<now, head, pushed, dated, run, report, runs>>
        PROVE  VarsTyped' /\ HeadsGood'
    BY <1>3 DEF VarsTyped, HeadsGood
  <1>4. CASE OtherRequest
    BY <1>3, <1>4, RequestGood, Appended DEF OtherRequest, Room, WorldGrows
  <1>5. ASSUME NEW r \in Items, PickUp(r) PROVE WorldGrows
    <2> DEFINE c == [thread[r] EXCEPT !.eyes = TRUE, !.about = head]
    <2>1. thread[r] \in Comment /\ CommentGood(thread[r])
      BY ItemsTyped DEF ThreadGood
    <2>2. head \in 1..MaxHead /\ now \in Nat
      BY Bounds DEF VarsTyped, Heads, Times
    <2>3. /\ c \in Comment /\ c.kind = thread[r].kind /\ c.at = thread[r].at
          /\ c.commit = thread[r].commit /\ c.about = head /\ thread[r].about = 0
      <3>1. thread[r].about = 0
        BY <1>5 DEF PickUp
      <3>2. head \in 0..MaxHead
        BY <2>2, Bounds
      <3>3. QED
        BY <2>1, <3>1, <3>2 DEF Comment
    <2>4. CommentGood(c)
      <3>1. \A h \in 1..head : h <= head
        BY <2>2
      <3>2. head <= head
        BY <2>2
      <3> HIDE DEF c
      <3>3. QED
        BY <2>1, <2>2, <2>3, <3>1, <3>2 DEF CommentGood
    <2>5. thread' = [thread EXCEPT ![r] = c] /\ UNCHANGED <<now, head, pushed, dated>>
      BY <1>5 DEF PickUp
    <2> HIDE DEF c
    <2>6. ThreadGood' /\ ThreadGrows /\ HeadGrows
      BY <2>3, <2>4, <2>5, Changed
    <2>7. QED
      BY <1>3, <1>5, <2>6 DEF PickUp, WorldGrows
  <1>6. ASSUME NEW r \in Items, NEW a \in Answering, Answer(r, a[1], a[2]) PROVE WorldGrows
    <2> DEFINE c == [Request EXCEPT !.kind = a[1], !.about = thread[r].about,
                        !.commit = IF a[2] THEN thread[r].about ELSE 0]
    <2>1. thread[r] \in Comment /\ CommentGood(thread[r])
      BY ItemsTyped DEF ThreadGood
    <2>2. head \in 1..MaxHead /\ now \in Nat /\ now \in Times
      BY Bounds DEF VarsTyped, Heads, Times
    <2>3. a[1] \in AnswerKinds
      BY GithubAssumption DEF AnswerKinds
    <2>4. /\ c.kind = a[1] /\ c.at = now /\ c.about = thread[r].about /\ ~c.eyes /\ ~c.plus
          /\ c.commit \in {0, thread[r].about}
      BY DEF Request
    <2>5. c \in Comment
      <3>1. thread[r].about \in 0..MaxHead /\ 0 \in 0..MaxHead
        BY <2>1, Bounds DEF Comment
      <3>2. (IF a[2] THEN thread[r].about ELSE 0) \in 0..MaxHead
        BY <3>1
      <3>3. QED
        BY <2>2, <2>3, <3>1, <3>2 DEF Comment, Request
    <2>6. thread[r].about # 0 => pushed[thread[r].about] <= now
      <3>1. thread[r].about # 0 => thread[r].about \in 1..head
        BY <2>1, <2>2 DEF Comment, CommentGood
      <3>2. QED
        BY <3>1 DEF HeadsGood
    <2> HIDE DEF c
    <2>7. CommentGood(c)
      BY <2>1, <2>2, <2>3, <2>4, <2>6 DEF CommentGood, AnswerKinds
    <2>8. thread' = Append(thread, c) /\ UNCHANGED <<now, head, pushed, dated>>
          /\ Len(thread) < MaxThread
      BY <1>6 DEF Answer, Room, c
    <2>9. ThreadGood' /\ ThreadGrows /\ HeadGrows
      BY <2>4, <2>5, <2>7, <2>8, Appended
    <2>10. QED
      BY <1>3, <1>6, <2>9 DEF Answer, WorldGrows
  <1>7. ASSUME NEW r \in Items, Finish(r) PROVE WorldGrows
    <2> DEFINE b == \A i \in DOMAIN thread : thread[i].kind = "request" \/ i < r
               c == [thread[r] EXCEPT !.eyes = FALSE, !.plus = b]
    <2>1. thread[r] \in Comment /\ CommentGood(thread[r]) /\ b \in BOOLEAN
      BY ItemsTyped DEF ThreadGood
    <2>2. thread' = [thread EXCEPT ![r] = c] /\ UNCHANGED <<now, head, pushed, dated>>
          /\ thread[r].kind = "request" /\ thread[r].eyes
      BY <1>7 DEF Finish
    <2> HIDE DEF b
    <2>3. /\ c \in Comment /\ c.kind = thread[r].kind /\ c.at = thread[r].at
          /\ c.commit = thread[r].commit /\ c.about = thread[r].about /\ ~c.eyes
      BY <2>1 DEF Comment
    <2> HIDE DEF c
    <2>4. CommentGood(c)
      BY <2>1, <2>2, <2>3 DEF CommentGood
    <2>5. ThreadGood' /\ ThreadGrows /\ HeadGrows
      BY <2>2, <2>3, <2>4, Changed
    <2>6. QED
      BY <1>3, <1>7, <2>5 DEF Finish, WorldGrows
  <1>8. QED
    BY <1>1, <1>2, <1>4, <1>5, <1>6, <1>7 DEF Bot, Items

-----------------------------------------------------------------------------
(* What a run and a report rely on while the thread and the head move on    *)

LEMMA StillGrows ==
  ASSUME VarsTyped, UNCHANGED world
  PROVE  ThreadGrows /\ HeadGrows /\ (ThreadGood => ThreadGood') /\ (HeadsGood => HeadsGood')
  <1>1. UNCHANGED <<now, head, pushed, dated, thread>>
    BY DEF world
  <1>2. now <= now /\ head <= head
    BY Bounds DEF VarsTyped, Times, Heads
  <1>3. QED
    BY <1>1, <1>2 DEF ThreadGrows, HeadGrows, ThreadGood, HeadsGood, CommentGood, Items

\* What has been collected stays, and so does what it may name.
LEMMA GotKeeps ==
  ASSUME VarsTyped, VarsTyped', ThreadGood, ThreadGrows, HeadGrows, GotGood, RunGood,
         run'.got = run.got,
         run.got # {} => run'.first = run.first /\ run'.head \in {0, run.head}
  PROVE  GotGood'
  <1>1. head \in Nat /\ head' \in Nat /\ head <= head'
    BY Bounds DEF VarsTyped, Heads, HeadGrows
  <1>2. run.head \in Nat /\ run.first \in Nat /\ run.head <= head
    BY <1>1, Bounds DEF VarsTyped, Run, RunGood
  <1>3. run.got \subseteq Items'
    BY DEF GotGood, ThreadGrows
  <1>4. ASSUME NEW i \in run.got
        PROVE  \/ thread'[i].commit = 0
               \/ /\ run'.first <= thread'[i].commit
                  /\ thread'[i].commit <= IF run'.head # 0 THEN run'.head ELSE head'
    <2>1. i \in Items
      BY <1>4 DEF GotGood
    <2>2. thread'[i].commit = thread[i].commit /\ thread[i].commit \in Nat
      BY <2>1, ItemsTyped, Bounds DEF ThreadGrows, Comment
    <2>3. run'.first = run.first /\ run'.head \in {0, run.head}
      BY <1>4
    <2>4. \/ thread[i].commit = 0
          \/ /\ run.first <= thread[i].commit
             /\ thread[i].commit <= IF run.head # 0 THEN run.head ELSE head
      BY <1>4 DEF GotGood
    <2>5. QED
      BY <1>1, <1>2, <2>2, <2>3, <2>4
  <1>5. QED
    BY <1>3, <1>4 DEF GotGood

\* A report keeps fitting the head it is about.
LEMMA ReportKeeps ==
  ASSUME VarsTyped, VarsTyped', ThreadGood, ThreadGrows, HeadGrows, ReportGood, report' = report
  PROVE  ReportGood'
  <1>1. head \in Nat /\ head' \in Nat /\ head <= head' /\ report.head \in Nat
    BY Bounds DEF VarsTyped, Heads, HeadGrows, Report
  <1>2. report.head <= head' /\ report.items \subseteq Items'
    BY <1>1 DEF ReportGood, ThreadGrows
  <1>3. report.status = "existing_completed_cycle" =>
          /\ report.head # 0 /\ report.request \in Items'
          /\ thread'[report.request].kind = "request"
    BY DEF ReportGood, ThreadGrows
  <1>4. report.first = report.head =>
          \A i \in report.items : thread'[i].commit \in {0, report.head}
    BY DEF ReportGood, ReportFitsHead, ThreadGrows
  <1>5. SUFFICES ASSUME report.status = "existing_completed_cycle",
                        dated'[report.head] = pushed'[report.head]
                 PROVE  IF report.items # {}
                        THEN \E i \in report.items : thread'[i].at >= pushed'[report.head]
                        ELSE thread'[report.request].about >= report.head
    BY <1>2, <1>3, <1>4 DEF ReportGood, ReportFitsHead, At
  <1>6. report.head \in 1..head
    BY <1>1, <1>5 DEF ReportGood
  <1>7. dated[report.head] = pushed[report.head] /\ pushed'[report.head] = pushed[report.head]
    BY <1>5, <1>6 DEF HeadGrows
  <1>8. CASE report.items # {}
    <2>1. PICK i \in report.items : At(i) >= pushed[report.head]
      BY <1>5, <1>7, <1>8 DEF ReportGood, ReportFitsHead
    <2>2. thread'[i].at = At(i)
      BY <2>1 DEF ReportGood, ThreadGrows, At
    <2>3. QED
      BY <1>7, <1>8, <2>1, <2>2
  <1>9. CASE report.items = {}
    <2>1. thread[report.request].about >= report.head /\ report.request \in Items
      BY <1>5, <1>7, <1>9 DEF ReportGood, ReportFitsHead
    <2>2. thread[report.request].about \in Nat
      BY <2>1, ItemsTyped, Bounds DEF Comment
    <2>3. thread[report.request].about # 0
      BY <1>6, <2>1, <2>2
    <2>4. QED
      BY <1>9, <2>1, <2>3 DEF ThreadGrows
  <1>10. QED
    BY <1>8, <1>9

\* An invocation relies on nothing that the bot, the others, the author or the clock
\* take away.
LEMMA WorldKeeps ==
  ASSUME IInv, WorldGrows
  PROVE  IInv'
  <1> USE DEF IInv, WorldGrows
  <1>1. /\ head \in Nat /\ head' \in Nat /\ head <= head' /\ now \in Nat /\ now' \in Nat
        /\ now <= now' /\ run' = run /\ run.head \in Nat /\ run.first \in Nat /\ run.until \in Nat
    BY Bounds DEF VarsTyped, Heads, HeadGrows, Times, Run
  <1>2. GotGood' /\ ReportGood'
    BY <1>1, GotKeeps, ReportKeeps
  <1>3. /\ \A i \in Items : /\ i \in Items' /\ At(i)' = At(i)
                            /\ thread'[i].kind = thread[i].kind
                            /\ thread'[i].commit = thread[i].commit
    BY DEF ThreadGrows, At
  <1>4. RunGood'
    <2>1. /\ run.pc = "idle" => run = Idle
          /\ run.pc # "idle" => run.first \in 1..head'
          /\ run.head = 0 \/ (run.first <= run.head /\ run.head <= head')
          /\ Looking \/ run.pc \in {"collect", "plus"} => run.head # 0
          /\ run.pc # "idle" => Timeout <= run.until /\ run.until - Timeout <= now'
          /\ Looking => run.attempts < MaxAttempts
          /\ Looking \/ run.pc = "posted" => ~run.eyes
      BY <1>1, Bounds DEF RunGood
    <2>2. /\ run.pc \in {"poll", "collect", "plus"} => run.request \in Items'
          /\ run.pc = "reactions" =>
              /\ run.items \subseteq Items'
              /\ run.found = 0 => run.items = {}
              /\ run.found # 0 => /\ run.found \in Items' /\ thread'[run.found].kind = "request"
                                  /\ \A i \in run.items : At(i)' >= At(run.found)'
              /\ \A i \in run.items : thread'[i].commit \in {0, run.head}
      BY <1>3 DEF RunGood
    <2>3. QED
      BY <1>1, <2>1, <2>2 DEF RunGood, Looking, At
  <1>5. ReuseGood'
    <2>1. SUFFICES ASSUME ~run.force, ~run.looping, AnsweredBefore(run.head)',
                          run.pc \in {"reactions", "post"}
                   PROVE  /\ run.pc = "reactions" =>
                              /\ run.found # 0
                              /\ \E i \in IF run.items = {} THEN {run.found}
                                          ELSE Covering(run.items, run.head)' :
                                    dated'[run.head] <= At(i)'
                          /\ run.pc # "post"
      BY <1>1 DEF ReuseGood, Covering
    <2>2. AnsweredBefore(run.head)
      BY <1>1, <2>1, BeforeStays DEF RunGood
    <2>3. run.head \in 1..head
      BY <1>1, <2>1 DEF RunGood, Looking
    <2>4. dated'[run.head] = dated[run.head]
      BY <2>3 DEF HeadGrows
    <2>5. run.pc = "reactions" => Covering(run.items, run.head)' = Covering(run.items, run.head)
      <3>1. SUFFICES ASSUME run.items \subseteq Items
                     PROVE  Covering(run.items, run.head)' = Covering(run.items, run.head)
        BY DEF RunGood
      <3>2. /\ {i \in run.items : thread'[i].commit = run.head /\ thread'[i].kind # "issue_comment"}
               = {i \in run.items : thread[i].commit = run.head /\ thread[i].kind # "issue_comment"}
            /\ {i \in run.items : thread'[i].kind # "review_comment"}
               = {i \in run.items : thread[i].kind # "review_comment"}
        BY <1>3, <3>1
      <3>3. QED
        BY <1>1, <3>2 DEF Covering
    <2>6. run.pc = "reactions" /\ run.found # 0 =>
            \A i \in IF run.items = {} THEN {run.found} ELSE Covering(run.items, run.head) :
                At(i)' = At(i)
      <3>1. \A h : Covering(run.items, h) \subseteq run.items
        BY DEF Covering
      <3>2. QED
        BY <1>3, <3>1 DEF RunGood
    <2>7. QED
      BY <2>1, <2>2, <2>4, <2>5, <2>6 DEF ReuseGood
  <1>6. QED
    BY <1>2, <1>4, <1>5

-----------------------------------------------------------------------------
(* The invocation                                                           *)

LEMMA RunTyped ==
  ASSUME IInv
  PROVE  /\ run \in Run /\ head \in 1..MaxHead /\ head \in Nat /\ now \in Nat /\ now \in Times
         /\ run.head \in Nat /\ run.first \in Nat /\ run.until \in Nat
  BY Bounds DEF IInv, VarsTyped, Heads, Times, Run

LEMMA IdleTyped ==
  /\ Idle \in Run /\ NoReport \in Report
  /\ Idle.pc = "idle" /\ Idle.head = 0 /\ Idle.got = {} /\ ~Idle.eyes
  BY Bounds DEF Idle, Run, NoReport, Report, Statuses, Times

\* A step of the invocation that reports nothing.
LEMMA MovesGood ==
  ASSUME IInv, UNCHANGED <<world, report>>, runs' \in 0..MaxRuns, run' \in Run,
         RunGood', GotGood', ReuseGood'
  PROVE  IInv'
  <1>1. VarsTyped'
    BY DEF IInv, VarsTyped, world
  <1>2. ThreadGrows /\ HeadGrows /\ ThreadGood' /\ HeadsGood'
    BY StillGrows DEF IInv
  <1>3. ReportGood'
    BY <1>1, <1>2, ReportKeeps DEF IInv
  <1>4. QED
    BY <1>1, <1>2, <1>3 DEF IInv

\* A step of the invocation that ends it with a report that fits the head.
LEMMA EndGood ==
  ASSUME IInv, UNCHANGED <<world, runs>>, NEW status \in Statuses, NEW h \in 0..MaxHead,
         NEW r \in 0..MaxThread, NEW items, items \subseteq Items, End(status, h, r, items),
         h <= head, run.first \in 0..MaxHead,
         run.first = h => \A i \in items : thread[i].commit \in {0, h},
         status = "existing_completed_cycle" =>
            /\ h # 0 /\ r \in Items /\ thread[r].kind = "request"
            /\ dated[h] = pushed[h] =>
                 IF items # {} THEN \E i \in items : At(i) >= pushed[h]
                 ELSE thread[r].about >= h
  PROVE  IInv'
  <1>1. /\ run' = Idle
        /\ report' = [status |-> status, first |-> run.first, head |-> h,
                      request |-> r, items |-> items]
    BY DEF End
  <1>2. Items \subseteq 1..MaxThread /\ UNCHANGED <<now, head, pushed, dated, thread>>
    BY ItemsTyped DEF IInv, world
  <1>3. VarsTyped'
    BY <1>1, <1>2, IdleTyped DEF IInv, VarsTyped, Report
  <1>4. HeadsGood' /\ ThreadGood'
    BY StillGrows DEF IInv
  <1>5. RunGood' /\ GotGood' /\ ReuseGood'
    BY <1>1, IdleTyped DEF RunGood, GotGood, ReuseGood, Looking
  <1>6. ReportGood'
    BY <1>1, <1>2 DEF ReportGood, ReportFitsHead, At, Items
  <1>7. QED
    BY <1>3, <1>4, <1>5, <1>6 DEF IInv

LEMMA StartGood ==
  ASSUME IInv, NEW force \in BOOLEAN, Start(force)
  PROVE  IInv'
  <1>1. /\ runs' = runs + 1 /\ runs < MaxRuns /\ report' = NoReport
        /\ UNCHANGED <<now, head, pushed, dated, thread>>
        /\ run' = [Idle EXCEPT !.pc = "inspect", !.force = force, !.first = head,
                               !.head = head, !.until = now + Timeout]
    BY DEF Start, world
  <1>2. head \in 1..MaxHead /\ head \in 0..MaxHead /\ now \in Nat
    BY RunTyped, Bounds
  <1>3. /\ run' \in Run /\ run'.pc = "inspect" /\ run'.first = head /\ run'.head = head
        /\ run'.until = now + Timeout /\ run'.attempts = 0 /\ ~run'.eyes /\ run'.got = {}
    <2>1. now + Timeout \in Nat
      BY <1>2, Bounds
    <2>2. run' \in Run
      BY <1>1, <1>2, <2>1, IdleTyped DEF Run
    <2>3. QED
      BY <1>1, <2>2 DEF Idle
  <1>4. runs' \in 0..MaxRuns
    BY <1>1, Bounds DEF IInv, VarsTyped
  <1>5. VarsTyped'
    BY <1>1, <1>3, <1>4, IdleTyped DEF IInv, VarsTyped
  <1>6. HeadsGood' /\ ThreadGood'
    BY <1>1 DEF IInv, HeadsGood, ThreadGood, CommentGood, Items
  <1>7. RunGood'
    BY <1>1, <1>2, <1>3, Bounds DEF RunGood, Looking
  <1>8. GotGood' /\ ReuseGood'
    BY <1>3 DEF GotGood, ReuseGood
  <1>9. ReportGood'
    BY <1>1, <1>2 DEF ReportGood, ReportFitsHead, NoReport
  <1>10. QED
    BY <1>5, <1>6, <1>7, <1>8, <1>9 DEF IInv

\* An answer that names a head is not older than the head.
LEMMA NamedIsYounger ==
  ASSUME IInv, NEW i \in Items, thread[i].commit # 0
  PROVE  dated[thread[i].commit] <= At(i)
  <1>1. /\ thread[i].commit \in 1..head /\ pushed[thread[i].commit] <= At(i)
    BY ItemsTyped, RunTyped DEF IInv, ThreadGood, CommentGood, Comment, At
  <1>2. dated[thread[i].commit] <= pushed[thread[i].commit]
    BY <1>1 DEF IInv, HeadsGood
  <1>3. /\ dated[thread[i].commit] \in Nat /\ pushed[thread[i].commit] \in Nat /\ At(i) \in Nat
    <2>1. thread[i].commit \in Heads
      BY <1>1, RunTyped, Bounds DEF Heads
    <2>2. dated[thread[i].commit] \in Times /\ pushed[thread[i].commit] \in Times
      BY <2>1 DEF IInv, VarsTyped
    <2>3. At(i) \in Times
      BY ItemsTyped DEF IInv
    <2>4. QED
      BY <2>2, <2>3, Bounds DEF Times
  <1>4. QED
    BY <1>1, <1>2, <1>3

LEMMA InspectThreadGood ==
  ASSUME IInv, InspectThread
  PROVE  IInv'
  <1> DEFINE r == IF Requests = {} THEN 0 ELSE Newest(Requests)
             items == IF r = 0 THEN {} ELSE AnswersSince(At(r), run.head)
  <1>1. /\ run.pc = "inspect" /\ UNCHANGED <<world, report, runs>>
        /\ run' = [run EXCEPT !.pc = "reactions", !.found = r, !.items = items]
    BY DEF InspectThread
  <1>2. UNCHANGED <<now, head, pushed, dated, thread>> /\ ThreadGood /\ runs' \in 0..MaxRuns
    BY <1>1 DEF world, IInv, VarsTyped
  <1>3. Requests # {} => /\ r \in Requests /\ r \in Items /\ thread[r].kind = "request" /\ r # 0
                         /\ \A q \in Requests : At(q) <= At(r)
    BY <1>2, NewestIs, Readable, ItemsTyped
  <1>4. /\ r \in 0..MaxThread /\ items \subseteq Items
        /\ \A i \in items : /\ thread[i].commit \in {0, run.head} /\ At(i) >= At(r)
                            /\ i \in Answers
        /\ r # 0 => Requests # {}
        /\ r = 0 => items = {}
    <2>1. r # 0 => Requests # {}
      OBVIOUS
    <2>2. r \in 0..MaxThread
      BY <1>2, <1>3, <2>1, ItemsTyped, Bounds
    <2>3. items \subseteq Items
      BY <1>2, Readable
    <2>4. QED
      BY <2>1, <2>2, <2>3 DEF AnswersSince
  <1>5. items \subseteq 1..MaxThread
    BY <1>2, <1>4, ItemsTyped
  <1> HIDE DEF r, items
  <1>6. /\ run' \in Run /\ run'.pc = "reactions" /\ run'.found = r /\ run'.items = items
        /\ run'.first = run.first /\ run'.head = run.head /\ run'.until = run.until
        /\ run'.attempts = run.attempts /\ run'.eyes = run.eyes /\ run'.got = run.got
        /\ run'.force = run.force /\ run'.looping = run.looping /\ run'.request = run.request
    BY <1>1, <1>4, <1>5, RunTyped DEF Run
  <1>7. RunGood'
    BY <1>1, <1>2, <1>3, <1>4, <1>6 DEF IInv, RunGood, Looking, Items, At
  <1>8. VarsTyped'
    BY <1>1, <1>2, <1>6 DEF IInv, VarsTyped
  <1>9. GotGood'
    BY <1>1, <1>6, <1>8, StillGrows, GotKeeps DEF IInv
  <1>10. ReuseGood'
    <2>1. SUFFICES ASSUME AnsweredBefore(run.head)
                   PROVE  /\ r # 0
                          /\ \E i \in IF items = {} THEN {r} ELSE Covering(items, run.head) :
                                dated[run.head] <= At(i)
      <3>1. AnsweredBefore(run.head)' <=> AnsweredBefore(run.head)
        BY <1>2, <1>6 DEF AnsweredBefore, Answers, Requests, Page, At
      <3>2. Covering(run.items, run.head)' = Covering(items, run.head)
        BY <1>2, <1>6 DEF Covering
      <3>3. \A i : At(i)' = At(i)
        BY <1>2 DEF At
      <3>4. dated'[run'.head] = dated[run.head]
        BY <1>2, <1>6
      <3>5. QED
        BY <1>6, <3>1, <3>2, <3>3, <3>4 DEF ReuseGood
    <2>2. PICK i \in Answers, q \in Requests :
            thread[i].commit = run.head /\ At(q) <= At(i)
      BY <2>1 DEF AnsweredBefore
    <2>3. /\ i \in Items /\ run.head # 0 /\ dated[run.head] <= At(i) /\ At(i) \in Nat /\ r \in Items
          /\ At(r) \in Nat /\ \A k \in items : At(k) \in Nat
          /\ dated[run.head] \in Nat
      <3>1. i \in Items /\ run.head # 0 /\ run.head \in 1..head
        BY <1>1, <1>2, <2>2, Readable, RunTyped DEF IInv, RunGood, Looking
      <3>2. dated[run.head] <= At(i)
        BY <2>2, <3>1, NamedIsYounger
      <3>3. r \in Items
        BY <1>3, <2>2
      <3>4. dated[run.head] \in Nat
        BY <3>1, RunTyped, Bounds DEF IInv, VarsTyped, Heads, Times
      <3>5. QED
        BY <1>2, <1>4, <3>1, <3>2, <3>3, <3>4, ItemsTyped, Bounds DEF Times
    <2>4. Requests # {} /\ r # 0
      BY <1>3, <2>2
    <2>5. CASE At(i) >= At(r)
      <3>1. i \in items
        BY <2>2, <2>4, <2>5 DEF items, AnswersSince
      <3>2. i \in Covering(items, run.head)
        BY <2>2, <3>1 DEF Covering
      <3>3. QED
        BY <2>3, <2>4, <3>1, <3>2
    <2>6. CASE At(i) < At(r)
      <3>1. items # {} => Covering(items, run.head) # {}
        BY DEF Covering
      <3>2. Covering(items, run.head) \subseteq items
        BY DEF Covering
      <3>3. \A k \in items : dated[run.head] <= At(k)
        BY <1>4, <2>3, <2>6
      <3>4. dated[run.head] <= At(r)
        BY <2>3, <2>6
      <3>5. QED
        BY <2>4, <3>1, <3>2, <3>3, <3>4
    <2>7. QED
      BY <2>3, <2>5, <2>6
  <1>11. QED
    BY <1>1, <1>2, <1>6, <1>7, <1>9, <1>10, MovesGood

\* The steps of an invocation forget what they must not use again.
LEMMA AdoptTyped ==
  ASSUME IInv
  PROVE  /\ Adopt \in Run /\ Adopt.request = run.found /\ Adopt.head = run.head
         /\ Adopt.attempts = run.attempts /\ Adopt.eyes = run.eyes /\ Adopt.force = run.force
         /\ Adopt.looping = run.looping
         /\ Adopt.first = run.first /\ Adopt.until = run.until /\ Adopt.got = run.got
  <1>1. 0 \in 0..MaxThread /\ run \in Run
    BY Bounds, RunTyped
  <1>2. run.found \in 0..MaxThread
    BY <1>1 DEF Run
  <1>3. QED
    BY <1>1, <1>2 DEF Adopt, Run

LEMMA ToPollTyped ==
  ASSUME NEW r \in Run
  PROVE  /\ ToPoll(r) \in Run /\ ToPoll(r).pc = "poll" /\ ToPoll(r).head = 0
         /\ ToPoll(r).request = r.request /\ ToPoll(r).first = r.first
         /\ ToPoll(r).until = r.until /\ ToPoll(r).got = r.got
  <1>1. 0 \in 0..MaxHead /\ 0 \in Times
    BY Bounds DEF Times
  <1>2. QED
    BY <1>1 DEF ToPoll, Run

LEMMA ToPostTyped ==
  ASSUME NEW r \in Run
  PROVE  LET p == [r EXCEPT !.pc = "post"] IN
         /\ p \in Run /\ p.pc = "post" /\ p.head = r.head /\ p.attempts = r.attempts
         /\ p.eyes = r.eyes /\ p.force = r.force /\ p.looping = r.looping
         /\ p.first = r.first /\ p.until = r.until /\ p.got = r.got
  BY DEF Run

\* What the reactions make of an inspection.
LEMMA InspectedIs ==
  /\ Inspected # "none" => run.found # 0
  /\ Inspected = "response" =>
        run.items # {} /\ ~HeadIsNewer(run.head, Coverage(run.items, run.head))
  /\ Inspected = "acknowledged" =>
        /\ run.items = {} /\ ~HeadIsNewer(run.head, At(run.found))
        /\ thread[run.found].plus
  /\ Inspected = "none" /\ run.found # 0 =>
        IF run.items # {} THEN HeadIsNewer(run.head, Coverage(run.items, run.head))
        ELSE HeadIsNewer(run.head, At(run.found))
  BY DEF Inspected, Existing

\* Coverage is the time of the last of the answers that count.
LEMMA CoverageIs ==
  ASSUME ThreadGood, NEW items, items \subseteq Items, items # {}, NEW h
  PROVE  /\ Coverage(items, h) \in Times
         /\ \E i \in Covering(items, h) : At(i) = Coverage(items, h)
         /\ \A i \in Covering(items, h) : At(i) <= Coverage(items, h)
         /\ Covering(items, h) \subseteq items
  <1>1. Covering(items, h) \subseteq items /\ Covering(items, h) # {}
    BY DEF Covering
  <1>2. Coverage(items, h) = LastAt(Covering(items, h))
    BY DEF Covering, Coverage
  <1>3. QED
    BY <1>1, <1>2, LastAtIs

\* The invocation goes on to poll.
LEMMA PollsGood ==
  ASSUME IInv, UNCHANGED <<world, report, runs>>, run.pc # "idle", run' \in Run,
         run'.pc = "poll", run'.head = 0, run'.request \in Items,
         run'.first = run.first, run'.until = run.until, run'.got = run.got
  PROVE  IInv'
  <1>1. UNCHANGED <<now, head, pushed, dated, thread>> /\ runs' \in 0..MaxRuns
    BY DEF world, IInv, VarsTyped
  <1>2. RunGood'
    BY <1>1 DEF IInv, RunGood, Looking, Items
  <1>3. VarsTyped'
    BY <1>1 DEF IInv, VarsTyped
  <1>4. GotGood'
    BY <1>3, StillGrows, GotKeeps DEF IInv
  <1>5. ReuseGood'
    BY DEF ReuseGood
  <1>6. QED
    BY <1>1, <1>2, <1>4, <1>5, MovesGood

\* The invocation goes on to post a request.
LEMMA PostsGood ==
  ASSUME IInv, UNCHANGED <<world, report, runs>>, run.pc = "reactions", run' \in Run,
         run'.pc = "post", run'.head = run.head, run'.attempts = run.attempts,
         run'.eyes = run.eyes, run'.force = run.force, run'.looping = run.looping,
         run'.first = run.first, run'.until = run.until, run'.got = run.got,
         run.force \/ run.looping \/ ~AnsweredBefore(run.head)
  PROVE  IInv'
  <1>1. UNCHANGED <<now, head, pushed, dated, thread>> /\ runs' \in 0..MaxRuns
    BY DEF world, IInv, VarsTyped
  <1>2. RunGood'
    BY <1>1 DEF IInv, RunGood, Looking, Items
  <1>3. VarsTyped'
    BY <1>1 DEF IInv, VarsTyped
  <1>4. GotGood'
    BY <1>3, StillGrows, GotKeeps DEF IInv
  <1>5. ReuseGood'
    <2>1. AnsweredBefore(run.head)' <=> AnsweredBefore(run.head)
      BY <1>1 DEF AnsweredBefore, Answers, Requests, Page, At
    <2>2. QED
      BY <2>1 DEF ReuseGood
  <1>6. QED
    BY <1>1, <1>2, <1>4, <1>5, MovesGood

LEMMA InspectWorkingGood ==
  ASSUME IInv, InspectWorking
  PROVE  IInv'
  <1>1. /\ run.pc = "reactions" /\ run.found # 0 /\ UNCHANGED <<world, report, runs>>
        /\ run' = [ToPoll(Adopt) EXCEPT !.eyes = TRUE]
    BY InspectedIs DEF InspectWorking
  <1>2. run.found \in Items
    BY <1>1 DEF IInv, RunGood
  <1>3. /\ run' \in Run /\ run'.pc = "poll" /\ run'.head = 0 /\ run'.request = run.found
        /\ run'.first = run.first /\ run'.until = run.until /\ run'.got = run.got
    <2>1. /\ ToPoll(Adopt) \in Run /\ ToPoll(Adopt).pc = "poll" /\ ToPoll(Adopt).head = 0
          /\ ToPoll(Adopt).request = run.found /\ ToPoll(Adopt).first = run.first
          /\ ToPoll(Adopt).until = run.until /\ ToPoll(Adopt).got = run.got
      BY AdoptTyped, ToPollTyped
    <2>2. QED
      BY <1>1, <2>1 DEF Run
  <1>4. QED
    BY <1>1, <1>2, <1>3, PollsGood

LEMMA InspectActiveGood ==
  ASSUME IInv, InspectActive
  PROVE  IInv'
  <1>1. /\ run.pc = "reactions" /\ run.found # 0 /\ UNCHANGED <<world, report, runs>>
        /\ run' = IF run.looping THEN [Adopt EXCEPT !.pc = "post"] ELSE ToPoll(Adopt)
    BY InspectedIs DEF InspectActive
  <1>2. run.found \in Items
    BY <1>1 DEF IInv, RunGood
  <1>3. CASE run.looping
    <2>1. /\ run' \in Run /\ run'.pc = "post" /\ run'.head = run.head
          /\ run'.attempts = run.attempts /\ run'.eyes = run.eyes /\ run'.force = run.force
          /\ run'.looping = run.looping
          /\ run'.first = run.first /\ run'.until = run.until /\ run'.got = run.got
      BY <1>1, <1>3, AdoptTyped, ToPostTyped
    <2>2. QED
      BY <1>1, <1>3, <2>1, PostsGood
  <1>4. CASE ~run.looping
    <2>1. /\ run' \in Run /\ run'.pc = "poll" /\ run'.head = 0 /\ run'.request = run.found
          /\ run'.first = run.first /\ run'.until = run.until /\ run'.got = run.got
      BY <1>1, <1>4, AdoptTyped, ToPollTyped
    <2>2. QED
      BY <1>1, <1>2, <2>1, PollsGood
  <1>5. QED
    BY <1>3, <1>4

\* An inspection that finds an answer finds one posted since the head was there.
LEMMA InspectAnsweredGood ==
  ASSUME IInv, InspectAnswered
  PROVE  IInv'
  <1>1. /\ run.pc = "reactions" /\ run.found # 0 /\ UNCHANGED <<world, runs>>
        /\ run.items # {} /\ ~HeadIsNewer(run.head, Coverage(run.items, run.head))
        /\ IF run.force THEN run' = [Adopt EXCEPT !.pc = "post"] /\ report' = report
           ELSE End("existing_completed_cycle", run.head, run.found, run.items)
    BY InspectedIs DEF InspectAnswered
  <1>2. /\ run.found \in Items /\ run.items \subseteq Items
        /\ thread[run.found].kind = "request"
        /\ \A i \in run.items : thread[i].commit \in {0, run.head}
        /\ run.head # 0 /\ run.head <= head /\ run.head \in 1..head
    BY <1>1, RunTyped DEF IInv, RunGood, Looking
  <1>3. CASE run.force
    <2>1. /\ run' \in Run /\ run'.pc = "post" /\ run'.head = run.head
          /\ run'.attempts = run.attempts /\ run'.eyes = run.eyes /\ run'.force = run.force
          /\ run'.looping = run.looping
          /\ run'.first = run.first /\ run'.until = run.until /\ run'.got = run.got
      BY <1>1, <1>3, AdoptTyped, ToPostTyped
    <2>2. QED
      BY <1>1, <1>3, <2>1, PostsGood
  <1>4. CASE ~run.force
    <2>1. dated[run.head] = pushed[run.head] => \E i \in run.items : At(i) >= pushed[run.head]
      <3>1. /\ Coverage(run.items, run.head) \in Times
            /\ \E i \in run.items : At(i) = Coverage(run.items, run.head)
        BY <1>1, <1>2, CoverageIs DEF IInv
      <3>2. dated[run.head] \in Times
        BY <1>2, RunTyped, Bounds DEF IInv, VarsTyped, Heads
      <3>3. dated[run.head] <= Coverage(run.items, run.head)
        BY <1>1, <3>1, <3>2, Bounds DEF HeadIsNewer, Times
      <3>4. QED
        BY <3>1, <3>3
    <2>2. run.head \in 0..MaxHead /\ run.found \in 0..MaxThread /\ run.first \in 0..MaxHead
      BY RunTyped DEF Run
    <2>3. QED
      BY <1>1, <1>2, <1>4, <2>1, <2>2, EndGood DEF Statuses
  <1>5. QED
    BY <1>3, <1>4

\* A +1 the bot gave since the head was there is about the head or a later one.
LEMMA InspectAcknowledgedGood ==
  ASSUME IInv, InspectAcknowledged
  PROVE  IInv'
  <1>1. /\ run.pc = "reactions" /\ run.found # 0 /\ UNCHANGED <<world, runs>>
        /\ run.items = {} /\ ~HeadIsNewer(run.head, At(run.found))
        /\ thread[run.found].plus
        /\ End("existing_completed_cycle", run.head, run.found, {})
    BY InspectedIs DEF InspectAcknowledged
  <1>2. /\ run.found \in Items /\ thread[run.found].kind = "request"
        /\ run.head # 0 /\ run.head <= head /\ run.head \in 1..head
    BY <1>1, RunTyped DEF IInv, RunGood, Looking
  <1>3. dated[run.head] = pushed[run.head] => thread[run.found].about >= run.head
    <2>1. dated[run.head] \in Times /\ At(run.found) \in Times
      BY <1>2, RunTyped, Bounds, ItemsTyped DEF IInv, VarsTyped, Heads
    <2>2. dated[run.head] <= At(run.found)
      BY <1>1, <2>1, Bounds DEF HeadIsNewer, Times
    <2>3. thread[run.found].about # 0
      BY <1>1, <1>2 DEF IInv, ThreadGood, CommentGood
    <2>4. pushed[run.head] <= thread[run.found].at => run.head <= thread[run.found].about
      BY <1>2, <2>3 DEF IInv, ThreadGood, CommentGood
    <2>5. thread[run.found].about \in Nat
      BY <1>2, ItemsTyped, Bounds DEF IInv, Comment
    <2>6. QED
      BY <2>2, <2>4, <2>5, RunTyped DEF At
  <1>4. run.head \in 0..MaxHead /\ run.found \in 0..MaxThread /\ run.first \in 0..MaxHead
    BY RunTyped DEF Run
  <1>5. QED
    BY <1>1, <1>2, <1>3, <1>4, EndGood DEF Statuses

\* An inspection that finds nothing was not preceded by an answer to the head.
LEMMA InspectNothingGood ==
  ASSUME IInv, InspectNothing
  PROVE  IInv'
  <1>1. /\ run.pc = "reactions" /\ Inspected = "none" /\ UNCHANGED <<world, report, runs>>
        /\ run' = [run EXCEPT !.pc = "post", !.found = 0, !.items = {}]
    BY DEF InspectNothing
  <1>2. /\ run' \in Run /\ run'.pc = "post" /\ run'.head = run.head
        /\ run'.attempts = run.attempts /\ run'.eyes = run.eyes /\ run'.force = run.force
        /\ run'.looping = run.looping
        /\ run'.first = run.first /\ run'.until = run.until /\ run'.got = run.got
    <2>1. 0 \in 0..MaxThread
      BY Bounds
    <2>2. QED
      BY <1>1, <2>1, RunTyped DEF Run
  <1>3. run.force \/ run.looping \/ ~AnsweredBefore(run.head)
    <2>1. SUFFICES ASSUME ~run.force, ~run.looping, AnsweredBefore(run.head) PROVE FALSE
      OBVIOUS
    <2>2. PICK i \in IF run.items = {} THEN {run.found} ELSE Covering(run.items, run.head) :
            dated[run.head] <= At(i)
      BY <1>1, <2>1 DEF IInv, ReuseGood
    <2>3. run.found # 0 /\ run.found \in Items /\ run.items \subseteq Items /\ run.head \in 1..head
      BY <1>1, <2>1, RunTyped DEF IInv, ReuseGood, RunGood, Looking
    <2>4. dated[run.head] \in Times
      BY <2>3, RunTyped, Bounds DEF IInv, VarsTyped, Heads
    <2>5. CASE run.items = {}
      <3>1. dated[run.head] > At(run.found)
        BY <1>1, <2>3, <2>5, InspectedIs DEF HeadIsNewer
      <3>2. At(run.found) \in Times
        BY <2>3, ItemsTyped DEF IInv
      <3>3. QED
        BY <2>2, <2>4, <2>5, <3>1, <3>2, Bounds DEF Times
    <2>6. CASE run.items # {}
      <3>1. dated[run.head] > Coverage(run.items, run.head)
        BY <1>1, <2>3, <2>6, InspectedIs DEF HeadIsNewer
      <3>2. /\ Coverage(run.items, run.head) \in Times /\ At(i) <= Coverage(run.items, run.head)
            /\ i \in Items
        BY <2>2, <2>3, <2>6, CoverageIs DEF IInv
      <3>3. At(i) \in Times
        BY <3>2, ItemsTyped DEF IInv
      <3>4. QED
        BY <2>2, <2>4, <3>1, <3>2, <3>3, Bounds DEF Times
    <2>7. QED
      BY <2>5, <2>6
  <1>4. QED
    BY <1>1, <1>2, <1>3, PostsGood

LEMMA PostRequestGood ==
  ASSUME IInv, PostRequest
  PROVE  IInv'
  <1>1. /\ run.pc = "post" /\ Len(thread) < MaxThread /\ thread' = Append(thread, Request)
        /\ run' = [run EXCEPT !.pc = "posted", !.attempts = @ + 1, !.polledAt = now]
        /\ UNCHANGED <<now, head, pushed, dated, report, runs>>
    BY DEF PostRequest
  <1>2. ThreadGood' /\ ThreadGrows /\ HeadGrows
    BY <1>1, RequestGood, Appended DEF IInv
  <1>3. run.attempts \in Nat /\ run.attempts < MaxAttempts
    BY <1>1, RunTyped, Bounds DEF IInv, RunGood, Looking, Run
  <1>4. run.attempts + 1 \in 0..MaxAttempts
    BY <1>3, Bounds
  <1>5. /\ run' \in Run /\ run'.pc = "posted" /\ run'.head = run.head /\ run'.eyes = run.eyes
        /\ run'.first = run.first /\ run'.until = run.until /\ run'.got = run.got
    BY <1>1, <1>4, RunTyped DEF Run
  <1>6. VarsTyped'
    BY <1>1, <1>5 DEF IInv, VarsTyped
  <1>7. HeadsGood'
    BY <1>1 DEF IInv, HeadsGood
  <1>8. RunGood'
    BY <1>1, <1>5 DEF IInv, RunGood, Looking
  <1>9. GotGood'
    BY <1>2, <1>5, <1>6, GotKeeps DEF IInv
  <1>10. ReuseGood'
    BY <1>5 DEF ReuseGood
  <1>11. ReportGood'
    BY <1>1, <1>2, <1>6, ReportKeeps DEF IInv
  <1>12. QED
    BY <1>2, <1>6, <1>7, <1>8, <1>9, <1>10, <1>11 DEF IInv

LEMMA ResolveRequestGood ==
  ASSUME IInv, ResolveRequest
  PROVE  IInv'
  <1> DEFINE q == CHOOSE i \in Posted : \A j \in Posted : At(j) <= At(i)
                            /\ (At(j) = At(i) => j <= i)
  <1>1. /\ run.pc = "posted" /\ Posted # {} /\ UNCHANGED <<world, report, runs>>
        /\ run' = [ToPoll(run) EXCEPT !.request = q]
    BY DEF ResolveRequest
  <1>2. q \in Items
    <2>1. Posted \subseteq Items
      BY Readable DEF Posted, IInv
    <2>2. q \in Posted
      BY <1>1, <2>1, ResolvedIs DEF IInv
    <2>3. QED
      BY <2>1, <2>2
  <1> HIDE DEF q
  <1>3. q \in 0..MaxThread
    BY <1>2, ItemsTyped, Bounds DEF IInv
  <1>4. /\ run' \in Run /\ run'.pc = "poll" /\ run'.head = 0 /\ run'.request = q
        /\ run'.first = run.first /\ run'.until = run.until /\ run'.got = run.got
    <2>1. /\ ToPoll(run) \in Run /\ ToPoll(run).pc = "poll" /\ ToPoll(run).head = 0
          /\ ToPoll(run).first = run.first
          /\ ToPoll(run).until = run.until /\ ToPoll(run).got = run.got
      BY RunTyped, ToPollTyped
    <2>2. QED
      BY <1>1, <1>3, <2>1 DEF Run
  <1>5. QED
    BY <1>1, <1>2, <1>4, PollsGood

\* An invocation that gives up says nothing about any head.
LEMMA GivesUpGood ==
  ASSUME IInv, UNCHANGED <<world, runs>>, End("error", 0, 0, {})
  PROVE  IInv'
  <1>1. 0 \in 0..MaxHead /\ 0 \in 0..MaxThread /\ 0 <= head
    BY Bounds, RunTyped
  <1>2. run.first \in 0..MaxHead
    BY RunTyped DEF Run
  <1>3. QED
    BY <1>1, <1>2, EndGood DEF Statuses

LEMMA PollGood ==
  ASSUME IInv, Poll
  PROVE  IInv'
  <1>1. /\ run.pc = "poll" /\ UNCHANGED <<world, report, runs>>
        /\ run' = [run EXCEPT !.pc = "collect", !.polledAt = now, !.head = head,
                              !.eyes = @ \/ thread[run.request].eyes]
    BY DEF Poll
  <1>2. UNCHANGED <<now, head, pushed, dated, thread>> /\ runs' \in 0..MaxRuns
    BY <1>1 DEF world, IInv, VarsTyped
  <1>3. (run.eyes \/ thread[run.request].eyes) \in BOOLEAN
    OBVIOUS
  <1>4. head \in 0..MaxHead
    BY RunTyped, Bounds
  <1>5. /\ run' \in Run /\ run'.pc = "collect" /\ run'.head = head
        /\ run'.request = run.request
        /\ run'.first = run.first /\ run'.until = run.until /\ run'.got = run.got
    BY <1>1, <1>3, <1>4, RunTyped DEF Run
  <1>6. RunGood'
    <2>1. run.first \in 1..head
      BY <1>1 DEF IInv, RunGood
    <2>2. run.first <= head /\ head <= head /\ head # 0
      BY <2>1, RunTyped
    <2>3. QED
      BY <1>1, <1>2, <1>5, <2>1, <2>2 DEF IInv, RunGood, Looking, Items
  <1>7. GotGood'
    <2>1. ASSUME NEW i \in run.got
          PROVE  thread[i].commit = 0
                 \/ (run.first <= thread[i].commit /\ thread[i].commit <= head)
      <3>1. thread[i].commit \in Nat
        BY <2>1, ItemsTyped, Bounds DEF IInv, GotGood, Comment
      <3>2. \/ thread[i].commit = 0
            \/ /\ run.first <= thread[i].commit
               /\ thread[i].commit <= IF run.head # 0 THEN run.head ELSE head
        BY <2>1 DEF IInv, GotGood
      <3>3. run.head = 0 \/ run.head <= head
        BY DEF IInv, RunGood
      <3>4. QED
        BY <3>1, <3>2, <3>3, RunTyped
    <2>2. run.got \subseteq Items /\ head # 0
      BY RunTyped DEF IInv, GotGood
    <2>3. QED
      BY <1>2, <1>5, <2>1, <2>2 DEF GotGood, Items
  <1>8. ReuseGood'
    BY <1>5 DEF ReuseGood
  <1>9. QED
    BY <1>1, <1>2, <1>5, <1>6, <1>7, <1>8, MovesGood

LEMMA TimeOutGood ==
  ASSUME IInv, TimeOut
  PROVE  IInv'
  <1>1. run.pc = "poll" /\ UNCHANGED <<world, runs>> /\ End("timeout", head, run.request, {})
    BY DEF TimeOut
  <1>2. /\ head \in 0..MaxHead /\ head <= head
        /\ run.request \in 0..MaxThread /\ run.first \in 0..MaxHead
    BY RunTyped, Bounds DEF Run
  <1>3. QED
    BY <1>1, <1>2, EndGood DEF Statuses

\* What has been collected names the head of the run's turn, or one between the first
\* and that.
LEMMA CollectedFits ==
  ASSUME IInv, run.pc = "collect"
  PROVE  /\ Collected \subseteq Items
         /\ \A i \in Collected :
                thread[i].commit = 0
                \/ (run.first <= thread[i].commit /\ thread[i].commit <= run.head)
  <1>1. run.head # 0 /\ run.first <= run.head
    BY DEF IInv, RunGood
  <1>2. New \subseteq Items /\ \A i \in New : thread[i].commit \in {0, run.head}
    BY Readable DEF IInv, New, AnswersSince
  <1>3. run.head <= run.head
    BY RunTyped
  <1>4. QED
    BY <1>1, <1>2, <1>3 DEF IInv, GotGood, Collected

LEMMA CollectGood ==
  ASSUME IInv, Collect
  PROVE  IInv'
  <1>1. /\ run.pc = "collect" /\ UNCHANGED <<world, report, runs>>
        /\ run' = [run EXCEPT !.pc = "plus", !.got = Collected,
                              !.lastNew = IF New # {} THEN now ELSE @]
    BY DEF Collect
  <1>2. UNCHANGED <<now, head, pushed, dated, thread>> /\ runs' \in 0..MaxRuns
    BY <1>1 DEF world, IInv, VarsTyped
  <1>3. Collected \in SUBSET (1..MaxThread)
    BY <1>1, CollectedFits, ItemsTyped DEF IInv
  <1>4. (IF New # {} THEN now ELSE run.lastNew) \in Times
    BY RunTyped DEF Run
  <1>5. /\ run' \in Run /\ run'.pc = "plus" /\ run'.head = run.head
        /\ run'.request = run.request /\ run'.got = Collected
        /\ run'.first = run.first /\ run'.until = run.until
    BY <1>1, <1>3, <1>4, RunTyped DEF Run
  <1>6. RunGood'
    BY <1>1, <1>2, <1>5 DEF IInv, RunGood, Looking, Items
  <1>7. GotGood'
    <2>1. run.head # 0
      BY <1>1 DEF IInv, RunGood
    <2>2. QED
      BY <1>1, <1>2, <1>5, <2>1, CollectedFits DEF GotGood, Items
  <1>8. ReuseGood'
    BY <1>5 DEF ReuseGood
  <1>9. QED
    BY <1>1, <1>2, <1>5, <1>6, <1>7, <1>8, MovesGood

LEMMA ResponseFoundGood ==
  ASSUME IInv, ResponseFound
  PROVE  IInv'
  <1>1. /\ run.pc = "collect" /\ UNCHANGED <<world, runs>>
        /\ End("response_found", run.head, run.request, Collected)
    BY DEF ResponseFound
  <1>2. /\ run.head \in 0..MaxHead /\ run.request \in 0..MaxThread /\ run.first \in 0..MaxHead
        /\ run.head <= head
    BY <1>1, RunTyped DEF Run, IInv, RunGood
  <1>3. run.first = run.head => \A i \in Collected : thread[i].commit \in {0, run.head}
    <2>1. ASSUME run.first = run.head, NEW i \in Collected
          PROVE  thread[i].commit \in {0, run.head}
      <3>1. thread[i].commit \in Nat
        BY <1>1, <2>1, CollectedFits, ItemsTyped, Bounds DEF IInv, Comment
      <3>2. QED
        BY <1>1, <2>1, <3>1, CollectedFits, RunTyped
    <2>2. QED
      BY <2>1
  <1>4. QED
    BY <1>1, <1>2, <1>3, CollectedFits, EndGood DEF Statuses

LEMMA AcknowledgedGood ==
  ASSUME IInv, Acknowledged
  PROVE  IInv'
  <1>1. /\ run.pc = "plus" /\ UNCHANGED <<world, runs>>
        /\ End("acknowledged_without_body", run.head, run.request, {})
    BY DEF Acknowledged
  <1>2. /\ run.head \in 0..MaxHead /\ run.request \in 0..MaxThread /\ run.first \in 0..MaxHead
        /\ run.head <= head
    BY <1>1, RunTyped DEF Run, IInv, RunGood
  <1>3. QED
    BY <1>1, <1>2, EndGood DEF Statuses

LEMMA LookAgainGood ==
  ASSUME IInv, LookAgain
  PROVE  IInv'
  <1>1. /\ run.pc = "plus" /\ ~run.eyes /\ run.attempts < MaxAttempts
        /\ UNCHANGED <<world, report, runs>>
        /\ run' = [run EXCEPT !.pc = "inspect", !.looping = TRUE]
    BY DEF LookAgain, PickupOverdue
  <1>2. UNCHANGED <<now, head, pushed, dated, thread>> /\ runs' \in 0..MaxRuns
    BY <1>1 DEF world, IInv, VarsTyped
  <1>3. /\ run' \in Run /\ run'.pc = "inspect" /\ run'.head = run.head /\ run'.looping
        /\ run'.attempts = run.attempts /\ run'.eyes = run.eyes
        /\ run'.first = run.first /\ run'.until = run.until /\ run'.got = run.got
    BY <1>1, RunTyped DEF Run
  <1>4. RunGood'
    BY <1>1, <1>2, <1>3 DEF IInv, RunGood, Looking, Items
  <1>5. VarsTyped'
    BY <1>2, <1>1, <1>3 DEF IInv, VarsTyped
  <1>6. GotGood'
    BY <1>1, <1>3, <1>5, StillGrows, GotKeeps DEF IInv
  <1>7. ReuseGood'
    BY <1>3 DEF ReuseGood
  <1>8. QED
    BY <1>1, <1>2, <1>3, <1>4, <1>6, <1>7, MovesGood

LEMMA SleepGood ==
  ASSUME IInv, Sleep
  PROVE  IInv'
  <1>1. run.pc = "plus" /\ UNCHANGED <<world, report, runs>> /\ run' = ToPoll(run)
    BY DEF Sleep
  <1>2. run.request \in Items
    BY <1>1 DEF IInv, RunGood
  <1>3. QED
    BY <1>1, <1>2, RunTyped, ToPollTyped, PollsGood

-----------------------------------------------------------------------------
(* The invariant, and what follows from it                                  *)

LEMMA InitGood ==
  ASSUME Init
  PROVE  IInv
  <1>1. /\ now = 0 /\ head = 1 /\ thread = <<>> /\ run = Idle /\ report = NoReport /\ runs = 0
        /\ pushed = [h \in Heads |-> 0] /\ dated = [h \in Heads |-> 0]
    BY DEF Init
  <1>2. VarsTyped
    BY <1>1, IdleTyped, Bounds DEF VarsTyped, Times, Heads
  <1>3. HeadsGood
    BY <1>1, Bounds DEF HeadsGood, Heads
  <1>4. thread \in Seq(Comment) /\ Len(thread) = 0 /\ Items = {}
    BY <1>1, EmptySeq DEF Items
  <1>5. ThreadGood
    BY <1>4, Bounds DEF ThreadGood
  <1>6. RunGood /\ GotGood /\ ReuseGood
    BY <1>1, IdleTyped DEF RunGood, GotGood, ReuseGood, Looking
  <1>7. ReportGood
    BY <1>1 DEF ReportGood, ReportFitsHead, NoReport
  <1>8. QED
    BY <1>2, <1>3, <1>5, <1>6, <1>7 DEF IInv

LEMMA StepGood ==
  ASSUME IInv, [Next]_vars
  PROVE  IInv'
  <1>1. CASE UNCHANGED vars
    <2>1. UNCHANGED world /\ UNCHANGED <<now, head, pushed, dated, thread, run, report, runs>>
      BY <1>1 DEF vars, world
    <2>2. VarsTyped'
      BY <2>1 DEF IInv, VarsTyped
    <2>3. WorldGrows
      BY <2>1, <2>2, StillGrows DEF IInv, WorldGrows
    <2>4. QED
      BY <2>3, WorldKeeps
  <1>2. CASE Bot \/ OtherRequest \/ Push \/ Tick
    BY <1>2, WorldGrown, WorldKeeps DEF IInv
  <1>3. CASE RequestNotFound \/ GhFails
    BY <1>3, GivesUpGood DEF RequestNotFound, GhFails
  <1>4. CASE Invocation
    BY <1>3, <1>4, InspectThreadGood, InspectWorkingGood, InspectActiveGood,
       InspectAnsweredGood, InspectAcknowledgedGood, InspectNothingGood, PostRequestGood,
       ResolveRequestGood, PollGood, TimeOutGood, CollectGood, ResponseFoundGood,
       AcknowledgedGood, LookAgainGood, SleepGood DEF Invocation
  <1>5. QED
    BY <1>1, <1>2, <1>3, <1>4, StartGood DEF Next

\* review_github.py: in every reachable state the thread, the heads, what the
\* invocation has read and what it reported fit together as IInv says.
THEOREM GithubInvariant == Spec => []IInv
  <1>1. Init => IInv
    BY InitGood
  <1>2. IInv /\ [Next]_vars => IInv'
    BY StepGood
  <1>3. QED
    BY <1>1, <1>2, PTL DEF Spec

\* The variables keep their types, the thread its bound, and an invocation posts no
\* more than MaxAttempts requests, whatever other callers and the bot do.
THEOREM GithubTypeOK == Spec => []TypeOK
  <1>1. IInv => TypeOK
    BY ItemsTyped DEF IInv, VarsTyped, ThreadGood, TypeOK, Items
  <1>2. QED
    BY <1>1, GithubInvariant, PTL

\* run_review_cycle, inspect_existing_cycle: a report on a head that did not move
\* meanwhile holds no answer that names another commit, and what was found already
\* there is no older than the head.
THEOREM GithubReportFits == Spec => []ReportFitsHead
  <1>1. IInv => ReportFitsHead
    BY DEF IInv, ReportGood
  <1>2. QED
    BY <1>1, GithubInvariant, PTL

\* run_review_cycle: a run that has seen the bot look at a request never posts again.
THEOREM GithubNoRequestOnceSeen == Spec => NoRequestOnceSeen
  <1>1. IInv => [run.eyes => ~PostRequest]_vars
    BY DEF IInv, RunGood, Looking, PostRequest
  <1>2. QED
    BY <1>1, GithubInvariant, PTL DEF NoRequestOnceSeen

\* inspect_existing_cycle: an unforced run never asks for what was answered, readably
\* and by name, before it began.
THEOREM GithubAnsweredReused == Spec => AnsweredIsReused
  <1>1. IInv => [~run.force /\ ~run.looping /\ AnsweredBefore(run.head) => ~PostRequest]_vars
    BY DEF IInv, ReuseGood, PostRequest
  <1>2. QED
    BY <1>1, GithubInvariant, PTL DEF AnsweredIsReused

==================================================================================
