------------------------- MODULE ScheduleStoreProofs -------------------------
(***************************************************************************)
(* What the transactions of the schedule store keep true of a job and its  *)
(* rows, for any schedule, limits, settings and order of edits, claims,    *)
(* outcomes and recoveries: one live row, limits and decisions that hold,  *)
(* misses that stay catchable, and rows that move as RunLedger says.  When *)
(* an update that restarts the timing collects in no time, an occurrence   *)
(* starts once and one that was paused does not start.  When all calls do, *)
(* and scheduling is not switched on during a claim, what the schedule     *)
(* queued starts in its window.                                            *)
(*                                                                         *)
(* An operator of a transaction is described by what it does to the rows,  *)
(* first whatever dates and counts it writes (Follows), then with the      *)
(* occurrences the rows stand for (Tracked), and last with the time at     *)
(* which a row may start (Timely); an action is a chain of them.           *)
(***************************************************************************)
EXTENDS ScheduleStore, SequenceTheorems, FiniteSetTheorems, TLAPS, WellFoundedInduction

\* The fields of the records: what they hold is left open but for what the properties need.
RowFields == {"status", "source", "first", "last", "count", "current", "link", "decision", "host",
              "started", "due"}
JobFields == {"schedule", "next", "enabled", "deleted", "catchUp", "decisionRequired", "endAt",
              "maxRuns", "runCount", "stop"}
IsRow(r) == r = [f \in RowFields |-> r[f]] /\ r.status \in Statuses /\ r.started \in BOOLEAN
IsJob(j) ==
  j = [f \in JobFields |-> j[f]] /\ j.runCount \in Nat /\ j.maxRuns \in RunLimits
Values(s) == {s[i] : i \in DOMAIN s}
Listed(s) == s \in Seq(Values(s))

Shape(d) ==
  /\ d = [f \in {"job", "runs", "on", "beat"} |-> d[f]]
  /\ IsJob(d.job) /\ Listed(d.runs)
  /\ \A i \in DOMAIN d.runs : IsRow(d.runs[i])

\* The unique index one_live_run.
OneLive(d) == \A i, k \in LiveRows(d) : i = k

\* What is queued has not started, and waits for no other run.
QueuedIsNew(d) == \A i \in DOMAIN d.runs :
  d.runs[i].status = "pending" => ~d.runs[i].started /\ d.runs[i].link = 0

\* A miss waits for no cancelled run, unless it is one of those being cancelled now.
LinkedBut(d, queued) == \A i \in DOMAIN d.runs :
  d.runs[i].status = "missed" =>
    \/ d.runs[i].link = 0 \/ d.runs[i].link \in queued
    \/ d.runs[i].link \in DOMAIN d.runs /\ d.runs[d.runs[i].link].status # "cancelled"

Rowed(d) == Shape(d) /\ OneLive(d) /\ QueuedIsNew(d)
Sane(d) == Rowed(d) /\ LinkedBut(d, {})

\* What a transaction other than a claim, an outcome or a recovery does to the rows: it
\* appends, misses and cancels.
Evolves(d, e) ==
  /\ DOMAIN d.runs \subseteq DOMAIN e.runs
  /\ \A i \in DOMAIN d.runs :
       /\ e.runs[i].started = d.runs[i].started
       /\ \/ e.runs[i].status = d.runs[i].status
          \/ d.runs[i].status = "pending" /\ e.runs[i].status \in {"missed", "cancelled"}
  /\ \A i \in DOMAIN e.runs \ DOMAIN d.runs :
       /\ e.runs[i].status \in {"pending", "missed", "failed", "cancelled"}
       /\ ~e.runs[i].started

\* It may stop the job, and leaves its limits to the operators.
JobKept(d, e) ==
  /\ e.job.maxRuns = d.job.maxRuns /\ e.job.runCount = d.job.runCount
  /\ e.job.decisionRequired = d.job.decisionRequired /\ e.job.deleted = d.job.deleted
  /\ e.job.enabled => d.job.enabled

Follows(d, e) == Sane(e) /\ Evolves(d, e) /\ JobKept(d, e)
-----------------------------------------------------------------------------
(* Rows *)

LEMMA Appended ==
  ASSUME NEW s, Listed(s), NEW row, NEW t, t = Append(s, row)
  PROVE  /\ Listed(t) /\ Len(s) \in Nat /\ Len(t) = Len(s) + 1
         /\ DOMAIN s = 1 .. Len(s) /\ DOMAIN t = 1 .. Len(t)
         /\ t[Len(t)] = row /\ \A i \in DOMAIN s : t[i] = s[i]
<1> DEFINE S == Values(s) \cup {row}
<1>1. s \in Seq(S) /\ row \in S
  BY SeqMonotonic DEF Listed
<1>2. /\ t \in Seq(S) /\ Len(t) = Len(s) + 1 /\ t[Len(s) + 1] = row
      /\ \A i \in 1 .. Len(s) : t[i] = s[i]
  BY <1>1, AppendProperties
<1> QED  BY <1>1, <1>2, LenProperties DEF Listed, Values

LEMMA Mapped ==
  ASSUME NEW s, Listed(s), NEW t, t = [i \in DOMAIN s |-> t[i]]
  PROVE  Listed(t) /\ Len(t) = Len(s) /\ DOMAIN t = DOMAIN s
<1>1. DOMAIN s = 1 .. Len(s) /\ Len(s) \in Nat
  BY LenProperties DEF Listed
<1>2. t \in [1 .. Len(s) -> Values(t)]
  BY <1>1 DEF Values
<1>3. t \in Seq(Values(t))
  BY <1>1, <1>2, SeqDef
<1> QED  BY <1>1, <1>3, LenProperties DEF Listed

LEMMA Numbered ==
  ASSUME NEW d, Shape(d)
  PROVE  DOMAIN d.runs = 1 .. Len(d.runs) /\ Len(d.runs) \in Nat
BY LenProperties DEF Shape, Listed

\* The live run, if there is one.
LEMMA ActiveRun ==
  ASSUME NEW d, Rowed(d)
  PROVE  /\ Active(d) = 0 <=> LiveRows(d) = {}
         /\ Active(d) # 0 => Active(d) \in DOMAIN d.runs /\ LiveRows(d) = {Active(d)}
<1>1. 0 \notin LiveRows(d) /\ LiveRows(d) \subseteq DOMAIN d.runs
  BY Numbered DEF Rowed, LiveRows
<1>2. LiveRows(d) # {} => Active(d) \in LiveRows(d)
  BY DEF Active
<1>3. LiveRows(d) = {} => Active(d) = 0
  BY DEF Active
<1> QED  BY <1>1, <1>2, <1>3 DEF Rowed, OneLive

LEMMA EvolvesOn ==
  ASSUME NEW c, NEW d, NEW e, Follows(c, d), Follows(d, e) PROVE Follows(c, e)
<1>1. Evolves(c, e)
  BY DEF Follows, Evolves
<1> QED  BY <1>1 DEF Follows, JobKept

LEMMA Itself == ASSUME NEW d, Sane(d) PROVE Follows(d, d)
BY DEF Follows, Evolves, JobKept

LEMMA NewRows ==
  ASSUME NEW status \in Statuses, NEW source, NEW first, NEW last, NEW count, NEW due
  PROVE  LET r == NewRow(status, source, first, last, count, due)
         IN IsRow(r) /\ r.status = status /\ ~r.started /\ r.link = 0
BY DEF NewRow, IsRow, RowFields

\* A row is appended; it is live only if no other is.
LEMMA Inserts ==
  ASSUME NEW d, NEW queued, Rowed(d), LinkedBut(d, queued), NEW row, IsRow(row), ~row.started,
         row.link = 0,
         row.status \in {"pending", "missed", "failed"},
         row.status = "pending" => LiveRows(d) = {}
  PROVE  LET e == InsertRun(d, row)
         IN /\ Rowed(e) /\ LinkedBut(e, queued) /\ Evolves(d, e) /\ e.job = d.job
            /\ DOMAIN e.runs = 1 .. Len(d.runs) + 1 /\ e.runs[Len(d.runs) + 1] = row
            /\ \A i \in DOMAIN d.runs : e.runs[i] = d.runs[i]
            /\ Len(e.runs) = Len(d.runs) + 1
<1> DEFINE e == InsertRun(d, row)
<1>1. /\ e = [f \in {"job", "runs", "on", "beat"} |-> e[f]] /\ e.job = d.job
      /\ e.runs = Append(d.runs, row)
  BY DEF InsertRun, Rowed, Shape
<1>2. /\ Listed(e.runs) /\ Len(d.runs) \in Nat /\ Len(e.runs) = Len(d.runs) + 1
      /\ DOMAIN d.runs = 1 .. Len(d.runs) /\ DOMAIN e.runs = 1 .. Len(d.runs) + 1
      /\ e.runs[Len(d.runs) + 1] = row /\ \A i \in DOMAIN d.runs : e.runs[i] = d.runs[i]
  BY <1>1, Appended DEF Rowed, Shape
<1> HIDE DEF e
<1>3. DOMAIN e.runs = DOMAIN d.runs \cup {Len(d.runs) + 1} /\ Len(d.runs) + 1 \notin DOMAIN d.runs
  BY <1>2
<1>4. Shape(e)
  BY <1>1, <1>2, <1>3 DEF Rowed, Shape
<1>5. OneLive(e)
  BY <1>2, <1>3 DEF Rowed, OneLive, LiveRows, Live
<1>6. QueuedIsNew(e)
  BY <1>2, <1>3 DEF Rowed, QueuedIsNew
<1>7. LinkedBut(e, queued)
  BY <1>2, <1>3 DEF LinkedBut
<1>8. Evolves(d, e)
  BY <1>2, <1>3 DEF Evolves
<1> QED  BY <1>1, <1>2, <1>4, <1>5, <1>6, <1>7, <1>8 DEF Rowed, e

\* The rows are rewritten: queued ones are missed or cancelled, the others stay what they are.
LEMMA Rewrites ==
  ASSUME NEW d, Rowed(d), NEW e, e = [f \in {"job", "runs", "on", "beat"} |-> e[f]],
         IsJob(e.job), e.runs = [i \in DOMAIN d.runs |-> e.runs[i]],
         \A i \in DOMAIN d.runs :
           /\ IsRow(e.runs[i]) /\ e.runs[i].started = d.runs[i].started
           /\ d.runs[i].status = "pending" => e.runs[i].link = d.runs[i].link
           /\ \/ e.runs[i].status = d.runs[i].status
              \/ d.runs[i].status = "pending" /\ e.runs[i].status \in {"missed", "cancelled"}
  PROVE  Rowed(e) /\ Evolves(d, e) /\ DOMAIN e.runs = DOMAIN d.runs /\ Len(e.runs) = Len(d.runs)
<1>1. Listed(e.runs) /\ DOMAIN e.runs = DOMAIN d.runs /\ Len(e.runs) = Len(d.runs)
  BY Mapped DEF Rowed, Shape
<1>2. Shape(e)
  BY <1>1 DEF Shape
<1>3. OneLive(e)
  BY <1>1 DEF Rowed, OneLive, LiveRows, Live
<1>4. QueuedIsNew(e)
  BY <1>1 DEF Rowed, QueuedIsNew
<1>5. Evolves(d, e)
  BY <1>1 DEF Evolves
<1> QED  BY <1>1, <1>2, <1>3, <1>4, <1>5 DEF Rowed
-----------------------------------------------------------------------------
(* The operators of a transaction *)

\* Only the job is written.
LEMMA JobWritten ==
  ASSUME NEW d, Sane(d), NEW e, e = [f \in {"job", "runs", "on", "beat"} |-> e[f]],
         e.runs = d.runs, IsJob(e.job), JobKept(d, e)
  PROVE  Follows(d, e)
<1>1. Sane(e)
  BY DEF Sane, Rowed, Shape, OneLive, LiveRows, QueuedIsNew, LinkedBut
<1> QED  BY <1>1 DEF Follows, Evolves

LEMMA Cancels ==
  ASSUME NEW d, NEW queued, Rowed(d), LinkedBut(d, queued), queued \subseteq DOMAIN d.runs,
         \A i \in queued : d.runs[i].status \in {"pending", "cancelled"}
  PROVE  LET e == Cancel(d, queued)
         IN /\ Sane(e) /\ Evolves(d, e) /\ e.job = d.job /\ DOMAIN e.runs = DOMAIN d.runs
            /\ Len(e.runs) = Len(d.runs)
<1> DEFINE e == Cancel(d, queued)
<1>1. /\ e = [f \in {"job", "runs", "on", "beat"} |-> e[f]] /\ e.job = d.job
      /\ e.runs = [i \in DOMAIN d.runs |->
           IF i \in queued THEN [d.runs[i] EXCEPT !.status = "cancelled"]
           ELSE IF d.runs[i].status = "missed" /\ d.runs[i].link \in queued
           THEN [d.runs[i] EXCEPT !.link = 0] ELSE d.runs[i]]
  BY DEF Cancel, Rowed, Shape
<1> HIDE DEF e
<1>2. ASSUME NEW i \in DOMAIN d.runs
      PROVE  /\ IsRow(e.runs[i]) /\ e.runs[i].started = d.runs[i].started
             /\ e.runs[i].status = IF i \in queued THEN "cancelled" ELSE d.runs[i].status
             /\ e.runs[i].link = IF /\ i \notin queued
                                    /\ d.runs[i].status = "missed" /\ d.runs[i].link \in queued
                                 THEN 0 ELSE d.runs[i].link
  BY <1>1 DEF Rowed, Shape, IsRow, RowFields, Statuses
<1>3. IsJob(e.job) /\ e.runs = [i \in DOMAIN d.runs |-> e.runs[i]]
  BY <1>1 DEF Rowed, Shape
<1>4. Rowed(e) /\ Evolves(d, e) /\ DOMAIN e.runs = DOMAIN d.runs /\ Len(e.runs) = Len(d.runs)
  BY <1>1, <1>2, <1>3, Rewrites
<1>5. LinkedBut(e, {})
  BY <1>2, <1>4 DEF LinkedBut
<1> QED  BY <1>1, <1>4, <1>5 DEF Sane, e

LEMMA Stops ==
  ASSUME NEW d, Sane(d), NEW reason
  PROVE  LET e == StopJob(d, reason)
         IN /\ Follows(d, e) /\ ~e.job.enabled
            /\ DOMAIN e.runs = DOMAIN d.runs /\ Len(e.runs) = Len(d.runs)
<1> DEFINE c == Cancel(d, Pending(d))
           e == StopJob(d, reason)
<1>1. Pending(d) \subseteq DOMAIN d.runs /\ \A i \in Pending(d) : d.runs[i].status = "pending"
  BY DEF Pending
<1>2. Rowed(d) /\ LinkedBut(d, Pending(d))
  BY DEF Sane, LinkedBut
<1>3. /\ Sane(c) /\ Evolves(d, c) /\ c.job = d.job /\ DOMAIN c.runs = DOMAIN d.runs
      /\ Len(c.runs) = Len(d.runs)
  BY <1>1, <1>2, Cancels
<1>4. e = [c EXCEPT !.job.enabled = FALSE, !.job.next = None, !.job.stop = reason]
  BY DEF StopJob
<1> HIDE DEF c, e
<1>5. /\ e = [f \in {"job", "runs", "on", "beat"} |-> e[f]] /\ e.runs = c.runs
      /\ e.job = [c.job EXCEPT !.enabled = FALSE, !.next = None, !.stop = reason]
  BY <1>3, <1>4 DEF Sane, Rowed, Shape
<1>6. /\ IsJob(e.job) /\ ~e.job.enabled /\ JobKept(c, e)
  BY <1>3, <1>5 DEF Sane, Rowed, Shape, IsJob, JobFields, JobKept
<1>7. Follows(c, e)
  BY <1>3, <1>5, <1>6, JobWritten
<1>8. Follows(d, c)
  BY <1>3 DEF Follows, JobKept
<1>9. Follows(d, e)
  BY <1>7, <1>8, EvolvesOn
<1> QED  BY <1>3, <1>5, <1>6, <1>9 DEF e

LEMMA AgesOut == ASSUME NEW d, Sane(d), NEW t PROVE Follows(d, AgeOut(d, t))
<1> DEFINE e == AgeOut(d, t)
           a == Active(d)
<1>1. CASE e = d
  BY <1>1, Itself
<1>2. CASE e # d
  <2>1. /\ ActiveIs(d, {"pending"}, {"schedule"})
        /\ e = [d EXCEPT !.runs[a].status = "missed"]
    BY <1>2 DEF AgeOut
  <2>2. a \in DOMAIN d.runs /\ d.runs[a].status = "pending"
    BY <2>1, ActiveRun DEF ActiveIs, Sane
  <2>3. /\ e = [f \in {"job", "runs", "on", "beat"} |-> e[f]] /\ e.job = d.job
        /\ e.runs = [d.runs EXCEPT ![a] = [d.runs[a] EXCEPT !.status = "missed"]]
    BY <2>1 DEF Sane, Rowed, Shape
  <2> HIDE DEF e, a
  <2>4. ASSUME NEW i \in DOMAIN d.runs
        PROVE  /\ IsRow(e.runs[i]) /\ e.runs[i].started = d.runs[i].started
               /\ e.runs[i].link = d.runs[i].link
               /\ e.runs[i].status = IF i = a THEN "missed" ELSE d.runs[i].status
    BY <2>2, <2>3 DEF Sane, Rowed, Shape, IsRow, RowFields, Statuses
  <2>5. e.runs = [i \in DOMAIN d.runs |-> e.runs[i]] /\ IsJob(e.job)
    BY <2>3 DEF Sane, Rowed, Shape
  <2>6. Rowed(e) /\ Evolves(d, e) /\ DOMAIN e.runs = DOMAIN d.runs
    BY <2>2, <2>3, <2>4, <2>5, Rewrites DEF Sane
  <2>7. LinkedBut(e, {})
    BY <2>2, <2>4, <2>6 DEF LinkedBut, Sane, Rowed, QueuedIsNew
  <2> QED  BY <2>3, <2>6, <2>7 DEF Follows, JobKept, Sane, e
<1> QED  BY <1>1, <1>2

LEMMA NextWritten ==
  ASSUME NEW d, Sane(d), NEW next, NEW e, e = [d EXCEPT !.job.next = next]
  PROVE  Follows(d, e) /\ e.runs = d.runs
<1>1. /\ e = [f \in {"job", "runs", "on", "beat"} |-> e[f]] /\ e.runs = d.runs
      /\ e.job = [d.job EXCEPT !.next = next]
  BY DEF Sane, Rowed, Shape
<1>2. IsJob(e.job) /\ JobKept(d, e)
  BY <1>1 DEF Sane, Rowed, Shape, IsJob, JobFields, JobKept
<1> QED  BY <1>1, <1>2, JobWritten

LEMMA ClosesWindow == ASSUME NEW d, Sane(d) PROVE Follows(d, CloseWindow(d))
BY Itself, NextWritten DEF CloseWindow
\* Dates, counts or the source of a row are written.
LEMMA RowWritten ==
  ASSUME NEW d, Sane(d), NEW k \in DOMAIN d.runs, NEW row, IsRow(row), row.link = d.runs[k].link,
         row.status = d.runs[k].status, row.started = d.runs[k].started,
         NEW e, e = [d EXCEPT !.runs[k] = row]
  PROVE  Follows(d, e) /\ DOMAIN e.runs = DOMAIN d.runs
<1>1. /\ e = [f \in {"job", "runs", "on", "beat"} |-> e[f]] /\ e.job = d.job
      /\ e.runs = [d.runs EXCEPT ![k] = row]
  BY DEF Sane, Rowed, Shape
<1>2. ASSUME NEW i \in DOMAIN d.runs
      PROVE  /\ IsRow(e.runs[i]) /\ e.runs[i].started = d.runs[i].started
             /\ e.runs[i].link = d.runs[i].link /\ e.runs[i].status = d.runs[i].status
  BY <1>1 DEF Sane, Rowed, Shape
<1>3. e.runs = [i \in DOMAIN d.runs |-> e.runs[i]] /\ IsJob(e.job)
  BY <1>1 DEF Sane, Rowed, Shape
<1>4. Rowed(e) /\ Evolves(d, e) /\ DOMAIN e.runs = DOMAIN d.runs
  BY <1>1, <1>2, <1>3, Rewrites DEF Sane
<1>5. LinkedBut(e, {})
  BY <1>2, <1>4 DEF LinkedBut, Sane
<1> QED  BY <1>1, <1>4, <1>5 DEF Follows, JobKept, Sane

\* Misses are given to a run that takes them.
LEMMA Linked ==
  ASSUME NEW d, Sane(d),
         NEW missed, \A i \in missed : i \in DOMAIN d.runs /\ d.runs[i].status = "missed",
         NEW k \in DOMAIN d.runs, d.runs[k].status # "cancelled",
         NEW e, e = LinkTo(d, missed, k)
  PROVE  Follows(d, e) /\ DOMAIN e.runs = DOMAIN d.runs
<1>1. /\ e = [f \in {"job", "runs", "on", "beat"} |-> e[f]] /\ e.job = d.job
      /\ e.runs = [i \in DOMAIN d.runs |->
                     IF i \in missed THEN [d.runs[i] EXCEPT !.link = k] ELSE d.runs[i]]
  BY DEF LinkTo, Sane, Rowed, Shape
<1>2. ASSUME NEW i \in DOMAIN d.runs
      PROVE  /\ IsRow(e.runs[i]) /\ e.runs[i].started = d.runs[i].started
             /\ e.runs[i].link = IF i \in missed THEN k ELSE d.runs[i].link
             /\ e.runs[i].status = d.runs[i].status
  BY <1>1 DEF Sane, Rowed, Shape, IsRow, RowFields
<1>3. e.runs = [i \in DOMAIN d.runs |-> e.runs[i]] /\ IsJob(e.job)
  BY <1>1 DEF Sane, Rowed, Shape
<1>4. Rowed(e) /\ Evolves(d, e) /\ DOMAIN e.runs = DOMAIN d.runs
  BY <1>1, <1>2, <1>3, Rewrites DEF Sane
<1>5. LinkedBut(e, {})
  BY <1>2, <1>4 DEF LinkedBut, Sane
<1> QED  BY <1>1, <1>4, <1>5 DEF Follows, JobKept, Sane

\* The misses go to the queued run, or to a new one if no run is live.
LEMMA CoalescesInto ==
  ASSUME NEW d, Sane(d), NEW source, NEW missed,
         \A i \in missed : i \in DOMAIN d.runs /\ d.runs[i].status = "missed", NEW k,
         \/ k = Len(d.runs) + 1 /\ LiveRows(d) = {}
         \/ k \in DOMAIN d.runs /\ d.runs[k].status = "pending"
  PROVE  LET e == CoalesceInto(d, source, missed, k) IN Follows(d, e) /\ k \in DOMAIN e.runs
<1> DEFINE e == CoalesceInto(d, source, missed, k)
           first == Min({d.runs[i].first : i \in missed})
           last == Max({d.runs[i].last : i \in missed})
           count == Occurrences(d, missed)
           due == UNION {d.runs[i].due : i \in missed}
           new == NewRow("pending", source, first, last, count, due)
           old == Grown(d.runs[k], source, first, last, count, due)
<1>1. DOMAIN d.runs = 1 .. Len(d.runs) /\ Len(d.runs) \in Nat
  BY Numbered DEF Sane, Rowed
<1>2. ASSUME NEW g, Follows(d, g), k \in DOMAIN g.runs, g.runs[k].status = "pending",
             e = LinkTo(g, missed, k)
      PROVE  Follows(d, e) /\ k \in DOMAIN e.runs
  <2> HIDE DEF e
  <2>1. \A i \in missed : i \in DOMAIN g.runs /\ g.runs[i].status = "missed"
    BY <1>2 DEF Follows, Evolves
  <2>2. Follows(g, e) /\ DOMAIN e.runs = DOMAIN g.runs
    BY <1>2, <2>1, Linked DEF Follows
  <2> QED  BY <1>2, <2>2, EvolvesOn
<1>3. CASE k = Len(d.runs) + 1 /\ LiveRows(d) = {}
  <2> DEFINE g == InsertRun(d, new)
  <2>1. IsRow(new) /\ new.status = "pending" /\ ~new.started /\ new.link = 0
    BY NewRows DEF Statuses
  <2>2. e = LinkTo(g, missed, k)
    BY <1>1, <1>3 DEF CoalesceInto
  <2> HIDE DEF e, new
  <2>3. /\ Rowed(g) /\ LinkedBut(g, {}) /\ Evolves(d, g) /\ g.job = d.job
        /\ DOMAIN g.runs = 1 .. Len(d.runs) + 1 /\ g.runs[Len(d.runs) + 1] = new
    BY <1>3, <2>1, Inserts DEF Sane
  <2> HIDE DEF g
  <2>4. Follows(d, g) /\ k \in DOMAIN g.runs /\ g.runs[k].status = "pending"
    BY <1>1, <1>3, <2>1, <2>3 DEF Follows, Sane, JobKept
  <2> QED  BY <1>2, <2>2, <2>4 DEF e
<1>4. CASE k \in DOMAIN d.runs /\ d.runs[k].status = "pending"
  <2> DEFINE g == [d EXCEPT !.runs[k] = old]
  <2>1. e = LinkTo(g, missed, k)
    BY <1>1, <1>4 DEF CoalesceInto
  <2>2. IsRow(d.runs[k])
    BY <1>4 DEF Sane, Rowed, Shape
  <2>3. /\ IsRow(old) /\ old.link = d.runs[k].link /\ old.status = d.runs[k].status
        /\ old.started = d.runs[k].started
    BY <2>2 DEF Grown, IsRow, RowFields
  <2> HIDE DEF e, old
  <2>4. Follows(d, g) /\ DOMAIN g.runs = DOMAIN d.runs
    BY <1>4, <2>3, RowWritten
  <2>5. g.runs[k] = old
    BY <1>4 DEF Sane, Rowed, Shape
  <2> HIDE DEF g
  <2> QED  BY <1>2, <1>4, <2>1, <2>3, <2>4, <2>5 DEF e
<1> QED  BY <1>3, <1>4

LEMMA Coalesces ==
  ASSUME NEW d, Sane(d), NEW source
  PROVE  LET e == Coalesce(d, source)
         IN Follows(d, e) /\ (Target(d) # 0 => Target(d) \in DOMAIN e.runs)
<1>1. CASE Target(d) = 0
  BY <1>1, Itself DEF Coalesce
<1>2. CASE Target(d) # 0
  <2>1. \/ Target(d) = Len(d.runs) + 1 /\ Active(d) = 0
        \/ Target(d) = Active(d) /\ Active(d) # 0 /\ ActiveIs(d, {"pending"}, Catchable)
    BY <1>2 DEF Target
  <2>2. \/ Target(d) = Len(d.runs) + 1 /\ LiveRows(d) = {}
        \/ Target(d) \in DOMAIN d.runs /\ d.runs[Target(d)].status = "pending"
    BY <2>1, ActiveRun DEF Sane, ActiveIs
  <2>3. \A i \in Misses(d) : i \in DOMAIN d.runs /\ d.runs[i].status = "missed"
    BY DEF Misses
  <2>4. LET e == CoalesceInto(d, source, Misses(d), Target(d))
        IN Follows(d, e) /\ Target(d) \in DOMAIN e.runs
    BY <2>2, <2>3, CoalescesInto
  <2> QED  BY <1>2, <2>4 DEF Coalesce
<1> QED  BY <1>1, <1>2

\* The misses of a collection are one row, which is not live.
LEMMA Records ==
  ASSUME NEW d, Sane(d), NEW missed, NEW next
  PROVE  LET e == Recorded(d, missed, next)
         IN Follows(d, e) /\ (LiveRows(d) = {} => LiveRows(e) = {})
<1> DEFINE row == NewRow("missed", "schedule", Min(missed), Max(missed), Cardinality(missed),
                         missed)
           c == IF missed = {} THEN d ELSE InsertRun(d, row)
           e == Recorded(d, missed, next)
<1>1. Follows(d, c) /\ (LiveRows(d) = {} => LiveRows(c) = {})
  <2>1. CASE missed = {}
    BY <2>1, Itself
  <2>2. CASE missed # {}
    <3>1. IsRow(row) /\ row.status = "missed" /\ ~row.started /\ row.link = 0
      BY NewRows DEF Statuses
    <3> HIDE DEF row
    <3>2. /\ Rowed(c) /\ LinkedBut(c, {}) /\ Evolves(d, c) /\ c.job = d.job
          /\ DOMAIN c.runs = 1 .. Len(d.runs) + 1 /\ c.runs[Len(d.runs) + 1] = row
          /\ \A i \in DOMAIN d.runs : c.runs[i] = d.runs[i]
      BY <2>2, <3>1, Inserts DEF Sane
    <3> HIDE DEF c
    <3>3. Follows(d, c)
      BY <3>2 DEF Follows, Sane, JobKept
    <3>4. ASSUME LiveRows(d) = {}, NEW i \in DOMAIN c.runs PROVE c.runs[i].status \notin Live
      <4>1. i \in DOMAIN d.runs \/ i = Len(d.runs) + 1
        BY <3>2, Numbered DEF Sane, Rowed
      <4> QED  BY <3>1, <3>2, <3>4, <4>1 DEF LiveRows, Live
    <3> QED  BY <3>3, <3>4 DEF LiveRows
  <2> QED  BY <2>1, <2>2
<1>2. e = [c EXCEPT !.job.next = next]
  BY DEF Recorded
<1> HIDE DEF c, e
<1>3. Follows(c, e) /\ e.runs = c.runs
  BY <1>1, <1>2, NextWritten DEF Follows
<1> QED  BY <1>1, <1>3, EvolvesOn DEF LiveRows, e

\* The last occurrence is queued.
LEMMA Queues ==
  ASSUME NEW d, Sane(d), LiveRows(d) = {}, NEW last PROVE Follows(d, Queued(d, last))
<1> DEFINE row == NewRow("pending", "schedule", last, last, 1, {last})
           c == Coalesce(d, "auto_catch_up")
           k == Target(d)
           old == Renewed(c.runs[k], last)
           e == Queued(d, last)
<1>1. CASE ~d.job.catchUp \/ Target(d) = 0
  <2>1. e = InsertRun(d, row)
    BY <1>1 DEF Queued
  <2>2. IsRow(row) /\ row.status = "pending" /\ ~row.started /\ row.link = 0
    BY NewRows DEF Statuses
  <2> HIDE DEF row
  <2>3. Rowed(e) /\ LinkedBut(e, {}) /\ Evolves(d, e) /\ e.job = d.job
    BY <2>1, <2>2, Inserts DEF Sane
  <2> QED  BY <2>3 DEF Follows, Sane, JobKept
<1>2. CASE ~(~d.job.catchUp \/ Target(d) = 0)
  <2>1. e = [c EXCEPT !.runs[k] = old]
    BY <1>2 DEF Queued
  <2>2. Follows(d, c) /\ k \in DOMAIN c.runs
    BY <1>2, Coalesces
  <2> HIDE DEF c, e, k
  <2>3. IsRow(c.runs[k])
    BY <2>2 DEF Follows, Sane, Rowed, Shape
  <2>4. /\ IsRow(old) /\ old.link = c.runs[k].link /\ old.status = c.runs[k].status
        /\ old.started = c.runs[k].started
    BY <2>3 DEF Renewed, IsRow, RowFields
  <2> HIDE DEF old
  <2>5. Follows(c, e)
    BY <2>1, <2>2, <2>4, RowWritten DEF Follows
  <2> QED  BY <2>2, <2>5, EvolvesOn DEF e
<1> QED  BY <1>1, <1>2

LEMMA CollectsAll ==
  ASSUME NEW d, Sane(d), NEW t, NEW all, NEW next PROVE Follows(d, CollectAll(d, t, all, next))
<1>1. CASE OnTime(d, t, Max(all), next)
  <2> DEFINE c == Recorded(d, all \ {Max(all)}, next)
  <2>1. LiveRows(d) = {}
    BY <1>1, ActiveRun DEF OnTime, Sane
  <2>2. Follows(d, c) /\ LiveRows(c) = {}
    BY <2>1, Records
  <2>3. Follows(c, Queued(c, Max(all)))
    BY <2>2, Queues DEF Follows
  <2>4. CollectAll(d, t, all, next) = Queued(c, Max(all))
    BY <1>1 DEF CollectAll
  <2> HIDE DEF c
  <2> QED  BY <2>2, <2>3, <2>4, EvolvesOn
<1>2. CASE ~OnTime(d, t, Max(all), next)
  BY <1>2, Records DEF CollectAll
<1> QED  BY <1>1, <1>2

LEMMA CollectsDue == ASSUME NEW d, Sane(d), NEW t PROVE Follows(d, Collect(d, t))
BY CollectsAll, Itself DEF Collect

LEMMA WindsUp == ASSUME NEW d, Sane(d), NEW t PROVE Follows(d, WindUp(d, t))
BY Stops, Coalesces, Itself DEF WindUp

\* A materialization leaves the rows in order and does not enable the job.
LEMMA Materializes ==
  ASSUME NEW d, Sane(d), NEW t PROVE Follows(d, MaterializeJob(d, t))
<1>1. CASE Limit(d.job, t) = "max_runs"
  BY <1>1, Stops DEF MaterializeJob
<1>2. CASE Limit(d.job, t) # "max_runs"
  <2> DEFINE a == AgeOut(d, t)
             b == CloseWindow(a)
             c == Collect(b, t)
             e == WindUp(c, t)
  <2>1. Follows(d, a)
    BY AgesOut
  <2>2. Follows(a, b)
    BY <2>1, ClosesWindow DEF Follows
  <2>3. Follows(b, c)
    BY <2>2, CollectsDue DEF Follows
  <2>4. Follows(c, e)
    BY <2>3, WindsUp DEF Follows
  <2>5. MaterializeJob(d, t) = e
    BY <1>2 DEF MaterializeJob
  <2> HIDE DEF a, b, c, e
  <2>6. Follows(d, b)
    BY <2>1, <2>2, EvolvesOn
  <2>7. Follows(d, c)
    BY <2>3, <2>6, EvolvesOn
  <2> QED  BY <2>4, <2>5, <2>7, EvolvesOn
<1> QED  BY <1>1, <1>2

LEMMA GoesSafely == ASSUME NEW d, Sane(d), NEW t PROVE Follows(d, Safely(d, t))
<1> DEFINE row == NewRow("failed", "schedule_error", d.job.next, Max({d.job.next, t}), 1, {})
           c == InsertRun(d, row)
           e == Safely(d, t)
<1>1. CASE ~Uncalculable(d, t)
  BY <1>1, Materializes DEF Safely
<1>2. CASE Uncalculable(d, t)
  <2>1. IsRow(row) /\ row.status = "failed" /\ ~row.started /\ row.link = 0
    BY NewRows DEF Statuses
  <2>2. e = [c EXCEPT !.job.enabled = FALSE]
    BY <1>2 DEF Safely
  <2> HIDE DEF row, e
  <2>3. Rowed(c) /\ LinkedBut(c, {}) /\ Evolves(d, c) /\ c.job = d.job
    BY <2>1, Inserts DEF Sane
  <2> HIDE DEF c
  <2>4. Follows(d, c)
    BY <2>3 DEF Follows, Sane, JobKept
  <2>5. /\ e = [f \in {"job", "runs", "on", "beat"} |-> e[f]] /\ e.runs = c.runs
        /\ e.job = [c.job EXCEPT !.enabled = FALSE]
    BY <2>2, <2>3 DEF Rowed, Shape
  <2>6. IsJob(e.job) /\ JobKept(c, e)
    BY <2>3, <2>5 DEF Rowed, Shape, IsJob, JobFields, JobKept
  <2>7. Follows(c, e)
    BY <2>4, <2>5, <2>6, JobWritten DEF Follows
  <2> QED  BY <2>4, <2>7, EvolvesOn DEF e
<1> QED  BY <1>1, <1>2
-----------------------------------------------------------------------------
(* An update *)

LEMMA Retimes ==
  ASSUME NEW d, Sane(d), NEW c, NEW t PROVE Follows(d, Retimed(d, c, t))
<1> DEFINE row == NewRow("missed", "paused", d.job.next, d.job.next, 1, {d.job.next})
           m == InsertRun(d, row)
           e == Retimed(d, c, t)
<1>1. CASE e = d
  BY <1>1, Itself
<1>2. CASE \E next : e = [d EXCEPT !.job.next = next]
  BY <1>2, NextWritten
<1>3. CASE e = [m EXCEPT !.job.next = None]
  <2>1. IsRow(row) /\ row.status = "missed" /\ ~row.started /\ row.link = 0
    BY NewRows DEF Statuses
  <2> HIDE DEF row, e
  <2>2. Rowed(m) /\ LinkedBut(m, {}) /\ Evolves(d, m) /\ m.job = d.job
    BY <2>1, Inserts DEF Sane
  <2> HIDE DEF m
  <2>3. Follows(d, m)
    BY <2>2 DEF Follows, Sane, JobKept
  <2>4. Follows(m, e)
    BY <1>3, <2>3, NextWritten DEF Follows
  <2> QED  BY <2>3, <2>4, EvolvesOn DEF e
<1>4. \/ e = d \/ (\E next : e = [d EXCEPT !.job.next = next])
      \/ e = [m EXCEPT !.job.next = None]
  BY DEF Retimed
<1> QED  BY <1>1, <1>2, <1>3, <1>4

\* Queued runs are cancelled, whoever waits for them.
LEMMA CancelsOnly ==
  ASSUME NEW d, Sane(d),
         NEW queued, \A i \in queued : i \in DOMAIN d.runs /\ d.runs[i].status = "pending"
  PROVE  LET e == CancelOnly(d, queued)
         IN /\ Rowed(e) /\ LinkedBut(e, queued) /\ Evolves(d, e) /\ e.job = d.job
            /\ DOMAIN e.runs = DOMAIN d.runs /\ Len(e.runs) = Len(d.runs)
            /\ \A i \in queued : e.runs[i].status = "cancelled"
            /\ \A i \in DOMAIN d.runs \ queued : e.runs[i].status = d.runs[i].status
<1> DEFINE e == CancelOnly(d, queued)
<1>1. /\ e = [f \in {"job", "runs", "on", "beat"} |-> e[f]] /\ e.job = d.job
      /\ e.runs = [i \in DOMAIN d.runs |->
           IF i \in queued THEN [d.runs[i] EXCEPT !.status = "cancelled"] ELSE d.runs[i]]
  BY DEF CancelOnly, Sane, Rowed, Shape
<1> HIDE DEF e
<1>2. ASSUME NEW i \in DOMAIN d.runs
      PROVE  /\ IsRow(e.runs[i]) /\ e.runs[i].started = d.runs[i].started
             /\ e.runs[i].status = IF i \in queued THEN "cancelled" ELSE d.runs[i].status
             /\ e.runs[i].link = d.runs[i].link
  BY <1>1 DEF Sane, Rowed, Shape, IsRow, RowFields, Statuses
<1>3. IsJob(e.job) /\ e.runs = [i \in DOMAIN d.runs |-> e.runs[i]]
  BY <1>1 DEF Sane, Rowed, Shape
<1>4. Rowed(e) /\ Evolves(d, e) /\ DOMAIN e.runs = DOMAIN d.runs /\ Len(e.runs) = Len(d.runs)
  BY <1>1, <1>2, <1>3, Rewrites DEF Sane
<1>5. LinkedBut(e, queued)
  BY <1>2, <1>4 DEF LinkedBut, Sane
<1> QED  BY <1>1, <1>2, <1>4, <1>5 DEF e

\* The queued run is cancelled; what it held beyond misses is queued or missed again.
LEMMA Dequeues ==
  ASSUME NEW d, Sane(d), NEW c, NEW t PROVE Follows(d, Dequeued(d, c, t))
<1> DEFINE k == Active(d)
           m == CancelOnly(d, {k})
           r == RestoreCurrent(m, k, t)
           e == Dequeued(d, c, t)
<1>1. CASE ~DropsQueued(d, c)
  BY <1>1, Itself DEF Dequeued
<1>2. CASE DropsQueued(d, c)
  <2>0. m = CancelOnly(d, {k})
    OBVIOUS
  <2>1. k \in DOMAIN d.runs /\ d.runs[k].status = "pending" /\ LiveRows(d) = {k}
    BY <1>2, ActiveRun DEF DropsQueued, ActiveIs, Sane
  <2>2. CASE Pauses(c) \/ EditsTask(c)
    <3>1. e = Cancel(d, {k})
      BY <1>2, <2>2 DEF Dequeued
    <3>2. LinkedBut(d, {k})
      BY DEF Sane, LinkedBut
    <3> HIDE DEF k, e
    <3>3. Sane(e) /\ Evolves(d, e) /\ e.job = d.job
      BY <2>1, <3>1, <3>2, Cancels DEF Sane
    <3> QED  BY <3>3 DEF Follows, JobKept, e
  <2>3. CASE ~(Pauses(c) \/ EditsTask(c))
    <3>1. e = Cancel(r, {k})
      BY <1>2, <2>3 DEF Dequeued
    <3>2. /\ Rowed(m) /\ LinkedBut(m, {k}) /\ Evolves(d, m) /\ m.job = d.job
          /\ DOMAIN m.runs = DOMAIN d.runs /\ Len(m.runs) = Len(d.runs)
          /\ m.runs[k].status = "cancelled"
          /\ \A i \in DOMAIN d.runs \ {k} : m.runs[i].status = d.runs[i].status
      <4> HIDE DEF k, m
      <4> QED  BY <2>0, <2>1, CancelsOnly
    <3>3. LiveRows(m) = {}
      <4> HIDE DEF k, m
      <4> QED  BY <2>1, <3>2 DEF LiveRows, Live
    <3>4. /\ Rowed(r) /\ LinkedBut(r, {k}) /\ Evolves(m, r) /\ r.job = d.job
          /\ k \in DOMAIN r.runs /\ r.runs[k].status = "cancelled"
      <4>1. CASE r = m
        <5> HIDE DEF k, m, r
        <5> QED  BY <2>1, <3>2, <4>1 DEF Evolves
      <4>2. CASE r # m
        <5>0. PICK status \in {"pending", "missed"} : \E source, first, last, count, due :
                r = InsertRun(m, NewRow(status, source, first, last, count, due))
          <6> HIDE DEF k, m
          <6> QED  BY <4>2 DEF RestoreCurrent
        <5>1. PICK source, first, last, count, due :
                r = InsertRun(m, NewRow(status, source, first, last, count, due))
          <6> HIDE DEF k, m, r
          <6> QED  BY <5>0
        <5> DEFINE row == NewRow(status, source, first, last, count, due)
        <5>2. IsRow(row) /\ row.status = status /\ ~row.started /\ row.link = 0
          BY NewRows DEF Statuses
        <5> HIDE DEF k, m, r, row
        <5>3. /\ Rowed(r) /\ LinkedBut(r, {k}) /\ Evolves(m, r) /\ r.job = m.job
              /\ DOMAIN r.runs = 1 .. Len(m.runs) + 1
              /\ \A i \in DOMAIN m.runs : r.runs[i] = m.runs[i]
          BY <3>2, <3>3, <5>1, <5>2, Inserts DEF row
        <5> QED  BY <2>1, <3>2, <5>3 DEF Evolves
      <4> QED  BY <4>1, <4>2
    <3> HIDE DEF k, m, r, e
    <3>5. Sane(e) /\ Evolves(r, e) /\ e.job = r.job
      BY <3>1, <3>4, Cancels
    <3>6. Evolves(d, r)
      BY <3>2, <3>4 DEF Evolves
    <3>7. Evolves(d, e)
      BY <3>5, <3>6 DEF Evolves
    <3> QED  BY <3>4, <3>5, <3>7 DEF Follows, JobKept, e
  <2> QED  BY <2>2, <2>3
<1> QED  BY <1>1, <1>2

\* An edit names no other field of the job, and limits the executions by a value of RunLimits.
EditOK(c) ==
  /\ "runCount" \notin DOMAIN c /\ "deleted" \notin DOMAIN c
  /\ "maxRuns" \in DOMAIN c => c["maxRuns"] \in RunLimits

\* The edit is saved, and stops a job that has nothing left.
LEMMA Applies ==
  ASSUME NEW d, Sane(d), NEW c, EditOK(c), NEW t
  PROVE  LET e == Applied(d, c, t)
         IN /\ Sane(e) /\ Evolves(d, e)
            /\ e.job.runCount = d.job.runCount /\ e.job.deleted = d.job.deleted
            /\ e.job.enabled => /\ Limit(e.job, t) = None
                                /\ d.job.enabled \/ Enables(c)
                                /\ \/ Has(c, "decisionRequired")
                                   \/ e.job.decisionRequired = d.job.decisionRequired
<1> DEFINE r == Retimed(d, c, t)
           m == Dequeued(r, c, t)
           s == Saved(m, c)
           e == Applied(d, c, t)
<1>1. Follows(d, m)
  <2>1. Follows(d, r)
    BY Retimes
  <2>2. Follows(r, m)
    BY <2>1, Dequeues DEF Follows
  <2> HIDE DEF r, m
  <2> QED  BY <2>1, <2>2, EvolvesOn
<1>2. e = StopIfSpent(s, t)
  BY DEF Applied
<1> HIDE DEF m, e
<1>3. /\ s = [f \in {"job", "runs", "on", "beat"} |-> s[f]] /\ s.runs = m.runs
      /\ s.job = Changed(m.job, c)
  BY <1>1 DEF Follows, Sane, Rowed, Shape, Saved
<1>4. /\ IsJob(s.job)
      /\ s.job.runCount = m.job.runCount /\ s.job.deleted = m.job.deleted
      /\ s.job.enabled => m.job.enabled \/ Enables(c)
      /\ Has(c, "decisionRequired") \/ s.job.decisionRequired = m.job.decisionRequired
  BY <1>1, <1>3
     DEF Follows, Sane, Rowed, Shape, IsJob, JobFields, Changed, Merge, EditOK, Has, Enables
<1> HIDE DEF s
<1>5. Sane(s) /\ Evolves(d, s)
  BY <1>1, <1>3, <1>4
     DEF Follows, Sane, Rowed, Shape, OneLive, LiveRows, QueuedIsNew, LinkedBut, Evolves
<1>6. CASE Limit(s.job, t) = None
  BY <1>1, <1>2, <1>4, <1>5, <1>6 DEF StopIfSpent, Follows, JobKept, e
<1>7. CASE Limit(s.job, t) # None
  <2>1. e = StopJob(s, Limit(s.job, t))
    BY <1>2, <1>7 DEF StopIfSpent
  <2>2. Follows(s, e) /\ ~e.job.enabled
    BY <1>5, <2>1, Stops
  <2>3. Evolves(d, e)
    BY <1>5, <2>2 DEF Follows, Evolves
  <2> QED  BY <1>1, <1>4, <2>2, <2>3 DEF Follows, JobKept, e
<1> QED  BY <1>6, <1>7
-----------------------------------------------------------------------------
(* The invariant *)

Started(d) == {i \in DOMAIN d.runs : d.runs[i].started}

InOrder(d) == Rowed(d) /\ (d.job.deleted \/ LinkedBut(d, {})) /\ Len(d.runs) <= MaxRows
Budget(d) ==
  /\ d.job.enabled /\ d.job.maxRuns # None => d.job.runCount < d.job.maxRuns
  /\ d.job.runCount = Cardinality(Started(d))
Gate(d, license) == d.job.enabled /\ d.job.decisionRequired => license
CallOK(c) == c # None => (c.op = "update" => EditOK(c.changes))

IInv == InOrder(db) /\ Budget(db) /\ Gate(db, licensed) /\ CallOK(call)

\* What a transaction may do to the status of a row.
StatusMoves ==
  ({"pending"} \X {"missed", "cancelled", "starting"})
  \cup ({"starting"} \X {"running", "failed", "uncertain"})
  \cup ({"running"} \X {"succeeded", "uncertain"})
  \cup ({"uncertain", "failed"} \X {"dismissed", "retried"})
Moved(d, e) ==
  /\ DOMAIN d.runs \subseteq DOMAIN e.runs
  /\ \A i \in DOMAIN d.runs :
       \/ e.runs[i].status = d.runs[i].status
       \/ <<d.runs[i].status, e.runs[i].status>> \in StatusMoves
  /\ \A i \in DOMAIN e.runs \ DOMAIN d.runs :
       e.runs[i].status \in {"pending", "missed", "failed", "cancelled"}

\* A step that leaves the invariant and moves the rows as it may.
Goes == IInv' /\ Moved(db, db')

LEMMA Leads ==
  ASSUME InOrder(db'), Budget(db'), Gate(db', licensed'), CallOK(call'), Moved(db, db')
  PROVE  Goes
BY DEF Goes, IInv

LEMMA StartedRows ==
  ASSUME NEW d, Shape(d)
  PROVE  IsFiniteSet(Started(d)) /\ Cardinality(Started(d)) \in Nat
<1>1. Len(d.runs) \in Nat /\ DOMAIN d.runs = 1 .. Len(d.runs)
  BY Numbered
<1>2. IsFiniteSet(1 .. Len(d.runs))
  BY <1>1, FS_Interval
<1>3. Started(d) \subseteq 1 .. Len(d.runs)
  BY <1>1 DEF Started
<1> QED  BY <1>2, <1>3, FS_Subset, FS_CardinalityType

\* The rows evolve: the executions that started are the same ones.
LEMMA BudgetEvolves ==
  ASSUME NEW d, NEW e, Evolves(d, e) PROVE Started(e) = Started(d)
BY DEF Evolves, Started

LEMMA EvolvesMoves == ASSUME NEW d, NEW e, Evolves(d, e) PROVE Moved(d, e)
BY DEF Evolves, Moved, StatusMoves

LEMMA MovesOn ==
  ASSUME NEW c, NEW d, NEW e, Moved(c, d), Evolves(d, e),
         \A i \in DOMAIN c.runs : d.runs[i].status = "pending" => c.runs[i].status = "pending"
  PROVE  Moved(c, e)
BY DEF Evolves, Moved, StatusMoves

\* The budget and the gate of a job that a transaction keeps or stops.
LEMMA KeptBudget ==
  ASSUME NEW d, Budget(d), NEW e, Started(e) = Started(d), JobKept(d, e) PROVE Budget(e)
BY DEF Budget, JobKept

LEMMA KeptGate ==
  ASSUME NEW d, NEW l, Gate(d, l), NEW e, JobKept(d, e) PROVE Gate(e, l)
BY DEF Gate, JobKept

LEMMA Following ==
  ASSUME IInv, ~db.job.deleted, NEW e, Follows(db, e), Commit(e), UNCHANGED licensed, CallOK(call')
  PROVE  Goes
<1>1. db' = e /\ Len(e.runs) <= MaxRows
  BY DEF Commit
<1>2. InOrder(e)
  BY <1>1 DEF Follows, Sane, InOrder
<1>3. Budget(e) /\ Gate(e, licensed)
  BY BudgetEvolves, KeptBudget, KeptGate DEF IInv, Follows
<1>4. Moved(db, e)
  BY EvolvesMoves DEF Follows
<1> QED  BY <1>1, <1>2, <1>3, <1>4, Leads

LEMMA Undeleted == ASSUME IInv, ~db.job.deleted PROVE Sane(db)
BY DEF IInv, InOrder, Sane

\* An execution moves on, or an operator settles it.
LEMMA RowMoved ==
  ASSUME NEW d, Rowed(d), NEW k \in DOMAIN d.runs, NEW row, IsRow(row),
         row.status \in Live => d.runs[k].status \in Live,
         row.status \notin {"pending", "missed", "cancelled"} \/ row.status = d.runs[k].status,
         row.link = d.runs[k].link \/ d.runs[k].status \notin {"pending", "missed"},
         row.started = d.runs[k].started \/ row.status # "pending",
         NEW e, e = [f \in {"job", "runs", "on", "beat"} |-> e[f]], IsJob(e.job),
         e.runs = [d.runs EXCEPT ![k] = row]
  PROVE  /\ Rowed(e) /\ DOMAIN e.runs = DOMAIN d.runs /\ Len(e.runs) = Len(d.runs)
         /\ e.runs[k] = row /\ \A i \in DOMAIN d.runs \ {k} : e.runs[i] = d.runs[i]
         /\ LinkedBut(d, {}) => LinkedBut(e, {})
<1>1. e.runs[k] = row /\ \A i \in DOMAIN d.runs \ {k} : e.runs[i] = d.runs[i]
  OBVIOUS
<1>2. e.runs = [i \in DOMAIN d.runs |-> e.runs[i]]
  OBVIOUS
<1>3. Listed(e.runs) /\ DOMAIN e.runs = DOMAIN d.runs /\ Len(e.runs) = Len(d.runs)
  BY <1>2, Mapped DEF Rowed, Shape
<1>4. Shape(e)
  BY <1>1, <1>3 DEF Rowed, Shape
<1>5. OneLive(e)
  BY <1>1, <1>3 DEF Rowed, OneLive, LiveRows
<1>6. QueuedIsNew(e)
  BY <1>1, <1>3 DEF Rowed, QueuedIsNew
<1>7. LinkedBut(d, {}) => LinkedBut(e, {})
  BY <1>1, <1>3 DEF LinkedBut
<1> QED  BY <1>1, <1>3, <1>4, <1>5, <1>6, <1>7 DEF Rowed

LEMMA Stays ==
  ASSUME IInv, UNCHANGED <<db, licensed>>, CallOK(call') PROVE Goes
<1>1. Moved(db, db)
  BY DEF Moved
<1> QED  BY <1>1, Leads DEF IInv

\* The row of an execution that began is written, and no other.
Writes(d, k, row, e) == e = [d EXCEPT !.runs[k] = row]
LEMMA RowGoes ==
  ASSUME NEW d, InOrder(d), NEW k \in DOMAIN d.runs, NEW row,
         IsRow(row), row.started = d.runs[k].started, row.link = d.runs[k].link,
         \/ row.status = d.runs[k].status
         \/ <<d.runs[k].status, row.status>> \in StatusMoves /\ d.runs[k].status # "pending",
         NEW e, Writes(d, k, row, e)
  PROVE  /\ InOrder(e) /\ Started(e) = Started(d) /\ Moved(d, e) /\ e.job = d.job
         /\ DOMAIN e.runs = DOMAIN d.runs /\ e.runs[k] = row
         /\ \A i \in DOMAIN d.runs : e.runs[i].status = "pending" => d.runs[i].status = "pending"
<1>1. /\ e = [f \in {"job", "runs", "on", "beat"} |-> e[f]] /\ e.job = d.job
      /\ e.runs = [d.runs EXCEPT ![k] = row] /\ IsJob(e.job)
  BY DEF Writes, InOrder, Rowed, Shape
<1>2. d.runs[k].status \in Statuses
  BY DEF InOrder, Rowed, Shape, IsRow
<1>3. /\ row.status \in Live => d.runs[k].status \in Live
      /\ row.status \notin {"pending", "missed", "cancelled"} \/ row.status = d.runs[k].status
  BY <1>2 DEF StatusMoves, Live
<1>4. /\ Rowed(e) /\ DOMAIN e.runs = DOMAIN d.runs /\ Len(e.runs) = Len(d.runs)
      /\ e.runs[k] = row /\ \A i \in DOMAIN d.runs \ {k} : e.runs[i] = d.runs[i]
      /\ LinkedBut(d, {}) => LinkedBut(e, {})
  <2>1. Rowed(d)
    BY DEF InOrder
  <2>2. /\ row.link = d.runs[k].link \/ d.runs[k].status \notin {"pending", "missed"}
        /\ row.started = d.runs[k].started \/ row.status # "pending"
    OBVIOUS
  <2> QED  BY <1>1, <1>3, <2>1, <2>2, RowMoved
<1>5. InOrder(e)
  BY <1>1, <1>4 DEF InOrder
<1>6. Started(e) = Started(d)
  BY <1>4 DEF Started
<1>7. Moved(d, e)
  BY <1>4 DEF Moved
<1>8. \A i \in DOMAIN d.runs : e.runs[i].status = "pending" => d.runs[i].status = "pending"
  BY <1>3, <1>4
<1> QED  BY <1>1, <1>4, <1>5, <1>6, <1>7, <1>8

\* The same, as a step.
LEMMA RowStep ==
  ASSUME IInv, NEW k \in DOMAIN db.runs, NEW row,
         IsRow(row), row.started = db.runs[k].started, row.link = db.runs[k].link,
         \/ row.status = db.runs[k].status
         \/ <<db.runs[k].status, row.status>> \in StatusMoves /\ db.runs[k].status # "pending",
         db' = [db EXCEPT !.runs[k] = row], UNCHANGED licensed, CallOK(call')
  PROVE  Goes
<1> PICK e : e = [db EXCEPT !.runs[k] = row]
  OBVIOUS
<1>1. InOrder(e) /\ Started(e) = Started(db) /\ Moved(db, e) /\ e.job = db.job
  BY RowGoes DEF IInv, Writes
<1>2. Budget(e) /\ Gate(e, licensed)
  BY <1>1 DEF IInv, Budget, Gate
<1> QED  BY <1>1, <1>2, Leads

LEMMA HostStep ==
  ASSUME IInv, NEW i \in DOMAIN db.runs, RecordHost(i) \/ ClearHost(i) PROVE Goes
<1> DEFINE r == db.runs[i]
<1>1. PICK h \in BOOLEAN : db' = [db EXCEPT !.runs[i].host = h]
  BY DEF RecordHost, ClearHost
<1>2. PICK row : row = [r EXCEPT !.host = h]
  OBVIOUS
<1>3. IsRow(r)
  BY DEF IInv, InOrder, Rowed, Shape
<1>4. IsRow(row) /\ row.started = r.started /\ row.link = r.link /\ row.status = r.status
  BY <1>2, <1>3 DEF IsRow, RowFields
<1>5. db' = [db EXCEPT !.runs[i] = row]
  BY <1>1, <1>2
<1>6. UNCHANGED <<licensed, call>>
  BY DEF RecordHost, ClearHost
<1> QED  BY <1>4, <1>5, <1>6, RowStep DEF IInv

LEMMA StatusStep ==
  ASSUME IInv, NEW i \in DOMAIN db.runs, NEW status \in Statuses,
         <<db.runs[i].status, status>> \in StatusMoves, db.runs[i].status # "pending",
         db' = [db EXCEPT !.runs[i].status = status], UNCHANGED <<licensed, call>>
  PROVE  Goes
<1> DEFINE r == db.runs[i]
<1>2. PICK row : row = [r EXCEPT !.status = status]
  OBVIOUS
<1>3. IsRow(r)
  BY DEF IInv, InOrder, Rowed, Shape
<1>4. IsRow(row) /\ row.started = r.started /\ row.link = r.link /\ row.status = status
  BY <1>2, <1>3 DEF IsRow, RowFields
<1>5. db' = [db EXCEPT !.runs[i] = row]
  BY <1>2
<1> QED  BY <1>4, <1>5, RowStep DEF IInv

LEMMA MarkRunningStep == ASSUME IInv, NEW i \in DOMAIN db.runs, MarkRunning(i) PROVE Goes
BY StatusStep DEF MarkRunning, StatusMoves, Statuses

LEMMA DismissStep == ASSUME IInv, NEW i \in DOMAIN db.runs, Dismiss(i) PROVE Goes
BY StatusStep DEF Dismiss, Recoverable, StatusMoves, Statuses

LEMMA TickStep == ASSUME IInv, Tick PROVE Goes
BY Stays DEF Tick, IInv

\* Nothing that the invariant speaks of is written.
LEMMA HeartbeatStep == ASSUME IInv, Heartbeat PROVE Goes
<1> PICK e : e = [db EXCEPT !.beat = now]
  OBVIOUS
<1>1. e = [f \in {"job", "runs", "on", "beat"} |-> e[f]] /\ e.job = db.job /\ e.runs = db.runs
  BY DEF IInv, InOrder, Rowed, Shape
<1>2. InOrder(e)
  BY <1>1 DEF IInv, InOrder, Rowed, Shape, OneLive, LiveRows, QueuedIsNew, LinkedBut
<1>3. Budget(e) /\ Gate(e, licensed) /\ Moved(db, e)
  BY <1>1 DEF IInv, Budget, Started, Gate, Moved
<1> QED  BY <1>2, <1>3, Leads DEF Heartbeat, IInv

LEMMA DeleteStep == ASSUME IInv, Delete PROVE Goes
<1> DEFINE c == CancelOnly(db, Pending(db))
<1> PICK e : e = [c EXCEPT !.job.deleted = TRUE, !.job.enabled = FALSE]
  OBVIOUS
<1>1. Sane(db)
  BY Undeleted DEF Delete
<1>2. \A i \in Pending(db) : i \in DOMAIN db.runs /\ db.runs[i].status = "pending"
  BY DEF Pending
<1>3. Rowed(c) /\ Evolves(db, c) /\ c.job = db.job /\ DOMAIN c.runs = DOMAIN db.runs
      /\ Len(c.runs) = Len(db.runs)
  BY <1>1, <1>2, CancelsOnly
<1>4. db' = e
  BY DEF Delete
<1> HIDE DEF c
<1>5. /\ e = [f \in {"job", "runs", "on", "beat"} |-> e[f]] /\ e.runs = c.runs
      /\ e.job = [c.job EXCEPT !.deleted = TRUE, !.enabled = FALSE]
  BY <1>3 DEF Rowed, Shape
<1>6. IsJob(e.job) /\ e.job.deleted /\ ~e.job.enabled /\ e.job.runCount = db.job.runCount
  BY <1>3, <1>5 DEF Rowed, Shape, IsJob, JobFields
<1>7. InOrder(e)
  BY <1>3, <1>5, <1>6 DEF IInv, InOrder, Rowed, Shape, OneLive, LiveRows, QueuedIsNew
<1>8. Evolves(db, e)
  BY <1>3, <1>5 DEF Evolves
<1>9. Budget(e) /\ Gate(e, licensed) /\ Moved(db, e)
  BY <1>6, <1>8, BudgetEvolves, EvolvesMoves DEF IInv, Budget, Gate
<1> QED  BY <1>4, <1>7, <1>9, Leads DEF Delete, IInv

LEMMA SetEnabledStep == ASSUME IInv, NEW on, SetEnabled(on) PROVE Goes
<1>0. PICK e : e = [db EXCEPT !.on = on, !.runs = [i \in DOMAIN @ |->
       IF ~on /\ @[i].status = "pending" /\ @[i].source = "schedule"
       THEN [@[i] EXCEPT !.status = "missed"] ELSE @[i]]]
  OBVIOUS
<1>1. /\ e = [f \in {"job", "runs", "on", "beat"} |-> e[f]] /\ e.job = db.job
      /\ e.runs = [i \in DOMAIN db.runs |->
           IF ~on /\ db.runs[i].status = "pending" /\ db.runs[i].source = "schedule"
           THEN [db.runs[i] EXCEPT !.status = "missed"] ELSE db.runs[i]]
  BY <1>0 DEF IInv, InOrder, Rowed, Shape
<1>2. ASSUME NEW i \in DOMAIN db.runs
      PROVE  /\ IsRow(e.runs[i]) /\ e.runs[i].started = db.runs[i].started
             /\ e.runs[i].link = db.runs[i].link
             /\ \/ e.runs[i].status = db.runs[i].status
                \/ db.runs[i].status = "pending" /\ e.runs[i].status = "missed"
  BY <1>1 DEF IInv, InOrder, Rowed, Shape, IsRow, RowFields, Statuses
<1>3. IsJob(e.job) /\ e.runs = [i \in DOMAIN db.runs |-> e.runs[i]]
  BY <1>1 DEF IInv, InOrder, Rowed, Shape
<1>4. Rowed(e) /\ Evolves(db, e) /\ DOMAIN e.runs = DOMAIN db.runs /\ Len(e.runs) = Len(db.runs)
  <2>1. \A i \in DOMAIN db.runs :
          /\ IsRow(e.runs[i]) /\ e.runs[i].started = db.runs[i].started
          /\ db.runs[i].status = "pending" => e.runs[i].link = db.runs[i].link
          /\ \/ e.runs[i].status = db.runs[i].status
             \/ db.runs[i].status = "pending" /\ e.runs[i].status \in {"missed", "cancelled"}
    BY <1>2
  <2>2. Rowed(db)
    BY DEF IInv, InOrder
  <2> QED  BY <1>1, <1>3, <2>1, <2>2, Rewrites
<1>5. LinkedBut(db, {}) => LinkedBut(e, {})
  <2>1. QueuedIsNew(db)
    BY DEF IInv, InOrder, Rowed
  <2> QED  BY <1>2, <1>4, <2>1 DEF LinkedBut, QueuedIsNew
<1>6. InOrder(e)
  BY <1>1, <1>4, <1>5 DEF IInv, InOrder
<1>7. Budget(e) /\ Gate(e, licensed) /\ Moved(db, e)
  BY <1>1, <1>4, BudgetEvolves, EvolvesMoves DEF IInv, Budget, Gate
<1> QED  BY <1>0, <1>6, <1>7, Leads DEF SetEnabled, IInv

LEMMA EnqueueStep == ASSUME IInv, Enqueue PROVE Goes
<1> DEFINE row == NewRow("pending", "manual", now, now, 1, {})
           e == InsertRun(db, row)
<1>1. IsRow(row) /\ row.status = "pending" /\ ~row.started /\ row.link = 0
  BY NewRows DEF Statuses
<1>2. Sane(db) /\ LiveRows(db) = {}
  BY Undeleted, ActiveRun DEF Enqueue, Sane
<1>3. Commit(e) /\ UNCHANGED licensed /\ CallOK(call') /\ ~db.job.deleted
  BY DEF Enqueue, IInv
<1> HIDE DEF row
<1>4. Rowed(e) /\ LinkedBut(e, {}) /\ Evolves(db, e) /\ e.job = db.job
  BY <1>1, <1>2, Inserts DEF Sane
<1>5. Follows(db, e)
  BY <1>4 DEF Follows, Sane, JobKept
<1> HIDE DEF e
<1> QED  BY <1>3, <1>5, Following

\* The failed run is settled, and the retry is queued.
LEMMA RetryStep == ASSUME IInv, NEW i \in DOMAIN db.runs, Retry(i) PROVE Goes
<1> DEFINE r == db.runs[i]
           new == NewRow("pending", "retry", r.first, r.last, r.count, r.due)
<1>1. PICK row : row = [r EXCEPT !.status = "retried", !.link = Len(db.runs) + 1]
  OBVIOUS
<1>2. PICK d : d = [db EXCEPT !.runs[i] = row]
  OBVIOUS
<1>3. PICK e : e = InsertRun(d, new)
  OBVIOUS
<1>4. /\ ~db.job.deleted /\ r.status \in {"uncertain", "failed"}
      /\ Active(d) = 0 /\ Commit(e)
      /\ UNCHANGED <<licensed, call>>
  BY <1>1, <1>2, <1>3 DEF Retry, Recoverable
<1>5. IsRow(row) /\ row.started = r.started /\ row.status = "retried"
  BY <1>1 DEF IInv, InOrder, Rowed, Shape, IsRow, RowFields, Statuses
<1>6. /\ d = [f \in {"job", "runs", "on", "beat"} |-> d[f]] /\ d.job = db.job
      /\ d.runs = [db.runs EXCEPT ![i] = row] /\ IsJob(d.job)
  BY <1>2 DEF IInv, InOrder, Rowed, Shape
<1>7. Sane(db)
  BY <1>4, Undeleted
<1>8. /\ Rowed(d) /\ DOMAIN d.runs = DOMAIN db.runs /\ Len(d.runs) = Len(db.runs)
      /\ d.runs[i] = row /\ \A k \in DOMAIN db.runs \ {i} : d.runs[k] = db.runs[k]
      /\ LinkedBut(d, {})
  <2>1. Rowed(db) /\ LinkedBut(db, {})
    BY <1>7 DEF Sane
  <2>2. /\ row.status \in Live => r.status \in Live
        /\ row.status \notin {"pending", "missed", "cancelled"} \/ row.status = r.status
        /\ row.link = r.link \/ r.status \notin {"pending", "missed"}
        /\ row.started = r.started \/ row.status # "pending"
    BY <1>4, <1>5 DEF Live
  <2> QED  BY <1>5, <1>6, <2>1, <2>2, RowMoved
<1>9. IsRow(new) /\ new.status = "pending" /\ ~new.started /\ new.link = 0
  BY NewRows DEF Statuses
<1> HIDE DEF new
<1>10. LiveRows(d) = {}
  BY <1>4, <1>8, ActiveRun
<1>11. Rowed(e) /\ LinkedBut(e, {}) /\ Evolves(d, e) /\ e.job = d.job
       /\ Len(e.runs) = Len(d.runs) + 1
  BY <1>3, <1>8, <1>9, <1>10, Inserts
<1>12. db' = e /\ Len(e.runs) <= MaxRows
  BY <1>4 DEF Commit
<1>13. InOrder(e)
  BY <1>11, <1>12 DEF InOrder
<1>14. Started(d) = Started(db)
  BY <1>5, <1>8 DEF Started
<1>15. Started(e) = Started(db)
  BY <1>11, <1>14, BudgetEvolves
<1>16. Budget(e) /\ Gate(e, licensed)
  BY <1>6, <1>11, <1>15 DEF IInv, Budget, Gate
<1>17. /\ Moved(db, d)
       /\ \A k \in DOMAIN db.runs :
            d.runs[k].status = "pending" => db.runs[k].status = "pending"
  BY <1>4, <1>5, <1>8 DEF Moved, StatusMoves
<1>18. Moved(db, e)
  BY <1>11, <1>17, MovesOn
<1> QED  BY <1>4, <1>12, <1>13, <1>16, <1>18, Leads DEF IInv

LEMMA MaterializeStep == ASSUME IInv, Materialize PROVE Goes
<1>1. CASE db.on /\ db.job.enabled /\ ~db.job.deleted
  BY <1>1, Undeleted, GoesSafely, Following DEF Materialize, IInv
<1>2. CASE ~(db.on /\ db.job.enabled /\ ~db.job.deleted)
  BY <1>2, Stays DEF Materialize, Commit, IInv
<1> QED  BY <1>1, <1>2

\* The catch-up that an operator asked for is his.
LEMMA CatchesUp ==
  ASSUME IInv, NEW t, CatchUpStep(t), UNCHANGED licensed PROVE Goes
<1> DEFINE d == MaterializeJob(db, t)
           c == Coalesce(d, "catch_up")
           run == CaughtUpBy(d)
<1>1. Sane(db) /\ ~db.job.deleted
  BY Undeleted DEF CatchUpStep, Refuses
<1>2. Follows(db, d)
  BY <1>1, Materializes
<1>3. CatchUpWith(d, t)
  BY DEF CatchUpStep
<1> HIDE DEF d
<1>4. CASE Behind(d, t)
  <2>1. Commit(d) /\ call' = [op |-> "catch_up", at |-> t]
    BY <1>3, <1>4 DEF CatchUpWith
  <2>2. CallOK(call')
    BY <2>1 DEF CallOK
  <2> QED  BY <1>1, <1>2, <2>1, <2>2, Following
<1>5. CASE ~Behind(d, t)
  <2>1. run # 0 /\ Commit([c EXCEPT !.runs[run].source = "catch_up"]) /\ call' = None
    BY <1>3, <1>5 DEF CatchUpWith
  <2>2. Follows(d, c) /\ (Target(d) # 0 => Target(d) \in DOMAIN c.runs)
    BY <1>2, Coalesces DEF Follows
  <2>3. run \in DOMAIN c.runs
    <3>1. CASE Target(d) # 0
      BY <2>2, <3>1 DEF CaughtUpBy
    <3>2. CASE Target(d) = 0
      <4>1. run = Active(d)
        BY <2>1, <3>2 DEF CaughtUpBy
      <4>2. run \in DOMAIN d.runs
        BY <1>2, <2>1, <4>1, ActiveRun DEF Follows, Sane
      <4> QED  BY <2>2, <4>2 DEF Follows, Evolves
    <3> QED  BY <3>1, <3>2
  <2> HIDE DEF c, run
  <2>4. PICK row : row = [c.runs[run] EXCEPT !.source = "catch_up"]
    OBVIOUS
  <2>5. IsRow(c.runs[run])
    BY <2>2, <2>3 DEF Follows, Sane, Rowed, Shape
  <2>6. /\ IsRow(row) /\ row.link = c.runs[run].link /\ row.status = c.runs[run].status
        /\ row.started = c.runs[run].started
    BY <2>4, <2>5 DEF IsRow, RowFields
  <2>7. PICK e : e = [c EXCEPT !.runs[run] = row]
    OBVIOUS
  <2>8. Follows(c, e)
    BY <2>2, <2>3, <2>6, <2>7, RowWritten DEF Follows
  <2>9. Follows(db, e)
    BY <1>2, <2>2, <2>8, EvolvesOn
  <2>10. Commit(e) /\ CallOK(call')
    BY <2>1, <2>4, <2>7 DEF CallOK
  <2> QED  BY <1>1, <2>9, <2>10, Following
<1> QED  BY <1>4, <1>5

LEMMA CatchUpGoes == ASSUME IInv, CatchUp PROVE Goes
BY CatchesUp DEF CatchUp

LEMMA EditsAreOK ==
  ASSUME menu \in Menus, NEW c \in EditsOf[menu] PROVE EditOK(c)
<1>1. c \in AllEdits
  BY DEF EditsOf
<1>2. CASE c \in [enabled : BOOLEAN] \cup [catchUp : BOOLEAN] \cup [schedule : Kinds]
  BY <1>2 DEF EditOK
<1>3. CASE c \in [prompt : {"edited"}] \cup [decisionRequired : Modes] \cup [endAt : EndTimes]
  BY <1>3 DEF EditOK
<1>4. CASE c \in [maxRuns : RunLimits]
  BY <1>4 DEF EditOK
<1>5. CASE c \in [enabled : {TRUE}, endAt : EndTimes, maxRuns : RunLimits]
  BY <1>5 DEF EditOK
<1>6. CASE c \in [enabled : BOOLEAN, schedule : Kinds]
  BY <1>6 DEF EditOK
<1> QED  BY <1>1, <1>2, <1>3, <1>4, <1>5, <1>6 DEF AllEdits

LEMMA RepairedIsOK ==
  ASSUME NEW d, NEW c, EditOK(c), NEW t PROVE EditOK(Repaired(d, c, t))
BY DEF EditOK, Repaired

\* A job within its limits may start an execution.
LEMMA WithinBudget ==
  ASSUME NEW job, IsJob(job), NEW t, Limit(job, t) # "max_runs"
  PROVE  job.maxRuns # None => job.runCount < job.maxRuns
<1>1. job.runCount \in Nat /\ (job.maxRuns # None => job.maxRuns \in Nat)
  BY ScheduleAssumption DEF IsJob
<1>2. job.maxRuns # None => ~(job.runCount >= job.maxRuns)
  BY DEF Limit
<1> QED  BY <1>1, <1>2

LEMMA Updates ==
  ASSUME IInv, NEW c, EditOK(c), NEW t, UpdateStep(c, t) PROVE Goes
<1> DEFINE d == UpToDate(db, c, t)
           changes == Repaired(db, c, t)
           e == Applied(d, changes, t)
<1>1. ~db.job.deleted /\ UpdateWith(d, c, t)
  BY DEF UpdateStep
<1>2. Sane(db)
  BY <1>1, Undeleted
<1>3. Follows(db, d)
  BY <1>2, GoesSafely, Itself DEF UpToDate
<1> HIDE DEF d
<1>4. CASE Collects(db, c) /\ ~Uncalculable(db, t) /\ Behind(d, t)
  <2>1. Commit(d) /\ call' = [op |-> "update", at |-> t, changes |-> c] /\ UNCHANGED licensed
    BY <1>1, <1>4 DEF UpdateWith
  <2>2. CallOK(call')
    BY <2>1 DEF CallOK
  <2> QED  BY <1>1, <1>3, <2>1, <2>2, Following
<1>5. CASE ~(Collects(db, c) /\ ~Uncalculable(db, t) /\ Behind(d, t))
  <2>1. /\ Commit(e) /\ call' = None
        /\ licensed' = (licensed \/ Enables(changes) \/ Has(changes, "decisionRequired"))
    BY <1>1, <1>5 DEF UpdateWith
  <2>2. EditOK(changes)
    BY RepairedIsOK
  <2> HIDE DEF changes
  <2>3. /\ Sane(e) /\ Evolves(d, e)
        /\ e.job.runCount = d.job.runCount /\ e.job.deleted = d.job.deleted
        /\ e.job.enabled => /\ Limit(e.job, t) = None
                            /\ d.job.enabled \/ Enables(changes)
                            /\ \/ Has(changes, "decisionRequired")
                               \/ e.job.decisionRequired = d.job.decisionRequired
    BY <1>3, <2>2, Applies DEF Follows
  <2> HIDE DEF e
  <2>4. db' = e /\ Len(e.runs) <= MaxRows
    BY <2>1 DEF Commit
  <2>5. InOrder(e)
    BY <2>3, <2>4 DEF InOrder, Sane
  <2>6. Evolves(db, e)
    BY <1>3, <2>3 DEF Follows, Evolves
  <2>7. e.job.runCount = Cardinality(Started(e))
    BY <1>3, <2>3, <2>6, BudgetEvolves DEF IInv, Budget, Follows, JobKept
  <2>8. Budget(e)
    <3>1. IsJob(e.job)
      BY <2>3 DEF Sane, Rowed, Shape
    <3>2. e.job.enabled => Limit(e.job, t) # "max_runs"
      BY <2>3, ScheduleAssumption
    <3> QED  BY <2>7, <3>1, <3>2, WithinBudget DEF Budget
  <2>9. Gate(e, licensed')
    <3> SUFFICES ASSUME e.job.enabled, e.job.decisionRequired PROVE licensed'
      BY DEF Gate
    <3>1. CASE Enables(changes) \/ Has(changes, "decisionRequired")
      BY <2>1, <3>1
    <3>2. CASE ~(Enables(changes) \/ Has(changes, "decisionRequired"))
      <4>1. d.job.enabled /\ d.job.decisionRequired
        BY <2>3, <3>2
      <4>2. db.job.enabled /\ db.job.decisionRequired
        BY <1>3, <4>1 DEF Follows, JobKept
      <4>3. licensed
        BY <4>2 DEF IInv, Gate
      <4> QED  BY <2>1, <4>3
    <3> QED  BY <3>1, <3>2
  <2>10. Moved(db, e)
    BY <2>6, EvolvesMoves
  <2>11. CallOK(call')
    BY <2>1 DEF CallOK
  <2> QED  BY <2>4, <2>5, <2>8, <2>9, <2>10, <2>11, Leads
<1> QED  BY <1>4, <1>5

LEMMA UpdateGoes ==
  ASSUME IInv, menu \in Menus, NEW c \in EditsOf[menu], Update(c) PROVE Goes
BY EditsAreOK, Updates DEF Update

LEMMA NextBatchStep == ASSUME IInv, NextBatch PROVE Goes
<1>1. CASE call' = None /\ UNCHANGED <<db, licensed>>
  BY <1>1, Stays DEF CallOK
<1>2. CASE call.op = "update" /\ UpdateStep(call.changes, call.at)
  <2>1. EditOK(call.changes)
    BY <1>2 DEF NextBatch, IInv, CallOK
  <2> QED  BY <1>2, <2>1, Updates
<1>3. CASE CatchUpStep(call.at) /\ UNCHANGED licensed
  BY <1>3, CatchesUp
<1> QED  BY <1>1, <1>2, <1>3 DEF NextBatch

\* An execution starts: one more of those that the job may start.
LEMMA ClaimStep == ASSUME IInv, Claim PROVE Goes
<1>1. CASE UNCHANGED db
  BY <1>1, Stays DEF Claim, IInv
<1>2. CASE ~UNCHANGED db
  <2>1. PICK i, d :
          /\ i \in Claimable(db, claimAt)
          /\ d = [db EXCEPT !.runs[i].status = "starting", !.runs[i].started = TRUE,
                            !.job.runCount = @ + 1]
          /\ db' = IF Limit(d.job, claimAt) = "max_runs" THEN StopJob(d, "max_runs") ELSE d
    BY <1>2 DEF Claim
  <2>0. i \in Claimable(db, claimAt)
    BY <2>1
  <2>2. i \in DOMAIN db.runs /\ db.runs[i].status = "pending" /\ ~db.job.deleted
    BY <2>0 DEF Claimable, Pending
  <2>3. PICK row : row = [db.runs[i] EXCEPT !.status = "starting", !.started = TRUE]
    OBVIOUS
  <2>4. PICK job : job = [db.job EXCEPT !.runCount = @ + 1]
    OBVIOUS
  <2>5. Sane(db)
    BY <2>2, Undeleted
  <2>6. IsRow(row) /\ row.status = "starting" /\ row.started /\ row.link = 0
    BY <2>2, <2>3, <2>5 DEF Sane, Rowed, Shape, QueuedIsNew, IsRow, RowFields, Statuses
  <2>7. PICK n \in Nat : n = db.job.runCount
    BY <2>5 DEF Sane, Rowed, Shape, IsJob
  <2>8. IsJob(db.job)
    BY <2>5 DEF Sane, Rowed, Shape
  <2>9. job = [db.job EXCEPT !.runCount = n + 1]
    BY <2>4, <2>7
  <2>10. /\ IsJob(job) /\ job.runCount = n + 1 /\ job.maxRuns = db.job.maxRuns
         /\ job.enabled = db.job.enabled /\ job.decisionRequired = db.job.decisionRequired
         /\ job.deleted = db.job.deleted
    BY <2>7, <2>8, <2>9 DEF IsJob, JobFields
  <2>11. /\ d = [f \in {"job", "runs", "on", "beat"} |-> d[f]] /\ d.job = job
         /\ d.runs = [db.runs EXCEPT ![i] = row]
    BY <2>1, <2>2, <2>3, <2>4, <2>5 DEF Sane, Rowed, Shape
  <2>12. /\ Rowed(d) /\ DOMAIN d.runs = DOMAIN db.runs /\ Len(d.runs) = Len(db.runs)
         /\ d.runs[i] = row /\ \A k \in DOMAIN db.runs \ {i} : d.runs[k] = db.runs[k]
         /\ LinkedBut(d, {})
    <3>1. Rowed(db) /\ LinkedBut(db, {})
      BY <2>5 DEF Sane
    <3>2. /\ row.status \in Live => db.runs[i].status \in Live
          /\ row.status \notin {"pending", "missed", "cancelled"} \/ row.status = db.runs[i].status
          /\ row.link = db.runs[i].link \/ db.runs[i].status \notin {"pending", "missed"}
          /\ row.started = db.runs[i].started \/ row.status # "pending"
      BY <2>2, <2>5, <2>6 DEF Live, Sane, Rowed, QueuedIsNew
    <3> QED  BY <2>2, <2>6, <2>10, <2>11, <3>1, <3>2, RowMoved
  <2>13. Started(d) = Started(db) \cup {i} /\ i \notin Started(db)
    BY <2>2, <2>5, <2>6, <2>12 DEF Started, Sane, Rowed, QueuedIsNew
  <2>14. d.job.runCount = Cardinality(Started(d))
    <3>1. IsFiniteSet(Started(db)) /\ Cardinality(Started(db)) = n
      BY <2>5, <2>7, StartedRows DEF Sane, Rowed, IInv, Budget
    <3> QED  BY <2>10, <2>11, <2>13, <3>1, FS_AddElement
  <2>15. /\ Moved(db, d)
         /\ \A k \in DOMAIN db.runs :
              d.runs[k].status = "pending" => db.runs[k].status = "pending"
    BY <2>2, <2>6, <2>12 DEF Moved, StatusMoves
  <2>16. Gate(d, licensed) /\ Len(d.runs) <= MaxRows
    BY <2>10, <2>11, <2>12 DEF IInv, Gate, InOrder
  <2>17. CallOK(call') /\ licensed' = licensed
    BY DEF Claim, IInv
  <2>18. CASE Limit(d.job, claimAt) # "max_runs"
    <3>1. Budget(d)
      BY <2>10, <2>11, <2>14, <2>18, WithinBudget DEF Budget
    <3>2. InOrder(d)
      BY <2>12, <2>16 DEF InOrder
    <3> QED  BY <2>1, <2>15, <2>16, <2>17, <2>18, <3>1, <3>2, Leads
  <2>19. CASE Limit(d.job, claimAt) = "max_runs"
    <3> DEFINE e == StopJob(d, "max_runs")
    <3>1. Sane(d)
      BY <2>12 DEF Sane
    <3>2. Follows(d, e) /\ ~e.job.enabled /\ Len(e.runs) = Len(d.runs)
      BY <3>1, Stops
    <3>3. db' = e
      BY <2>1, <2>19
    <3> HIDE DEF e
    <3>4. InOrder(e)
      BY <2>16, <3>2 DEF Follows, Sane, InOrder
    <3>5. Budget(e) /\ Gate(e, licensed)
      BY <2>14, <3>2, BudgetEvolves DEF Follows, JobKept, Budget, Gate
    <3>6. Moved(db, e)
      BY <2>15, <3>2, MovesOn DEF Follows
    <3> QED  BY <2>17, <3>3, <3>4, <3>5, <3>6, Leads
  <2> QED  BY <2>18, <2>19
<1> QED  BY <1>1, <1>2

\* The job is stopped unless its execution lets it go on.
LEMMA DecisionsApply ==
  ASSUME IInv, NEW i \in DOMAIN db.runs, NEW row, IsRow(row),
         row.started = db.runs[i].started, row.link = db.runs[i].link,
         \/ row.status = db.runs[i].status
         \/ <<db.runs[i].status, row.status>> \in StatusMoves /\ db.runs[i].status # "pending",
         ~db.job.deleted,
         NEW d, d = [db EXCEPT !.runs[i] = row],
         \/ db' = d /\ Gate(d, licensed')
         \/ \E reason : db' = StopJob(d, reason),
         CallOK(call')
  PROVE  Goes
<1>1. /\ InOrder(d) /\ Started(d) = Started(db) /\ Moved(db, d) /\ d.job = db.job
      /\ \A k \in DOMAIN db.runs : d.runs[k].status = "pending" => db.runs[k].status = "pending"
  BY RowGoes DEF IInv, Writes
<1>2. Budget(d)
  BY <1>1 DEF IInv, Budget
<1>3. CASE db' = d /\ Gate(d, licensed')
  BY <1>1, <1>2, <1>3, Leads
<1>4. ASSUME NEW reason, db' = StopJob(d, reason) PROVE Goes
  <2> DEFINE e == StopJob(d, reason)
  <2>1. Sane(d)
    BY <1>1 DEF InOrder, Sane
  <2>2. Follows(d, e) /\ ~e.job.enabled /\ Len(e.runs) = Len(d.runs)
    BY <2>1, Stops
  <2>3. db' = e
    BY <1>4
  <2> HIDE DEF e
  <2>4. InOrder(e)
    BY <1>1, <2>2 DEF Follows, Sane, InOrder
  <2>5. Budget(e) /\ Gate(e, licensed')
    BY <1>2, <2>2, BudgetEvolves DEF Follows, JobKept, Budget, Gate
  <2>6. Moved(db, e)
    BY <1>1, <2>2, MovesOn DEF Follows
  <2> QED  BY <2>3, <2>4, <2>5, <2>6, Leads
<1> QED  BY <1>3, <1>4

LEMMA DecideStep ==
  ASSUME IInv, NEW i \in DOMAIN db.runs, NEW decision, Decide(i, decision) PROVE Goes
<1>1. PICK row : row = [db.runs[i] EXCEPT !.decision = decision]
  OBVIOUS
<1>2. PICK d : d = [db EXCEPT !.runs[i] = row]
  OBVIOUS
<1>3. IsRow(db.runs[i])
  BY DEF IInv, InOrder, Rowed, Shape
<1>4. /\ IsRow(row) /\ row.started = db.runs[i].started /\ row.link = db.runs[i].link
      /\ row.status = db.runs[i].status
  BY <1>1, <1>3 DEF IsRow, RowFields
<1>5. \/ db' = d
      \/ \E reason : db' = StopJob(d, reason)
  BY <1>1, <1>2 DEF Decide
<1>6. d.job = db.job
  BY <1>2 DEF IInv, InOrder, Rowed, Shape
<1>7. Gate(d, licensed')
  BY <1>6 DEF IInv, Gate, Decide
<1>8. ~db.job.deleted /\ CallOK(call')
  BY DEF Decide, IInv
<1> QED  BY <1>2, <1>4, <1>5, <1>7, <1>8, DecisionsApply

\* An outcome is recorded.
LEMMA OutcomeStep ==
  ASSUME IInv, NEW i \in DOMAIN db.runs, NEW status \in Statuses,
         <<db.runs[i].status, status>> \in StatusMoves, db.runs[i].status # "pending",
         ~db.job.deleted,
         db' = ApplyDecision([db EXCEPT !.runs[i].status = status], db.runs[i], status),
         Licenses(db.runs[i], status), UNCHANGED call
  PROVE  Goes
<1>1. PICK row : row = [db.runs[i] EXCEPT !.status = status]
  OBVIOUS
<1>2. PICK d : d = [db EXCEPT !.runs[i] = row]
  OBVIOUS
<1>3. IsRow(db.runs[i])
  BY DEF IInv, InOrder, Rowed, Shape
<1>4. /\ IsRow(row) /\ row.started = db.runs[i].started /\ row.link = db.runs[i].link
      /\ row.status = status
  BY <1>1, <1>3 DEF IsRow, RowFields
<1>5. db' = ApplyDecision(d, db.runs[i], status)
  BY <1>1, <1>2
<1>6. d.job = db.job
  BY <1>2 DEF IInv, InOrder, Rowed, Shape
<1>7. CASE ~d.job.decisionRequired \/ (Limit(d.job, now) = None /\ Continues(db.runs[i], status))
  <2>1. db' = d
    BY <1>5, <1>7 DEF ApplyDecision
  <2>2. Gate(d, licensed')
    BY <1>6, <1>7 DEF IInv, Gate, Licenses, Continues
  <2> QED  BY <1>2, <1>4, <2>1, <2>2, DecisionsApply DEF IInv
<1>8. CASE ~(~d.job.decisionRequired \/ (Limit(d.job, now) = None /\ Continues(db.runs[i], status)))
  <2>1. \E reason : db' = StopJob(d, reason)
    BY <1>5, <1>8 DEF ApplyDecision
  <2> QED  BY <1>2, <1>4, <2>1, DecisionsApply DEF IInv
<1> QED  BY <1>7, <1>8

LEMMA FinishStep ==
  ASSUME IInv, NEW i \in DOMAIN db.runs, NEW status, Finish(i, status) PROVE Goes
<1>1. /\ \/ db.runs[i].status = "starting" /\ status = "failed"
         \/ db.runs[i].status = "running" /\ status \in {"succeeded", "uncertain"}
      /\ ~db.job.deleted /\ UNCHANGED call /\ Licenses(db.runs[i], status)
      /\ db' = ApplyDecision([db EXCEPT !.runs[i].status = status], db.runs[i], status)
  BY DEF Finish
<1>2. /\ status \in Statuses /\ <<db.runs[i].status, status>> \in StatusMoves
      /\ db.runs[i].status # "pending"
  BY <1>1 DEF Statuses, StatusMoves
<1> QED  BY <1>1, <1>2, OutcomeStep

LEMMA RecoverInterruptedStep == ASSUME IInv, RecoverInterrupted PROVE Goes
<1>1. PICK i \in DOMAIN db.runs :
        /\ db.runs[i].status \in {"starting", "running"}
        /\ ~db.job.deleted
        /\ db' = ApplyDecision([db EXCEPT !.runs[i].status = InDoubt], db.runs[i], InDoubt)
        /\ Licenses(db.runs[i], InDoubt)
  BY DEF RecoverInterrupted
<1>2. /\ InDoubt \in Statuses /\ <<db.runs[i].status, InDoubt>> \in StatusMoves
      /\ db.runs[i].status # "pending"
  BY <1>1 DEF InDoubt, Statuses, StatusMoves
<1>3. UNCHANGED call
  BY DEF RecoverInterrupted
<1> QED  BY <1>1, <1>2, <1>3, OutcomeStep
-----------------------------------------------------------------------------
(* The theorems *)

LEMMA InitHolds == ASSUME Init PROVE IInv
<1>1. /\ db.runs = <<>> /\ db = [f \in {"job", "runs", "on", "beat"} |-> db[f]]
      /\ IsJob(db.job) /\ ~db.job.deleted /\ db.job.runCount = 0
  BY DEF Init, IsJob, JobFields
<1>2. Listed(db.runs) /\ DOMAIN db.runs = {} /\ Len(db.runs) = 0
  BY <1>1 DEF Listed
<1>3. InOrder(db)
  BY <1>1, <1>2, ScheduleAssumption
     DEF InOrder, Rowed, Shape, OneLive, LiveRows, QueuedIsNew, LinkedBut
<1>4. Started(db) = {}
  BY <1>2 DEF Started
<1>5. db.job.maxRuns # None => db.job.maxRuns \in Nat \ {0}
  BY <1>1, ScheduleAssumption DEF IsJob
<1>6. Budget(db)
  <2>1. db.job.maxRuns # None => db.job.runCount < db.job.maxRuns
    BY <1>1, <1>5
  <2>2. Cardinality(Started(db)) = 0
    BY <1>4, FS_EmptySet
  <2> QED  BY <1>1, <2>1, <2>2 DEF Budget
<1>7. Gate(db, licensed) /\ CallOK(call)
  BY DEF Init, Gate, CallOK
<1> QED  BY <1>3, <1>6, <1>7 DEF IInv

LEMMA NextStep == ASSUME IInv, menu \in Menus, [Next]_vars PROVE Goes
<1>1. CASE Operators
  BY <1>1, UpdateGoes, CatchUpGoes, NextBatchStep, DeleteStep, EnqueueStep, DismissStep, RetryStep,
     SetEnabledStep DEF Operators
<1>2. CASE Worker
  BY <1>2, HeartbeatStep, MaterializeStep, ClaimStep, RecoverInterruptedStep, HostStep,
     MarkRunningStep, DecideStep, FinishStep DEF Worker
<1>3. CASE Tick
  BY <1>3, TickStep
<1>4. CASE UNCHANGED vars
  BY <1>4, Stays DEF vars, IInv
<1> QED  BY <1>1, <1>2, <1>3, <1>4 DEF Next

LEMMA MenuStep == ASSUME [Next]_vars PROVE UNCHANGED menu
<1>1. CASE Operators
  BY <1>1 DEF Operators, Update, CatchUp, NextBatch, Delete, Enqueue, Dismiss, Retry, SetEnabled,
              Command, ghost
<1>2. CASE Worker
  BY <1>2 DEF Worker, Heartbeat, Materialize, Claim, RecoverInterrupted, RecordHost, ClearHost,
              MarkRunning, Decide, Finish, ghost
<1> QED  BY <1>1, <1>2 DEF Next, Tick, vars, ghost

LEMMA Menued == Spec => [](menu \in Menus)
<1>1. Init => menu \in Menus
  BY DEF Init
<1>2. menu \in Menus /\ [Next]_vars => (menu \in Menus)'
  BY MenuStep
<1> QED  BY <1>1, <1>2, PTL DEF Spec

\* In every behaviour the rows are in order, within the job's budget and its decisions.
THEOREM Invariant == Spec => []IInv
<1>1. IInv /\ menu \in Menus /\ [Next]_vars => IInv'
  BY NextStep DEF Goes
<1> QED  BY <1>1, InitHolds, Menued, PTL DEF Spec

\* Limits, decisions and catch-up survive any order of edits, claims and outcomes.
THEOREM LimitsStayKept == Spec => []LimitsAreKept
<1>1. ASSUME IInv PROVE MissedStaysCatchable
  BY <1>1 DEF IInv, InOrder, LinkedBut, MissedStaysCatchable
<1>2. ASSUME IInv PROVE EnabledHasBudget
  BY <1>2 DEF IInv, Budget, Started, EnabledHasBudget
<1>3. ASSUME IInv PROVE DecisionGates
  BY <1>3 DEF IInv, Gate, DecisionGates
<1>4. IInv => LimitsAreKept
  BY <1>1, <1>2, <1>3 DEF LimitsAreKept
<1> QED  BY <1>4, Invariant, PTL

\* The unique index one_live_run is never violated.
THEOREM RowsStaySingle == Spec => []OneLiveRun
<1>1. ASSUME IInv PROVE OneLiveRun
  <2>1. Rowed(db)
    BY <1>1 DEF IInv, InOrder
  <2>2. LiveRows(db) = {} \/ LiveRows(db) = {Active(db)}
    BY <2>1, ActiveRun
  <2>3. Cardinality({}) = 0 /\ Cardinality({Active(db)}) = 1
    BY FS_EmptySet, FS_Singleton
  <2> QED  BY <2>2, <2>3 DEF OneLiveRun
<1> QED  BY <1>1, Invariant, PTL

LEMMA LedgerInitially == ASSUME Init PROVE Ledger!LedgerInit
<1>1. DOMAIN db.runs = {}
  BY DEF Init
<1> QED  BY <1>1 DEF Ledger!LedgerInit

\* Such a move is one of the ledger's, or none.
LEMMA LedgerMove ==
  ASSUME IInv, Goes PROVE Ledger!LedgerNext
<1> DEFINE old(i) == IF i \in DOMAIN db.runs THEN Fate[db.runs[i].status] ELSE "unknown"
           new(i) == IF i \in DOMAIN db'.runs THEN Fate[db'.runs[i].status] ELSE "unknown"
<1>1. /\ \A i \in DOMAIN db.runs : db.runs[i].status \in Statuses
      /\ \A i \in DOMAIN db'.runs : db'.runs[i].status \in Statuses
      /\ OneLive(db')
  BY DEF Goes, IInv, InOrder, Rowed, Shape, IsRow
<1>2. ASSUME NEW i \in 1 .. MaxRows PROVE new(i) \in Ledger!Fates
  BY <1>1 DEF Fate, Statuses, Ledger!Fates
<1>3. ASSUME NEW i \in 1 .. MaxRows, new(i) # old(i) PROVE <<old(i), new(i)>> \in Ledger!Moves
  <2>1. CASE i \in DOMAIN db.runs
    <3>1. i \in DOMAIN db'.runs /\ <<db.runs[i].status, db'.runs[i].status>> \in StatusMoves
      BY <1>3, <2>1 DEF Goes, Moved
    <3> QED  BY <1>3, <2>1, <3>1 DEF StatusMoves, Fate, Statuses, Ledger!Moves
  <2>2. CASE i \notin DOMAIN db.runs
    <3>1. i \in DOMAIN db'.runs
          /\ db'.runs[i].status \in {"pending", "missed", "failed", "cancelled"}
      BY <1>3, <2>2 DEF Goes, Moved
    <3> QED  BY <1>3, <2>2, <3>1 DEF Fate, Statuses, Ledger!Moves
  <2> QED  BY <2>1, <2>2
<1>4. ASSUME NEW i \in 1 .. MaxRows, new(i) \in Ledger!Live PROVE i \in LiveRows(db')
  BY <1>1, <1>4 DEF Fate, Statuses, Ledger!Live, LiveRows, Live
<1>5. \A i, k \in 1 .. MaxRows : i # k => ~(new(i) \in Ledger!Live /\ new(k) \in Ledger!Live)
  BY <1>1, <1>4 DEF OneLive
<1> QED  BY <1>2, <1>3, <1>5 DEF Ledger!LedgerNext, Ledger!OneLive

\* The rows of a job are a RunLedger: what began never returns to the queue, what is in
\* doubt waits for an operator, and one run at a time is queued, executing or in doubt.
THEOREM LedgerIsKept == Spec => KeepsRunLedger
<1>1. IInv /\ menu \in Menus /\ [Next]_vars => Ledger!LedgerNext
  BY NextStep, LedgerMove
<1> QED  BY <1>1, Invariant, Menued, LedgerInitially, PTL
            DEF Spec, KeepsRunLedger, Ledger!LedgerSpec

-----------------------------------------------------------------------------
(* Occurrences *)

\* Run k, which is queued or being cancelled, takes the miss i.
WaitsFor(d, queued, i, k) ==
  /\ d.runs[i].status = "missed" /\ d.runs[i].link = k
  /\ k \in DOMAIN d.runs /\ (d.runs[k].status = "pending" \/ k \in queued)

\* The rows that answer for their occurrences: a miss that was taken does so until the run
\* that took it starts.
Holds(d, queued, i) ==
  /\ d.runs[i].status \notin {"cancelled", "retried"}
  /\ d.runs[i].status = "missed" =>
       d.runs[i].link = 0 \/ WaitsFor(d, queued, i, d.runs[i].link)

\* An occurrence has one such row, and the run that takes it.
Apart(d, queued) == \A i, k \in DOMAIN d.runs :
  i # k /\ Holds(d, queued, i) /\ Holds(d, queued, k) /\ d.runs[i].due \cap d.runs[k].due # {}
    => WaitsFor(d, queued, i, k) \/ WaitsFor(d, queued, k, i)

\* What was retried is older than what is queued.
Latest(d) == \A i, k \in DOMAIN d.runs :
  d.runs[i].status = "retried" /\ d.runs[k].status = "pending" => i < k

\* The occurrence that a queued run was created for is not one of the misses it took.
Current(d, queued) == \A k \in DOMAIN d.runs :
  d.runs[k].status = "pending" /\ d.runs[k].current # None =>
    /\ d.runs[k].current \in d.runs[k].due
    /\ \A i \in DOMAIN d.runs : WaitsFor(d, queued, i, k) => d.runs[k].current \notin d.runs[i].due

\* What started was claimed; what was paused is never queued.
Settled(d) == \A i \in DOMAIN d.runs :
  /\ d.runs[i].status = "missed" => d.runs[i].link = 0 \/ d.runs[i].link \in DOMAIN d.runs
  /\ d.runs[i].started => d.runs[i].status \notin {"pending", "missed", "cancelled"}
  /\ d.runs[i].source = "paused" => d.runs[i].status = "missed"

\* Occurrences have come, and but for those recorded as paused none while the job was.
Dated(d, t, past) == \A i \in DOMAIN d.runs :
  /\ d.runs[i].due \subseteq 0 .. t
  /\ d.runs[i].source # "paused" => d.runs[i].due \cap past = {}

\* The next one comes after all of them, and after the pauses of a job that runs.
Ahead(d, past) ==
  /\ d.job.next \in Nat \cup {None}
  /\ d.job.next # None => \A i \in DOMAIN d.runs : \A x \in d.runs[i].due : x < d.job.next
  /\ d.job.next # None /\ d.job.enabled => \A p \in past : p < d.job.next

\* StartedOnce, of the rows of a transaction.
Once(d) == \A i, k \in DOMAIN d.runs :
  /\ i < k /\ d.runs[i].started /\ d.runs[k].started
  /\ d.runs[i].due \cap d.runs[k].due # {}
  => d.runs[i].status = "retried"

Tracked(d, queued, t, past) ==
  /\ Apart(d, queued) /\ Latest(d) /\ Current(d, queued) /\ Settled(d)
  /\ Dated(d, t, past) /\ Ahead(d, past)
Kept(d, t, past) == Tracked(d, {}, t, past) /\ Once(d)

\* The statuses of a run that began.
Begun == {"starting", "running", "uncertain", "succeeded", "failed", "dismissed"}

\* A row whose occurrences stay: it is missed, cancelled or started, its execution goes on, or
\* it is a miss of a cancelled run.
Same(r, s) ==
  /\ s.due = r.due /\ s.current = r.current /\ (s.source = "paused" <=> r.source = "paused")
Moves(d, e, queued) == \A i \in DOMAIN d.runs :
  /\ Same(d.runs[i], e.runs[i])
  /\ \/ e.runs[i].status = d.runs[i].status
     \/ /\ d.runs[i].status = "pending" /\ e.runs[i].status \in {"missed", "cancelled", "starting"}
        /\ d.runs[i].source # "paused"
     \/ d.runs[i].status \in Begun /\ e.runs[i].status \in Begun
  /\ \/ e.runs[i].link = d.runs[i].link
     \/ /\ d.runs[i].status = "missed" /\ e.runs[i].link = 0
        /\ WaitsFor(d, queued, i, d.runs[i].link)
        /\ e.runs[d.runs[i].link].status = "cancelled"

\* The rows are rewritten.
LEMMA Rephrased ==
  ASSUME NEW d, NEW e, NEW t, NEW past, NEW queued, NEW left, Tracked(d, queued, t, past),
         DOMAIN e.runs = DOMAIN d.runs, e.job = d.job, Moves(d, e, queued),
         \A i \in DOMAIN d.runs : d.runs[i].status = "pending" => d.runs[i].link = 0,
         \A i \in DOMAIN d.runs :
           e.runs[i].started => e.runs[i].status \notin {"pending", "missed", "cancelled"},
         0 \notin DOMAIN d.runs,
         \A i \in queued : i \in DOMAIN d.runs /\ d.runs[i].status \in {"pending", "cancelled"},
         \A i \in left : i \in queued \/ d.runs[i].status = "pending",
         \A i \in queued : i \in left \/ e.runs[i].status = "cancelled"
  PROVE  Tracked(e, left, t, past)
<1>1. ASSUME NEW i \in DOMAIN d.runs, NEW k, WaitsFor(e, left, i, k)
      PROVE  WaitsFor(d, queued, i, k)
  BY <1>1 DEF WaitsFor, Moves, Begun
<1>2. ASSUME NEW i \in DOMAIN d.runs, Holds(e, left, i) PROVE Holds(d, queued, i)
  <2>1. d.runs[i].status \notin {"cancelled", "retried"}
    BY <1>2 DEF Holds, Moves, Begun
  <2>2. ASSUME d.runs[i].status = "missed", d.runs[i].link # 0
        PROVE  WaitsFor(d, queued, i, d.runs[i].link)
    <3>1. e.runs[i].status = "missed"
      BY <2>2 DEF Moves, Begun
    <3>2. CASE e.runs[i].link = d.runs[i].link
      BY <1>1, <1>2, <2>2, <3>1, <3>2 DEF Holds
    <3>3. CASE e.runs[i].link # d.runs[i].link
      BY <3>3 DEF Moves
    <3> QED  BY <3>2, <3>3
  <2> QED  BY <2>1, <2>2 DEF Holds
<1>3. ASSUME NEW i \in DOMAIN d.runs, NEW k \in DOMAIN d.runs,
             Holds(e, left, i), Holds(e, left, k), WaitsFor(d, queued, i, k)
      PROVE  WaitsFor(e, left, i, k)
  <2>1. d.runs[i].status = "missed" /\ d.runs[i].link = k /\ k # 0
    BY <1>3 DEF WaitsFor
  <2>2. e.runs[i].status = "missed"
    BY <2>1 DEF Moves, Begun
  <2>3. e.runs[i].link = k
    BY <1>3, <2>1 DEF Moves, Holds
  <2> QED  BY <1>3, <2>1, <2>2, <2>3 DEF Holds
<1>4. Apart(e, left)
  <2> SUFFICES ASSUME NEW i \in DOMAIN e.runs, NEW k \in DOMAIN e.runs, i # k,
                      Holds(e, left, i), Holds(e, left, k),
                      e.runs[i].due \cap e.runs[k].due # {}
               PROVE  WaitsFor(e, left, i, k) \/ WaitsFor(e, left, k, i)
    BY DEF Apart
  <2>1. d.runs[i].due \cap d.runs[k].due # {}
    BY DEF Moves, Same
  <2>2. WaitsFor(d, queued, i, k) \/ WaitsFor(d, queued, k, i)
    BY <1>2, <2>1 DEF Tracked, Apart
  <2> QED  BY <1>3, <2>2
<1>5. Latest(e)
  BY DEF Tracked, Latest, Moves, Begun
<1>6. Current(e, left)
  <2> SUFFICES ASSUME NEW k \in DOMAIN e.runs, e.runs[k].status = "pending",
                      e.runs[k].current # None
               PROVE  /\ e.runs[k].current \in e.runs[k].due
                      /\ \A i \in DOMAIN e.runs :
                           WaitsFor(e, left, i, k) => e.runs[k].current \notin e.runs[i].due
    BY DEF Current
  <2>1. d.runs[k].status = "pending"
    BY DEF Moves, Begun
  <2> QED  BY <1>1, <2>1 DEF Tracked, Current, Moves, Same
<1>7. Settled(e)
  BY DEF Tracked, Settled, Moves, Same, Begun
<1>8. Dated(e, t, past) /\ Ahead(e, past)
  BY DEF Tracked, Dated, Ahead, Moves, Same
<1> QED  BY <1>4, <1>5, <1>6, <1>7, <1>8 DEF Tracked

\* What started keeps its occurrences.
LEMMA StartedAlike ==
  ASSUME NEW d, NEW e, Once(d), DOMAIN d.runs \subseteq DOMAIN e.runs,
         \A i \in DOMAIN e.runs : e.runs[i].started =>
           /\ i \in DOMAIN d.runs /\ d.runs[i].started /\ e.runs[i].due = d.runs[i].due
           /\ d.runs[i].status = "retried" => e.runs[i].status = "retried"
  PROVE  Once(e)
BY DEF Once

\* A row is appended.
Extends(d, row, e) == e.runs = Append(d.runs, row)

\* It has not started, and no other answers for its occurrences.
Fits(d, queued, row, t, past) ==
  /\ ~row.started /\ row.link = 0 /\ row.status \in {"pending", "missed", "failed"}
  /\ row.source = "paused" => row.status = "missed"
  /\ row.due \subseteq 0 .. t /\ (row.source # "paused" => row.due \cap past = {})
  /\ \A i \in DOMAIN d.runs : Holds(d, queued, i) => row.due \cap d.runs[i].due = {}
  /\ row.status = "pending" => row.current = None \/ row.current \in row.due

\* Whatever comes next, comes after the occurrences of the rows and of some more.
Later(next, enabled, d, due, past) ==
  /\ next \in Nat \cup {None}
  /\ next # None => /\ \A x \in due : x < next
                    /\ \A i \in DOMAIN d.runs : \A x \in d.runs[i].due : x < next
                    /\ enabled => \A p \in past : p < next

LEMMA Adds ==
  ASSUME NEW d, NEW queued, NEW t, NEW past, Tracked(d, queued, t, past), Rowed(d),
         queued \subseteq DOMAIN d.runs, NEW row, Fits(d, queued, row, t, past),
         NEW e, Extends(d, row, e), Later(e.job.next, e.job.enabled, d, row.due, past)
  PROVE  Tracked(e, queued, t, past) /\ (Once(d) => Once(e))
<1> DEFINE n == Len(d.runs) + 1
<1>1. /\ n \notin DOMAIN d.runs /\ DOMAIN e.runs = DOMAIN d.runs \cup {n} /\ e.runs[n] = row
      /\ 0 \notin DOMAIN d.runs /\ n # 0 /\ \A i \in DOMAIN d.runs : i < n
      /\ \A i \in DOMAIN d.runs : e.runs[i] = d.runs[i]
  BY Appended, Numbered DEF Rowed, Shape, Extends
<1> HIDE DEF n
<1>2. ASSUME NEW i \in DOMAIN d.runs, NEW k
      PROVE  WaitsFor(e, queued, i, k) <=> WaitsFor(d, queued, i, k)
  BY <1>1 DEF WaitsFor, Tracked, Settled, Fits
<1>3. ASSUME NEW i \in DOMAIN d.runs PROVE Holds(e, queued, i) <=> Holds(d, queued, i)
  BY <1>1, <1>2 DEF Holds
<1>4. \A k \in DOMAIN e.runs : ~WaitsFor(e, queued, n, k)
  BY <1>1 DEF WaitsFor, Fits
<1>5. Apart(e, queued)
  BY <1>1, <1>2, <1>3 DEF Tracked, Apart, Fits
<1>6. Latest(e)
  BY <1>1 DEF Tracked, Latest, Fits
<1>7. Current(e, queued)
  <2> SUFFICES ASSUME NEW k \in DOMAIN e.runs, e.runs[k].status = "pending",
                      e.runs[k].current # None
               PROVE  /\ e.runs[k].current \in e.runs[k].due
                      /\ \A i \in DOMAIN e.runs :
                           WaitsFor(e, queued, i, k) => e.runs[k].current \notin e.runs[i].due
    BY DEF Current
  <2>1. CASE k \in DOMAIN d.runs
    BY <1>1, <1>2, <1>4, <2>1 DEF Tracked, Current
  <2>2. CASE k = n
    <3>1. \A i \in DOMAIN d.runs : ~WaitsFor(d, queued, i, n)
      BY <1>1 DEF WaitsFor
    <3> QED  BY <1>1, <1>2, <1>4, <2>2, <3>1 DEF Fits
  <2> QED  BY <1>1, <2>1, <2>2
<1>8. Settled(e) /\ Dated(e, t, past) /\ Ahead(e, past)
  BY <1>1 DEF Tracked, Settled, Dated, Ahead, Fits, Later
<1>9. Once(d) => Once(e)
  BY <1>1 DEF Once, Fits
<1> QED  BY <1>5, <1>6, <1>7, <1>8, <1>9 DEF Tracked

\* Only the job is written.
LEMMA JobMoves ==
  ASSUME NEW d, NEW queued, NEW t, NEW past, Tracked(d, queued, t, past),
         NEW e, e.runs = d.runs, Ahead(e, past)
  PROVE  Tracked(e, queued, t, past) /\ (Once(d) => Once(e))
BY DEF Tracked, Apart, Latest, Current, Settled, Dated, Once, Holds, WaitsFor

\* The occurrences of some rows.
DueOf(d, rows) == UNION {d.runs[i].due : i \in rows}

\* Misses that wait for a catch-up.
Waiting(d, missed) == \A i \in missed :
  /\ i \in DOMAIN d.runs /\ d.runs[i].status = "missed"
  /\ d.runs[i].link = 0 /\ d.runs[i].source # "paused"

\* A queued run takes misses, with their occurrences.
Takes(d, missed, k, e) ==
  /\ e.job = d.job /\ DOMAIN e.runs = DOMAIN d.runs \cup {k}
  /\ e.runs[k].status = "pending" /\ ~e.runs[k].started /\ e.runs[k].source # "paused"
  /\ e.runs[k].due = (IF k \in DOMAIN d.runs THEN d.runs[k].due ELSE {})
                     \cup DueOf(d, missed)
  /\ e.runs[k].current = (IF k \in DOMAIN d.runs THEN d.runs[k].current ELSE None)
  /\ \A i \in DOMAIN d.runs \ {k} :
       /\ Same(d.runs[i], e.runs[i]) /\ e.runs[i].status = d.runs[i].status
       /\ e.runs[i].started = d.runs[i].started
       /\ e.runs[i].link = IF i \in missed THEN k ELSE d.runs[i].link

LEMMA Gathers ==
  ASSUME NEW d, NEW t, NEW past, Tracked(d, {}, t, past), Rowed(d),
         NEW missed, Waiting(d, missed), NEW k, k \in DOMAIN d.runs => d.runs[k].status = "pending",
         k \in DOMAIN d.runs \/ k = Len(d.runs) + 1,
         NEW e, Takes(d, missed, k, e)
  PROVE  /\ Tracked(e, {}, t, past) /\ (Once(d) => Once(e))
         /\ \A i \in DOMAIN e.runs : \A x \in e.runs[i].due :
              \E j \in DOMAIN d.runs : x \in d.runs[j].due
<1>1. /\ 0 \notin DOMAIN d.runs /\ k # 0 /\ k \notin missed
      /\ k \notin DOMAIN d.runs => \A i \in DOMAIN d.runs : i < k
      /\ k \in DOMAIN d.runs => d.runs[k].status = "pending"
  BY Numbered DEF Rowed, Waiting
<1>2. ASSUME NEW i \in DOMAIN d.runs, NEW j, i # k, i \notin missed
      PROVE  WaitsFor(e, {}, i, j) <=> WaitsFor(d, {}, i, j)
  <2>1. e.runs[i].status = d.runs[i].status /\ e.runs[i].link = d.runs[i].link
    BY <1>2 DEF Takes, DueOf
  <2>2. ASSUME d.runs[i].status = "missed", d.runs[i].link = j
        PROVE  j \in DOMAIN e.runs /\ e.runs[j].status = "pending"
               <=> j \in DOMAIN d.runs /\ d.runs[j].status = "pending"
    BY <2>2, <1>1 DEF Tracked, Settled, Takes
  <2> QED  BY <2>1, <2>2 DEF WaitsFor
<1>3. ASSUME NEW i \in missed
      PROVE  WaitsFor(e, {}, i, k) /\ Holds(d, {}, i) /\ \A j : ~WaitsFor(d, {}, i, j)
  BY <1>1, <1>3 DEF Takes, WaitsFor, Holds, Waiting
<1>4. ASSUME NEW i \in DOMAIN d.runs, i # k, Holds(e, {}, i) PROVE Holds(d, {}, i)
  <2>1. CASE i \in missed
    BY <1>3, <2>1
  <2>2. CASE i \notin missed
    BY <1>2, <1>4, <2>2 DEF Takes, Holds
  <2> QED  BY <2>1, <2>2
<1>5. ASSUME NEW i \in DOMAIN d.runs, i # k, Holds(d, {}, i), i \notin missed,
             NEW j \in missed, d.runs[i].due \cap d.runs[j].due # {}
      PROVE  FALSE
  <2>1. WaitsFor(d, {}, i, j)
    BY <1>3, <1>5 DEF Tracked, Apart, Waiting
  <2> QED  BY <2>1, <1>5 DEF WaitsFor, Waiting
<1>6. ASSUME k \in DOMAIN d.runs PROVE Holds(d, {}, k) /\ \A j : ~WaitsFor(d, {}, k, j)
  BY <1>1, <1>6 DEF Holds, WaitsFor
<1>7. ASSUME k \in DOMAIN d.runs, NEW j \in missed PROVE d.runs[k].due \cap d.runs[j].due = {}
  BY <1>1, <1>3, <1>6, <1>7 DEF Tracked, Apart, Waiting
<1>8. ASSUME NEW i \in DOMAIN d.runs, i # k, Holds(e, {}, i), e.runs[i].due \cap e.runs[k].due # {}
      PROVE  WaitsFor(e, {}, i, k)
  <2>1. CASE i \in missed
    BY <1>3, <2>1
  <2>2. CASE i \notin missed
    <3>1. Holds(d, {}, i) /\ e.runs[i].due = d.runs[i].due
      BY <1>4, <1>8 DEF Takes, Same, DueOf
    <3>2. PICK x : x \in e.runs[i].due /\ x \in e.runs[k].due
      BY <1>8
    <3>3. ~\E j \in missed : x \in d.runs[j].due
      BY <1>5, <1>8, <2>2, <3>1, <3>2
    <3>4. k \in DOMAIN d.runs /\ x \in d.runs[k].due
      BY <3>2, <3>3 DEF Takes, DueOf
    <3>5. WaitsFor(d, {}, i, k)
      BY <1>6, <1>8, <3>1, <3>2, <3>4 DEF Tracked, Apart
    <3> QED  BY <1>2, <1>8, <2>2, <3>5
  <2> QED  BY <2>1, <2>2
<1>9. Apart(e, {})
  <2> SUFFICES ASSUME NEW i \in DOMAIN e.runs, NEW j \in DOMAIN e.runs, i # j,
                      Holds(e, {}, i), Holds(e, {}, j), e.runs[i].due \cap e.runs[j].due # {}
               PROVE  WaitsFor(e, {}, i, j) \/ WaitsFor(e, {}, j, i)
    BY DEF Apart
  <2>1. CASE i = k \/ j = k
    BY <1>8, <2>1 DEF Takes, DueOf
  <2>2. CASE i # k /\ j # k
    <3>1. i \in DOMAIN d.runs /\ j \in DOMAIN d.runs /\ Holds(d, {}, i) /\ Holds(d, {}, j)
      BY <1>4, <2>2 DEF Takes, DueOf
    <3>2. d.runs[i].due \cap d.runs[j].due # {}
      BY <2>2, <3>1 DEF Takes, Same, DueOf
    <3>3. WaitsFor(d, {}, i, j) \/ WaitsFor(d, {}, j, i)
      BY <3>1, <3>2 DEF Tracked, Apart
    <3> QED  BY <1>2, <1>3, <2>2, <3>1, <3>3
  <2> QED  BY <2>1, <2>2
<1>10. Latest(e)
  BY <1>1 DEF Tracked, Latest, Takes
<1>11. Current(e, {})
  <2> SUFFICES ASSUME NEW j \in DOMAIN e.runs, e.runs[j].status = "pending",
                      e.runs[j].current # None
               PROVE  /\ e.runs[j].current \in e.runs[j].due
                      /\ \A i \in DOMAIN e.runs :
                           WaitsFor(e, {}, i, j) => e.runs[j].current \notin e.runs[i].due
    BY DEF Current
  <2>1. j \in DOMAIN d.runs /\ d.runs[j].status = "pending" /\ e.runs[j].current = d.runs[j].current
    BY <1>1 DEF Takes, Same, DueOf
  <2>2. d.runs[j].current \in d.runs[j].due
    BY <2>1 DEF Tracked, Current
  <2>3. e.runs[j].current \in e.runs[j].due
    BY <2>1, <2>2 DEF Takes, Same, DueOf
  <2>4. ASSUME NEW i \in DOMAIN e.runs, WaitsFor(e, {}, i, j)
        PROVE  e.runs[j].current \notin e.runs[i].due
    <3>1. i \in DOMAIN d.runs /\ i # k
      BY <2>4 DEF WaitsFor, Takes
    <3>2. CASE i \in missed
      <4>1. j = k
        BY <1>3, <2>4, <3>2 DEF WaitsFor
      <4> QED  BY <1>7, <2>1, <2>2, <3>1, <3>2, <4>1 DEF Takes, Same, DueOf
    <3>3. CASE i \notin missed
      BY <1>2, <2>1, <2>4, <3>1, <3>3 DEF Tracked, Current, Takes, Same
    <3> QED  BY <3>2, <3>3
  <2> QED  BY <2>3, <2>4
<1>12. Settled(e)
  BY DEF Tracked, Settled, Takes, Same
<1>13. \A i \in DOMAIN e.runs : \A x \in e.runs[i].due :
         \E j \in DOMAIN d.runs : x \in d.runs[j].due
  BY DEF Takes, Same, DueOf, Waiting
<1>14. Ahead(e, past)
  BY <1>13 DEF Tracked, Ahead, Takes
<1>15. Dated(e, t, past)
  <2>1. ASSUME NEW i \in DOMAIN e.runs, i # k
        PROVE  /\ e.runs[i].due \subseteq 0 .. t
               /\ e.runs[i].source # "paused" => e.runs[i].due \cap past = {}
    BY <2>1 DEF Tracked, Dated, Takes, Same
  <2>2. ASSUME NEW x \in e.runs[k].due PROVE x \in 0 .. t /\ x \notin past
    <3>1. CASE k \in DOMAIN d.runs /\ x \in d.runs[k].due
      BY <1>1, <3>1 DEF Tracked, Dated, Settled
    <3>2. CASE \E i \in missed : x \in d.runs[i].due
      BY <3>2 DEF Tracked, Dated, Waiting
    <3> QED  BY <3>1, <3>2 DEF Takes, DueOf
  <2> QED  BY <2>1, <2>2 DEF Dated
<1>16. ASSUME Once(d) PROVE Once(e)
  BY <1>16 DEF Once, Takes, Same
<1> QED  BY <1>9, <1>10, <1>11, <1>12, <1>13, <1>14, <1>15, <1>16 DEF Tracked
-----------------------------------------------------------------------------
(* What the operators of a transaction do to occurrences *)

LEMMA CancelsTracked ==
  ASSUME NEW d, NEW queued, NEW t, NEW past, Tracked(d, queued, t, past), Rowed(d),
         \A i \in queued : i \in DOMAIN d.runs /\ d.runs[i].status \in {"pending", "cancelled"}
  PROVE  LET e == Cancel(d, queued)
         IN Tracked(e, {}, t, past) /\ (Once(d) => Once(e)) /\ e.job = d.job
<1> DEFINE e == Cancel(d, queued)
<1>1. /\ e = [f \in {"job", "runs", "on", "beat"} |-> e[f]] /\ e.job = d.job
      /\ e.runs = [i \in DOMAIN d.runs |->
           IF i \in queued THEN [d.runs[i] EXCEPT !.status = "cancelled"]
           ELSE IF d.runs[i].status = "missed" /\ d.runs[i].link \in queued
           THEN [d.runs[i] EXCEPT !.link = 0] ELSE d.runs[i]]
  BY DEF Cancel, Rowed, Shape
<1> HIDE DEF e
<1>2. ASSUME NEW i \in DOMAIN d.runs
      PROVE  /\ Same(d.runs[i], e.runs[i]) /\ e.runs[i].started = d.runs[i].started
             /\ e.runs[i].status = IF i \in queued THEN "cancelled" ELSE d.runs[i].status
             /\ e.runs[i].link = IF /\ i \notin queued
                                    /\ d.runs[i].status = "missed" /\ d.runs[i].link \in queued
                                 THEN 0 ELSE d.runs[i].link
  BY <1>1 DEF Rowed, Shape, IsRow, RowFields, Same
<1>3. DOMAIN e.runs = DOMAIN d.runs
  BY <1>1
<1>4. ASSUME NEW i \in DOMAIN d.runs
      PROVE  /\ \/ e.runs[i].status = d.runs[i].status
                \/ d.runs[i].status = "pending" /\ e.runs[i].status = "cancelled"
                   /\ d.runs[i].source # "paused"
             /\ \/ e.runs[i].link = d.runs[i].link
                \/ /\ d.runs[i].status = "missed" /\ e.runs[i].link = 0
                   /\ WaitsFor(d, queued, i, d.runs[i].link)
                   /\ e.runs[d.runs[i].link].status = "cancelled"
             /\ e.runs[i].started => e.runs[i].status \notin {"pending", "missed", "cancelled"}
  BY <1>2 DEF WaitsFor, Tracked, Settled
<1>5. Moves(d, e, queued)
  BY <1>2, <1>4 DEF Moves
<1>6. \A i \in DOMAIN d.runs : d.runs[i].status = "pending" => d.runs[i].link = 0
  BY DEF Rowed, QueuedIsNew
<1>7. 0 \notin DOMAIN d.runs
  BY Numbered DEF Rowed
<1>8. \A i \in queued : e.runs[i].status = "cancelled"
  BY <1>2
<1>9. Tracked(e, {}, t, past)
  BY <1>1, <1>3, <1>4, <1>5, <1>6, <1>7, <1>8, Rephrased
<1>10. ASSUME Once(d) PROVE Once(e)
  BY <1>2, <1>3, <1>4, <1>10, StartedAlike DEF Same
<1> QED  BY <1>1, <1>9, <1>10 DEF e

LEMMA StopKept ==
  ASSUME NEW d, NEW t, NEW past, Kept(d, t, past), Sane(d), NEW reason
  PROVE  LET e == StopJob(d, reason)
         IN /\ Kept(e, t, past) /\ e.job.next = None /\ e.job.schedule = d.job.schedule
            /\ e.job.endAt = d.job.endAt
<1> DEFINE c == Cancel(d, Pending(d))
           e == StopJob(d, reason)
<1>1. \A i \in Pending(d) : i \in DOMAIN d.runs /\ d.runs[i].status = "pending"
  BY DEF Pending
<1>2. Tracked(d, Pending(d), t, past)
  <2>1. \A i, k : WaitsFor(d, Pending(d), i, k) <=> WaitsFor(d, {}, i, k)
    BY DEF WaitsFor, Pending
  <2>2. \A i : Holds(d, Pending(d), i) <=> Holds(d, {}, i)
    BY <2>1 DEF Holds
  <2> QED  BY <2>1, <2>2 DEF Kept, Tracked, Apart, Current
<1>3. Tracked(c, {}, t, past) /\ Once(c) /\ c.job = d.job
  BY <1>1, <1>2, CancelsTracked DEF Kept, Sane
<1>4. e = [c EXCEPT !.job.enabled = FALSE, !.job.next = None, !.job.stop = reason]
  BY DEF StopJob
<1>5. c = [f \in {"job", "runs", "on", "beat"} |-> c[f]]
  BY DEF Cancel, Sane, Rowed, Shape
<1> HIDE DEF c, e
<1>6. /\ e.runs = c.runs /\ e.job.next = None
      /\ e.job.schedule = d.job.schedule /\ e.job.endAt = d.job.endAt
  BY <1>3, <1>4, <1>5 DEF Sane, Rowed, Shape, IsJob, JobFields
<1>7. Ahead(e, past)
  BY <1>6 DEF Ahead
<1> QED  BY <1>3, <1>6, <1>7, JobMoves DEF Kept, e

LEMMA AgesOutKept ==
  ASSUME NEW d, NEW t, NEW past, Kept(d, t, past), Sane(d), NEW at
  PROVE  Kept(AgeOut(d, at), t, past) /\ AgeOut(d, at).job = d.job
<1> DEFINE e == AgeOut(d, at)
           a == Active(d)
<1>1. CASE e = d
  BY <1>1
<1>2. CASE e # d
  <2>1. /\ ActiveIs(d, {"pending"}, {"schedule"})
        /\ e = [d EXCEPT !.runs[a].status = "missed"]
    BY <1>2 DEF AgeOut
  <2>2. /\ a \in DOMAIN d.runs /\ d.runs[a].status = "pending" /\ d.runs[a].source = "schedule"
    BY <2>1, ActiveRun DEF ActiveIs, Sane
  <2>3. /\ e = [f \in {"job", "runs", "on", "beat"} |-> e[f]] /\ e.job = d.job
        /\ e.runs = [d.runs EXCEPT ![a] = [d.runs[a] EXCEPT !.status = "missed"]]
    BY <2>1 DEF Sane, Rowed, Shape
  <2> HIDE DEF e, a
  <2>4. ASSUME NEW i \in DOMAIN d.runs
        PROVE  /\ Same(d.runs[i], e.runs[i]) /\ e.runs[i].started = d.runs[i].started
               /\ e.runs[i].link = d.runs[i].link
               /\ e.runs[i].status = IF i = a THEN "missed" ELSE d.runs[i].status
    BY <2>2, <2>3 DEF Sane, Rowed, Shape, IsRow, RowFields, Same
  <2>5. Moves(d, e, {}) /\ DOMAIN e.runs = DOMAIN d.runs
    BY <2>2, <2>3, <2>4 DEF Moves
  <2>6. \A i \in DOMAIN d.runs : d.runs[i].status = "pending" => d.runs[i].link = 0
    BY DEF Sane, Rowed, QueuedIsNew
  <2>7. 0 \notin DOMAIN d.runs
    BY Numbered DEF Sane, Rowed
  <2>8. \A i \in DOMAIN d.runs :
          e.runs[i].started => e.runs[i].status \notin {"pending", "missed", "cancelled"}
    BY <2>2, <2>4 DEF Kept, Tracked, Settled
  <2>9. Tracked(e, {}, t, past)
    BY <2>3, <2>5, <2>6, <2>7, <2>8, Rephrased DEF Kept
  <2>10. Once(e)
    BY <2>2, <2>4, <2>5, StartedAlike DEF Kept, Same
  <2> QED  BY <2>3, <2>9, <2>10 DEF Kept, e
<1> QED  BY <1>1, <1>2

\* Only the job is written, and its next occurrence is later than those of the rows.
LEMMA JobKeeps ==
  ASSUME NEW d, NEW t, NEW past, Kept(d, t, past), NEW e, e.runs = d.runs,
         Later(e.job.next, e.job.enabled, d, {}, past)
  PROVE  Kept(e, t, past)
<1>1. Ahead(e, past)
  BY DEF Ahead, Later
<1> QED  BY <1>1, JobMoves DEF Kept

\* The job has a schedule, and the next occurrence of a cron is one of its instants.
Timed(job) ==
  /\ job.schedule \in Kinds /\ job.endAt \in EndTimes
  /\ job.schedule = "cron" /\ job.next # None => job.next \in CronTimes

LEMMA ClosesKept ==
  ASSUME NEW d, NEW t, NEW past, Kept(d, t, past), Sane(d), Timed(d.job)
  PROVE  LET e == CloseWindow(d)
         IN /\ Kept(e, t, past) /\ Timed(e.job) /\ e.job.enabled = d.job.enabled
            /\ e.job.schedule = d.job.schedule /\ e.job.endAt = d.job.endAt
            /\ e.job.next = d.job.next \/ e.job.next = None
<1> DEFINE e == CloseWindow(d)
<1>1. CASE e = d
  BY <1>1
<1>2. CASE e # d
  <2>1. e = [d EXCEPT !.job.next = None]
    BY <1>2 DEF CloseWindow
  <2>2. e.runs = d.runs /\ e.job = [d.job EXCEPT !.next = None]
    BY <2>1 DEF Sane, Rowed, Shape
  <2> HIDE DEF e
  <2>3. /\ e.job.next = None /\ e.job.enabled = d.job.enabled
        /\ e.job.schedule = d.job.schedule /\ e.job.endAt = d.job.endAt
    BY <2>2 DEF Sane, Rowed, Shape, IsJob, JobFields
  <2>4. Later(e.job.next, e.job.enabled, d, {}, past)
    BY <2>3 DEF Later
  <2>5. Kept(e, t, past)
    BY <2>2, <2>4, JobKeeps
  <2> QED  BY <2>3, <2>5 DEF Timed, e
<1> QED  BY <1>1, <1>2

LEMMA TakesLinked ==
  ASSUME NEW d, Sane(d), NEW missed, NEW k, k \notin missed, NEW g,
         g.job = d.job, DOMAIN g.runs = DOMAIN d.runs \cup {k},
         g = [f \in {"job", "runs", "on", "beat"} |-> g[f]],
         g.runs[k].status = "pending", ~g.runs[k].started, g.runs[k].source # "paused",
         g.runs[k].due = (IF k \in DOMAIN d.runs THEN d.runs[k].due ELSE {}) \cup DueOf(d, missed),
         g.runs[k].current = (IF k \in DOMAIN d.runs THEN d.runs[k].current ELSE None),
         \A i \in DOMAIN d.runs \ {k} : g.runs[i] = d.runs[i]
  PROVE  Takes(d, missed, k, LinkTo(g, missed, k))
<1> DEFINE e == LinkTo(g, missed, k)
<1>1. /\ e.job = d.job
      /\ e.runs = [i \in DOMAIN g.runs |->
                     IF i \in missed THEN [g.runs[i] EXCEPT !.link = k] ELSE g.runs[i]]
  BY DEF LinkTo
<1> HIDE DEF e
<1>2. e.runs[k] = g.runs[k] /\ DOMAIN e.runs = DOMAIN g.runs
  BY <1>1
<1>3. ASSUME NEW i \in DOMAIN d.runs \ {k}
      PROVE  /\ Same(d.runs[i], e.runs[i]) /\ e.runs[i].status = d.runs[i].status
             /\ e.runs[i].started = d.runs[i].started
             /\ e.runs[i].link = IF i \in missed THEN k ELSE d.runs[i].link
  <2>1. IsRow(d.runs[i])
    BY DEF Sane, Rowed, Shape
  <2>2. e.runs[i] = IF i \in missed THEN [d.runs[i] EXCEPT !.link = k] ELSE d.runs[i]
    BY <1>1
  <2> QED  BY <2>1, <2>2 DEF IsRow, RowFields, Same
<1>4. /\ e.runs[k].status = "pending" /\ ~e.runs[k].started /\ e.runs[k].source # "paused"
      /\ e.runs[k].due = (IF k \in DOMAIN d.runs THEN d.runs[k].due ELSE {})
                         \cup DueOf(d, missed)
      /\ e.runs[k].current = (IF k \in DOMAIN d.runs THEN d.runs[k].current ELSE None)
  BY <1>2
<1> QED  BY <1>1, <1>2, <1>3, <1>4 DEF Takes, e

LEMMA TakesInto ==
  ASSUME NEW d, Sane(d), NEW source \in {"catch_up", "auto_catch_up"},
         NEW missed, NEW k, k \notin missed,
         \A i \in missed : i \in DOMAIN d.runs,
         \/ k = Len(d.runs) + 1
         \/ k \in DOMAIN d.runs /\ d.runs[k].status = "pending" /\ ~d.runs[k].started,
         k \in DOMAIN d.runs => d.runs[k].source # "paused"
  PROVE  Takes(d, missed, k, CoalesceInto(d, source, missed, k))
<1> DEFINE e == CoalesceInto(d, source, missed, k)
           first == Min({d.runs[i].first : i \in missed})
           last == Max({d.runs[i].last : i \in missed})
           count == Occurrences(d, missed)
           due == DueOf(d, missed)
           new == NewRow("pending", source, first, last, count, due)
           old == Grown(d.runs[k], source, first, last, count, due)
<1>1. DOMAIN d.runs = 1 .. Len(d.runs) /\ Len(d.runs) \in Nat
  BY Numbered DEF Sane, Rowed
<1>2. CASE k = Len(d.runs) + 1
  <2> DEFINE g == InsertRun(d, new)
  <2>1. /\ new.status = "pending" /\ ~new.started /\ new.source # "paused" /\ new.due = due
        /\ new.current = None
    BY DEF NewRow
  <2>2. e = LinkTo(g, missed, k)
    BY <1>1, <1>2 DEF CoalesceInto, DueOf
  <2>3. /\ g = [f \in {"job", "runs", "on", "beat"} |-> g[f]] /\ g.job = d.job
        /\ g.runs = Append(d.runs, new)
    BY DEF InsertRun, Sane, Rowed, Shape
  <2> HIDE DEF e, new
  <2>4. /\ DOMAIN g.runs = 1 .. k /\ g.runs[k] = new /\ \A i \in DOMAIN d.runs : g.runs[i] = d.runs[i]
    BY <1>1, <1>2, <2>3, Appended DEF Sane, Rowed, Shape
  <2> HIDE DEF g
  <2>5. k \notin DOMAIN d.runs /\ DOMAIN g.runs = DOMAIN d.runs \cup {k}
    BY <1>1, <1>2, <2>4
  <2>6. /\ g.runs[k].status = "pending" /\ ~g.runs[k].started /\ g.runs[k].source # "paused"
        /\ g.runs[k].due = (IF k \in DOMAIN d.runs THEN d.runs[k].due ELSE {}) \cup due
        /\ g.runs[k].current = (IF k \in DOMAIN d.runs THEN d.runs[k].current ELSE None)
    BY <2>1, <2>4, <2>5
  <2>7. \A i \in DOMAIN d.runs \ {k} : g.runs[i] = d.runs[i]
    BY <2>4
  <2>8. Takes(d, missed, k, LinkTo(g, missed, k))
    BY <2>3, <2>5, <2>6, <2>7, TakesLinked
  <2> QED  BY <2>2, <2>8 DEF e
<1>3. CASE k \in DOMAIN d.runs /\ d.runs[k].status = "pending" /\ ~d.runs[k].started
  <2> DEFINE g == [d EXCEPT !.runs[k] = old]
  <2>1. e = LinkTo(g, missed, k)
    BY <1>1, <1>3 DEF CoalesceInto, DueOf
  <2>2. IsRow(d.runs[k])
    BY <1>3 DEF Sane, Rowed, Shape
  <2>3. /\ old.status = "pending" /\ ~old.started /\ old.source # "paused"
        /\ old.due = d.runs[k].due \cup due /\ old.current = d.runs[k].current
    BY <1>3, <2>2 DEF Grown, IsRow, RowFields
  <2>4. /\ g = [f \in {"job", "runs", "on", "beat"} |-> g[f]] /\ g.job = d.job
        /\ g.runs = [d.runs EXCEPT ![k] = old]
    BY DEF Sane, Rowed, Shape
  <2> HIDE DEF e, old, g
  <2>5. /\ DOMAIN g.runs = DOMAIN d.runs \cup {k} /\ g.runs[k] = old
        /\ \A i \in DOMAIN d.runs \ {k} : g.runs[i] = d.runs[i]
    BY <1>3, <2>4
  <2>6. /\ g.runs[k].status = "pending" /\ ~g.runs[k].started /\ g.runs[k].source # "paused"
        /\ g.runs[k].due = (IF k \in DOMAIN d.runs THEN d.runs[k].due ELSE {}) \cup due
        /\ g.runs[k].current = (IF k \in DOMAIN d.runs THEN d.runs[k].current ELSE None)
    BY <1>3, <2>3, <2>5
  <2>7. Takes(d, missed, k, LinkTo(g, missed, k))
    BY <2>4, <2>5, <2>6, TakesLinked
  <2> QED  BY <2>1, <2>7 DEF e
<1> QED  BY <1>2, <1>3

\* The misses are gathered by the queued run, or by a new one.
LEMMA CoalescesKept ==
  ASSUME NEW d, NEW t, NEW past, Kept(d, t, past), Sane(d),
         NEW source \in {"catch_up", "auto_catch_up"}
  PROVE  LET e == Coalesce(d, source)
         IN /\ Kept(e, t, past) /\ e.job = d.job
            /\ \A i \in DOMAIN e.runs : \A x \in e.runs[i].due :
                 \E j \in DOMAIN d.runs : x \in d.runs[j].due
            /\ Target(d) # 0 => /\ Target(d) \in DOMAIN e.runs
                                /\ e.runs[Target(d)].status = "pending"
<1> DEFINE e == Coalesce(d, source)
           k == Target(d)
           missed == Misses(d)
<1>1. CASE k = 0
  BY <1>1 DEF Coalesce
<1>2. CASE k # 0
  <2>1. e = CoalesceInto(d, source, missed, k)
    BY <1>2 DEF Coalesce
  <2>2. \/ k = Len(d.runs) + 1 /\ Active(d) = 0
        \/ k = Active(d) /\ Active(d) # 0 /\ ActiveIs(d, {"pending"}, Catchable)
    BY <1>2 DEF Target
  <2>3. \/ k = Len(d.runs) + 1
        \/ k \in DOMAIN d.runs /\ d.runs[k].status = "pending" /\ ~d.runs[k].started
    BY <2>2, ActiveRun DEF Sane, ActiveIs, Rowed, QueuedIsNew
  <2>4. Waiting(d, missed)
    BY DEF Misses, Waiting
  <2> HIDE DEF e, k, missed
  <2>5. k \notin missed
    BY <2>3, <2>4, Numbered DEF Sane, Rowed, Waiting
  <2>6. k \in DOMAIN d.runs => d.runs[k].source # "paused" /\ d.runs[k].status = "pending"
    BY <2>3, Numbered DEF Kept, Tracked, Settled, Sane, Rowed
  <2>7. Takes(d, missed, k, e)
    BY <2>1, <2>3, <2>4, <2>5, <2>6, TakesInto DEF Waiting
  <2>8. /\ Tracked(d, {}, t, past) /\ Rowed(d) /\ Once(d)
        /\ k \in DOMAIN d.runs => d.runs[k].status = "pending"
        /\ k \in DOMAIN d.runs \/ k = Len(d.runs) + 1
    BY <2>3, <2>6 DEF Kept, Sane
  <2>9. /\ Tracked(e, {}, t, past) /\ Once(e)
        /\ \A i \in DOMAIN e.runs : \A x \in e.runs[i].due :
             \E j \in DOMAIN d.runs : x \in d.runs[j].due
    BY <2>4, <2>7, <2>8, Gathers
  <2> QED  BY <2>7, <2>9 DEF Kept, Takes, e, k
<1> QED  BY <1>1, <1>2

-----------------------------------------------------------------------------
(* The occurrences that are collected *)

\* Of some numbers one is the least.
LEMMA LeastExists ==
  ASSUME NEW S \in SUBSET Nat, S # {} PROVE \E x \in S : \A y \in S : x <= y
<1> DEFINE R == OpToRel(<, Nat)
<1>1. IsWellFoundedOn(R, Nat)
  BY NatLessThanWellFounded, Zenon
<1>2. \A x, y \in Nat : x < y => <<x, y>> \in R
  BY DEF OpToRel
<1> HIDE DEF R
<1>3. PICK x \in S : \A y \in S : ~ (<<y, x>> \in R)
  BY <1>1, WFMin, Zenon
<1>4. \A y \in S : x \in Nat /\ y \in Nat /\ ~(y < x)
  BY <1>2, <1>3
<1> QED  BY <1>4

\* A set of instants that have come has a first and a last.
LEMMA Extremes ==
  ASSUME NEW t \in Nat, NEW S \in SUBSET (0 .. t), S # {}
  PROVE  /\ Max(S) \in S /\ \A x \in S : Max(S) >= x
         /\ Min(S) \in S /\ \A x \in S : Min(S) <= x
<1> DEFINE T == {t - x : x \in S}
<1>1. S \in SUBSET Nat
  OBVIOUS
<1>2. \A x \in S : x \in Nat /\ t - x \in Nat
  OBVIOUS
<1>3. T \in SUBSET Nat /\ T # {}
  BY <1>2
<1>4. \E x \in S : \A y \in S : x <= y
  BY <1>1, LeastExists
<1>5. \E z \in T : \A y \in T : z <= y
  <2> HIDE DEF T
  <2> QED  BY <1>3, LeastExists
<1>6. \E x \in S : \A y \in S : x >= y
  <2>1. PICK x \in S : \A y \in S : t - x <= t - y
    BY <1>5
  <2> QED  BY <1>2, <2>1
<1> QED  BY <1>4, <1>6 DEF Max, Min

\* The constants of schedules.
LEMMA Instants ==
  /\ CronTimes \subseteq Nat /\ EndTimes \subseteq Nat \cup {None} /\ None \notin Int
  /\ Kinds \subseteq {"once", "interval", "cron"} /\ Period \in Nat /\ Period > 0
  /\ OnceDelay \in Nat /\ OnceDelay > 0 /\ Batch \in Nat /\ Batch > 0
BY ScheduleAssumption

\* The next instant of a cron expression.
LEMMA NextInstant ==
  ASSUME NEW t \in Nat, Calculable(t) PROVE NextCron(t) \in CronTimes /\ NextCron(t) > t
<1> DEFINE S == {c \in CronTimes : c > t}
<1>1. S \in SUBSET Nat /\ S # {}
  BY Instants DEF Calculable
<1>2. \E x \in S : \A y \in S : x <= y
  <2> HIDE DEF S
  <2> QED  BY <1>1, LeastExists
<1>3. Min(S) \in S
  BY <1>2 DEF Min
<1> QED  BY <1>3 DEF NextCron

\* The first occurrence of a schedule that is saved now is still to come.
LEMMA FirstIsAhead ==
  ASSUME NEW t \in Nat, NEW kind \in Kinds, Valid(kind, t)
  PROVE  /\ FirstDue(kind, t) \in Nat /\ FirstDue(kind, t) > t
         /\ kind = "cron" => FirstDue(kind, t) \in CronTimes
<1>1. kind \in {"once", "interval", "cron"}
  BY Instants
<1>2. CASE kind = "cron"
  BY <1>2, NextInstant, Instants DEF Valid, FirstDue
<1>3. CASE kind # "cron"
  BY <1>1, <1>3, Instants DEF FirstDue
<1> QED  BY <1>2, <1>3

\* The horizon is not in the future.
LEMMA Horizons ==
  ASSUME NEW t \in Nat, NEW job, Timed(job) PROVE Horizon(job, t) \in 0 .. t
<1>1. job.endAt \in Nat \cup {None}
  BY Instants DEF Timed
<1> QED  BY <1>1 DEF Horizon

\* What is collected of a schedule that is due: from the next occurrence on, what has come.
LEMMA CollectedIsDue ==
  ASSUME NEW t \in Nat, NEW job, Timed(job), job.next \in Nat \cup {None}, Due(job, t)
  PROVE  LET all == Collected(job, t)
         IN job.next \in all /\ all \subseteq job.next .. t /\ all # {}
<1> DEFINE h == Horizon(job, t)
           n == job.next
<1>1. n \in Nat /\ n <= h /\ h \in 0 .. t
  BY Horizons DEF Due
<1>2. job.schedule \in {"once", "interval", "cron"}
  BY Instants DEF Timed
<1> HIDE DEF h
<1>3. CASE job.schedule = "once"
  BY <1>1, <1>3 DEF Collected, DueBy, h
<1>4. CASE job.schedule = "interval"
  <2>1. Collected(job, t) = {d \in n .. h : (d - n) % Period = 0}
    BY <1>4 DEF Collected, DueBy, h
  <2>2. (n - n) % Period = 0
    BY <1>1, Instants
  <2> QED  BY <1>1, <2>1, <2>2
<1>5. CASE job.schedule = "cron"
  <2>1. Collected(job, t) =
          {c \in CronTimes : /\ n <= c /\ c <= h
                             /\ Cardinality({b \in CronTimes : n <= b /\ b < c}) < Batch}
    BY <1>5 DEF Collected, DueBy, h
  <2>2. n \in CronTimes
    BY <1>1, <1>5 DEF Timed, Due
  <2>3. Cardinality({b \in CronTimes : n <= b /\ b < n}) < Batch
    <3>1. \A b \in CronTimes : b \in Nat /\ ~(n <= b /\ b < n)
      BY <1>1, Instants
    <3>2. {b \in CronTimes : n <= b /\ b < n} = {}
      BY <3>1
    <3>3. Cardinality({}) = 0 /\ 0 < Batch
      BY FS_EmptySet, Instants
    <3> QED  BY <3>2, <3>3
  <2>4. n \in Collected(job, t)
    BY <1>1, <2>1, <2>2, <2>3
  <2>5. \A c \in Collected(job, t) : c \in Nat /\ n <= c /\ c <= h
    BY <2>1, Instants
  <2>6. Collected(job, t) \subseteq n .. t
    BY <1>1, <2>5
  <2> QED  BY <2>4, <2>6
<1> QED  BY <1>2, <1>3, <1>4, <1>5

\* What comes after it.
LEMMA NextIsLater ==
  ASSUME NEW t \in Nat, NEW job, Timed(job), NEW all \in SUBSET (0 .. t), all # {},
         job.schedule = "cron" => Calculable(Max(all))
  PROVE  LET next == NextDue(job, all)
         IN /\ next \in Nat \cup {None}
            /\ next # None => next > Max(all) /\ (job.schedule = "cron" => next \in CronTimes)
<1> DEFINE last == Max(all)
           after == NextAfter(job.schedule, last)
<1>1. last \in Nat
  <2>1. last \in all
    BY Extremes
  <2> HIDE DEF last
  <2>2. \A x \in all : x \in Nat
    OBVIOUS
  <2> QED  BY <2>1, <2>2
<1>2. job.schedule \in {"once", "interval", "cron"}
  BY Instants DEF Timed
<1> HIDE DEF last
<1>3. /\ after \in Nat \cup {None}
      /\ after # None => after > last /\ (job.schedule = "cron" => after \in CronTimes)
  <2>1. CASE job.schedule = "cron"
    BY <1>1, <2>1, NextInstant, Instants DEF NextAfter, last
  <2>2. CASE job.schedule # "cron"
    BY <1>1, <1>2, <2>2, Instants DEF NextAfter
  <2> QED  BY <2>1, <2>2
<1> HIDE DEF after
<1>4. NextDue(job, all) = IF PastEnd(job, after) THEN None ELSE after
  BY DEF NextDue, last, after
<1> QED  BY <1>3, <1>4 DEF last

\* What was missed is recorded, and the next occurrence written.
LEMMA RecordsKept ==
  ASSUME NEW d, NEW t \in Nat, NEW past \in SUBSET (0 .. t), Kept(d, t, past), Sane(d),
         d.job.enabled, NEW n \in Nat, d.job.next = n, NEW missed \in SUBSET (n .. t),
         NEW next \in Nat \cup {None},
         next # None => n < next /\ \A x \in missed : x < next
  PROVE  LET e == Recorded(d, missed, next)
         IN /\ Kept(e, t, past) /\ e.job = [d.job EXCEPT !.next = next]
            /\ \A i \in DOMAIN e.runs : \A x \in e.runs[i].due : x < n \/ x \in missed
<1> DEFINE row == NewRow("missed", "schedule", Min(missed), Max(missed), Cardinality(missed),
                         missed)
           e == Recorded(d, missed, next)
<1>1. /\ \A i \in DOMAIN d.runs : \A x \in d.runs[i].due : x < n /\ x \in Nat
      /\ \A p \in past : p < n /\ p \in Nat
      /\ \A x \in missed : x \in Nat /\ x >= n /\ x <= t
  BY Instants DEF Kept, Tracked, Ahead, Dated
<1>2. \A enabled : Later(next, enabled, d, {}, past) /\ Later(next, enabled, d, missed, past)
  BY <1>1, Instants DEF Later
<1>3. CASE missed = {}
  <2>1. e = [d EXCEPT !.job.next = next]
    BY <1>3 DEF Recorded
  <2>2. e.runs = d.runs /\ e.job = [d.job EXCEPT !.next = next]
    BY <2>1 DEF Sane, Rowed, Shape
  <2> HIDE DEF e
  <2>3. e.job.next = next
    BY <2>2 DEF Sane, Rowed, Shape, IsJob, JobFields
  <2>4. Later(e.job.next, e.job.enabled, d, {}, past)
    BY <1>2, <2>3
  <2>5. Kept(e, t, past)
    BY <2>2, <2>4, JobKeeps
  <2> QED  BY <1>1, <2>2, <2>5 DEF e
<1>4. CASE missed # {}
  <2>1. /\ row.status = "missed" /\ ~row.started /\ row.link = 0 /\ row.source = "schedule"
        /\ row.due = missed
    BY DEF NewRow
  <2>2. e = [InsertRun(d, row) EXCEPT !.job.next = next]
    BY <1>4 DEF Recorded
  <2> HIDE DEF row, e
  <2>3. Extends(d, row, e) /\ e.job = [d.job EXCEPT !.next = next]
    BY <2>2 DEF InsertRun, Sane, Rowed, Shape, Extends
  <2>4. e.job.next = next /\ e.job.enabled
    BY <2>3 DEF Sane, Rowed, Shape, IsJob, JobFields
  <2>5. Fits(d, {}, row, t, past)
    BY <1>1, <2>1 DEF Fits
  <2>6. Later(e.job.next, e.job.enabled, d, row.due, past)
    BY <1>2, <2>1, <2>4
  <2>7. Tracked(e, {}, t, past) /\ Once(e)
    <3>1. Tracked(d, {}, t, past) /\ Once(d) /\ Rowed(d) /\ {} \subseteq DOMAIN d.runs
      BY DEF Kept, Sane
    <3> QED  BY <2>3, <2>5, <2>6, <3>1, Adds
  <2>8. \A i \in DOMAIN e.runs : e.runs[i] = row \/ (i \in DOMAIN d.runs /\ e.runs[i] = d.runs[i])
    BY <2>3, Appended DEF Sane, Rowed, Shape, Extends
  <2>9. \A i \in DOMAIN e.runs : \A x \in e.runs[i].due : x < n \/ x \in missed
    BY <1>1, <2>1, <2>8
  <2> QED  BY <2>3, <2>7, <2>9 DEF Kept, e
<1> QED  BY <1>3, <1>4

\* The queued run takes one more occurrence, which no row has.
LEMMA RenewsKept ==
  ASSUME NEW d, NEW t \in Nat, NEW past \in SUBSET (0 .. t), Kept(d, t, past), Sane(d),
         NEW k \in DOMAIN d.runs, d.runs[k].status = "pending",
         NEW last \in (0 .. t) \ past, d.job.next # None => last < d.job.next,
         \A i \in DOMAIN d.runs : last \notin d.runs[i].due
  PROVE  LET e == [d EXCEPT !.runs[k] = Renewed(@, last)]
         IN Kept(e, t, past) /\ e.job = d.job
<1> DEFINE new == Renewed(d.runs[k], last)
           e == [d EXCEPT !.runs[k] = Renewed(@, last)]
<1>1. /\ e.job = d.job /\ e.runs = [d.runs EXCEPT ![k] = new]
  BY DEF Sane, Rowed, Shape
<1>2. /\ new.status = "pending" /\ new.started = d.runs[k].started
      /\ new.source = d.runs[k].source /\ new.link = d.runs[k].link
      /\ new.current = last /\ new.due = d.runs[k].due \cup {last}
  BY DEF Sane, Rowed, Shape, IsRow, RowFields, Renewed
<1> HIDE DEF e, new
<1>3. /\ DOMAIN e.runs = DOMAIN d.runs /\ e.runs[k] = new
      /\ \A i \in DOMAIN d.runs : i # k => e.runs[i] = d.runs[i]
      /\ \A i \in DOMAIN d.runs : e.runs[i].status = d.runs[i].status /\ e.runs[i].link = d.runs[i].link
  BY <1>1, <1>2
<1>4. \A i, j : i \in DOMAIN d.runs => (WaitsFor(e, {}, i, j) <=> WaitsFor(d, {}, i, j))
  BY <1>3 DEF WaitsFor
<1>5. \A i \in DOMAIN d.runs : Holds(e, {}, i) <=> Holds(d, {}, i)
  BY <1>3, <1>4 DEF Holds
<1>6. \A i, j \in DOMAIN d.runs : i # j /\ e.runs[i].due \cap e.runs[j].due # {} =>
        d.runs[i].due \cap d.runs[j].due # {}
  BY <1>2, <1>3
<1>7. Apart(e, {})
  BY <1>3, <1>4, <1>5, <1>6 DEF Kept, Tracked, Apart
<1>8. Latest(e)
  BY <1>3 DEF Kept, Tracked, Latest
<1>9. Current(e, {})
  <2> SUFFICES ASSUME NEW j \in DOMAIN e.runs, e.runs[j].status = "pending",
                      e.runs[j].current # None
               PROVE  /\ e.runs[j].current \in e.runs[j].due
                      /\ \A i \in DOMAIN e.runs :
                           WaitsFor(e, {}, i, j) => e.runs[j].current \notin e.runs[i].due
    BY DEF Current
  <2>1. \A i \in DOMAIN e.runs : WaitsFor(e, {}, i, j) => i # k /\ e.runs[i] = d.runs[i]
    BY <1>2, <1>3 DEF WaitsFor
  <2>2. CASE j = k
    BY <1>2, <1>3, <2>1, <2>2
  <2>3. CASE j # k
    BY <1>3, <1>4, <2>1, <2>3 DEF Kept, Tracked, Current
  <2> QED  BY <2>2, <2>3
<1>10. Settled(e)
  BY <1>2, <1>3 DEF Kept, Tracked, Settled
<1>11. Dated(e, t, past)
  BY <1>2, <1>3 DEF Kept, Tracked, Dated
<1>12. Ahead(e, past)
  BY <1>1, <1>2, <1>3 DEF Kept, Tracked, Ahead
<1>13. Once(e)
  <2>1. \A i, j \in DOMAIN d.runs : i < j => i # j
    BY Numbered DEF Sane, Rowed
  <2> QED  BY <1>2, <1>3, <1>6, <2>1 DEF Kept, Once
<1> QED  BY <1>1, <1>7, <1>8, <1>9, <1>10, <1>11, <1>12, <1>13 DEF Kept, Tracked, e

\* The last occurrence is queued.
LEMMA QueuesKept ==
  ASSUME NEW d, NEW t \in Nat, NEW past \in SUBSET (0 .. t), Kept(d, t, past), Sane(d),
         NEW last \in (0 .. t) \ past, d.job.next # None => last < d.job.next,
         \A i \in DOMAIN d.runs : last \notin d.runs[i].due
  PROVE  Kept(Queued(d, last), t, past) /\ Queued(d, last).job = d.job
<1> DEFINE row == NewRow("pending", "schedule", last, last, 1, {last})
           c == Coalesce(d, "auto_catch_up")
           k == Target(d)
           e == Queued(d, last)
<1>1. CASE ~d.job.catchUp \/ k = 0
  <2>1. e = InsertRun(d, row)
    BY <1>1 DEF Queued
  <2>2. /\ row.status = "pending" /\ ~row.started /\ row.link = 0 /\ row.source = "schedule"
        /\ row.due = {last} /\ row.current = last
    BY DEF NewRow
  <2> HIDE DEF row, e
  <2>3. Extends(d, row, e) /\ e.job = d.job
    BY <2>1 DEF InsertRun, Sane, Rowed, Shape, Extends
  <2>4. Tracked(e, {}, t, past) /\ Once(e)
    <3>1. Tracked(d, {}, t, past) /\ Once(d) /\ Rowed(d) /\ {} \subseteq DOMAIN d.runs
      BY DEF Kept, Sane
    <3>2. Later(e.job.next, e.job.enabled, d, row.due, past)
      BY <2>2, <2>3 DEF Kept, Tracked, Ahead, Later
    <3>3. Fits(d, {}, row, t, past)
      BY <2>2 DEF Fits
    <3> QED  BY <2>3, <3>1, <3>2, <3>3, Adds
  <2> QED  BY <2>3, <2>4 DEF Kept, e
<1>2. CASE ~(~d.job.catchUp \/ k = 0)
  <2>1. e = [c EXCEPT !.runs[k] = Renewed(@, last)]
    BY <1>2 DEF Queued
  <2>2. /\ Kept(c, t, past) /\ c.job = d.job /\ k \in DOMAIN c.runs
        /\ c.runs[k].status = "pending" /\ \A i \in DOMAIN c.runs : last \notin c.runs[i].due
    BY <1>2, CoalescesKept
  <2>3. Sane(c)
    BY Coalesces DEF Follows
  <2> HIDE DEF c, e, k
  <2> QED  BY <2>1, <2>2, <2>3, RenewsKept DEF e
<1> QED  BY <1>1, <1>2

\* The due occurrences are collected, by a job that runs.
Reaches(e, t, past) == Kept(e, t, past) /\ Timed(e.job)

LEMMA CollectsKept ==
  ASSUME NEW d, NEW t \in Nat, NEW past \in SUBSET (0 .. t), Reaches(d, t, past), Sane(d),
         d.job.enabled, NEW at \in 0 .. t,
         d.job.schedule = "cron" /\ Due(d.job, at) => Calculable(Max(Collected(d.job, at)))
  PROVE  Reaches(Collect(d, at), t, past)
<1> DEFINE all == Collected(d.job, at)
           next == NextDue(d.job, all)
           last == Max(all)
           missed == IF OnTime(d, at, last, next) THEN all \ {last} ELSE all
           c == Recorded(d, missed, next)
           e == Collect(d, at)
<1>1. CASE ~Due(d.job, at)
  BY <1>1 DEF Collect
<1>2. CASE Due(d.job, at)
  <2>1. /\ d.job.next \in Nat /\ \A p \in past : p < d.job.next
        /\ Timed(d.job)
    BY <1>2 DEF Reaches, Kept, Tracked, Ahead, Due
  <2>2. d.job.next \in all /\ all \subseteq d.job.next .. t /\ all # {}
    <3>1. d.job.next \in all /\ all \subseteq d.job.next .. at /\ all # {}
      BY <1>2, <2>1, CollectedIsDue
    <3>2. d.job.next .. at \subseteq d.job.next .. t
      BY <2>1
    <3> HIDE DEF all
    <3> QED  BY <3>1, <3>2
  <2>3. all \in SUBSET (0 .. t)
    <3> HIDE DEF all
    <3> QED  BY <2>1, <2>2
  <2>4. last \in all /\ \A x \in all : last >= x
    <3> HIDE DEF all
    <3> QED  BY <2>2, <2>3, Extremes
  <2>5. /\ next \in Nat \cup {None}
        /\ next # None => next > last /\ (d.job.schedule = "cron" => next \in CronTimes)
    <3>1. d.job.schedule = "cron" => Calculable(Max(all))
      BY <1>2
    <3> HIDE DEF all
    <3> QED  BY <2>1, <2>2, <2>3, <3>1, NextIsLater DEF last
  <2>6. e = IF OnTime(d, at, last, next) THEN Queued(c, last) ELSE c
    BY <1>2 DEF Collect, CollectAll
  <2>7. missed \subseteq all
    OBVIOUS
  <2>8. OnTime(d, at, last, next) => last \notin missed
    OBVIOUS
  <2> DEFINE n == d.job.next
  <2> HIDE DEF all, last, next, missed, e
  <2>9. /\ missed \in SUBSET (n .. t) /\ last \in 0 .. t /\ n <= last
        /\ \A x \in all : x \in Nat /\ x <= last
    BY <2>1, <2>2, <2>3, <2>4, <2>7
  <2>10. next # None => n < next /\ \A x \in missed : x < next
    BY <2>1, <2>5, <2>7, <2>9, Instants
  <2>11. /\ Kept(c, t, past) /\ c.job = [d.job EXCEPT !.next = next]
         /\ \A i \in DOMAIN c.runs : \A x \in c.runs[i].due : x < n \/ x \in missed
    BY <2>1, <2>5, <2>9, <2>10, RecordsKept DEF Reaches
  <2>12. Sane(c)
    BY Records DEF Follows
  <2> HIDE DEF c
  <2>13. /\ c.job.next = next /\ c.job.schedule = d.job.schedule /\ c.job.endAt = d.job.endAt
    BY <2>11 DEF Sane, Rowed, Shape, IsJob, JobFields
  <2>14. Timed(c.job)
    BY <2>1, <2>5, <2>13 DEF Timed
  <2>15. CASE OnTime(d, at, last, next)
    <3>1. last \notin past
      BY <2>1, <2>9
    <3>2. \A i \in DOMAIN c.runs : last \notin c.runs[i].due
      BY <2>1, <2>8, <2>9, <2>11, <2>15
    <3>3. c.job.next # None => last < c.job.next
      BY <2>5, <2>9, <2>13
    <3>4. Kept(Queued(c, last), t, past) /\ Queued(c, last).job = c.job
      BY <2>9, <2>11, <2>12, <3>1, <3>2, <3>3, QueuesKept
    <3> QED  BY <2>6, <2>14, <2>15, <3>4 DEF Reaches, e
  <2>16. CASE ~OnTime(d, at, last, next)
    BY <2>6, <2>11, <2>14, <2>16 DEF Reaches, e
  <2> QED  BY <2>15, <2>16
<1> QED  BY <1>1, <1>2

LEMMA StopReaches ==
  ASSUME NEW d, NEW t, NEW past, Reaches(d, t, past), Sane(d), NEW reason
  PROVE  Reaches(StopJob(d, reason), t, past)
BY StopKept DEF Reaches, Timed

LEMMA CoalesceReaches ==
  ASSUME NEW d, NEW t, NEW past, Reaches(d, t, past), Sane(d),
         NEW source \in {"catch_up", "auto_catch_up"}
  PROVE  Reaches(Coalesce(d, source), t, past)
BY CoalescesKept DEF Reaches

LEMMA WindsUpKept ==
  ASSUME NEW d, NEW t, NEW past, Reaches(d, t, past), Sane(d), NEW at
  PROVE  Reaches(WindUp(d, at), t, past)
BY StopReaches, CoalesceReaches DEF WindUp

\* A materialization keeps it, of a job that runs and whose schedule can be calculated.
LEMMA MaterializesKept ==
  ASSUME NEW d, NEW t \in Nat, NEW past \in SUBSET (0 .. t), Reaches(d, t, past), Sane(d),
         d.job.enabled, NEW at \in 0 .. t, ~Uncalculable(d, at)
  PROVE  Reaches(MaterializeJob(d, at), t, past)
<1>1. CASE Limit(d.job, at) = "max_runs"
  BY <1>1, StopReaches DEF MaterializeJob
<1>2. CASE Limit(d.job, at) # "max_runs"
  <2> DEFINE a == AgeOut(d, at)
             b == CloseWindow(a)
             c == Collect(b, at)
             e == WindUp(c, at)
  <2>1. Kept(a, t, past) /\ a.job = d.job /\ Sane(a)
    BY AgesOutKept, AgesOut DEF Reaches, Follows
  <2>2. b.job = a.job \/ b.job.next = None
    <3>1. CASE b = [a EXCEPT !.job.next = None]
      <4>1. b.job = [a.job EXCEPT !.next = None]
        BY <2>1, <3>1 DEF Sane, Rowed, Shape
      <4>2. IsJob(a.job)
        BY <2>1 DEF Sane, Rowed, Shape
      <4> HIDE DEF b, a
      <4> QED  BY <4>1, <4>2 DEF IsJob, JobFields
    <3>2. b = a \/ b = [a EXCEPT !.job.next = None]
      BY DEF CloseWindow
    <3> QED  BY <3>1, <3>2
  <2> HIDE DEF a
  <2>3. /\ Kept(b, t, past) /\ Timed(b.job) /\ b.job.enabled = a.job.enabled
    BY <2>1, ClosesKept DEF Reaches
  <2>4. Sane(b)
    BY <2>1, ClosesWindow DEF Follows
  <2> HIDE DEF b
  <2>5. b.job.schedule = "cron" /\ Due(b.job, at) => Calculable(Max(Collected(b.job, at)))
    BY <1>2, <2>1, <2>2 DEF Uncalculable, Due
  <2>6. Reaches(c, t, past)
    BY <2>1, <2>3, <2>4, <2>5, CollectsKept DEF Reaches
  <2>7. Sane(c)
    BY <2>4, CollectsDue DEF Follows
  <2>8. MaterializeJob(d, at) = e
    BY <1>2 DEF MaterializeJob, a, b
  <2> HIDE DEF c
  <2> QED  BY <2>6, <2>7, <2>8, WindsUpKept
<1> QED  BY <1>1, <1>2

\* A schedule that fails leaves a receipt without an occurrence, and stops its job.
LEMMA SafelyKept ==
  ASSUME NEW d, NEW t \in Nat, NEW past \in SUBSET (0 .. t), Reaches(d, t, past), Sane(d),
         d.job.enabled, NEW at \in 0 .. t
  PROVE  Reaches(Safely(d, at), t, past)
<1> DEFINE row == NewRow("failed", "schedule_error", d.job.next, Max({d.job.next, at}), 1, {})
           c == InsertRun(d, row)
           e == Safely(d, at)
<1>1. CASE ~Uncalculable(d, at)
  BY <1>1, MaterializesKept DEF Safely
<1>2. CASE Uncalculable(d, at)
  <2>1. /\ row.status = "failed" /\ ~row.started /\ row.link = 0 /\ row.due = {}
        /\ row.source = "schedule_error"
    BY DEF NewRow
  <2>2. e = [c EXCEPT !.job.enabled = FALSE]
    BY <1>2 DEF Safely
  <2> HIDE DEF row, e
  <2>3. Extends(d, row, e) /\ e.job = [d.job EXCEPT !.enabled = FALSE]
    BY <2>2 DEF InsertRun, Sane, Rowed, Shape, Extends
  <2>4. /\ e.job.next = d.job.next /\ ~e.job.enabled /\ e.job.schedule = d.job.schedule
        /\ e.job.endAt = d.job.endAt
    BY <2>3 DEF Sane, Rowed, Shape, IsJob, JobFields
  <2>5. Fits(d, {}, row, t, past)
    BY <2>1 DEF Fits
  <2>6. Later(e.job.next, e.job.enabled, d, row.due, past)
    BY <2>1, <2>4 DEF Reaches, Kept, Tracked, Ahead, Later
  <2>7. Tracked(d, {}, t, past) /\ Once(d) /\ Rowed(d) /\ {} \subseteq DOMAIN d.runs
    BY DEF Reaches, Kept, Sane
  <2>8. Kept(e, t, past)
    BY <2>3, <2>5, <2>6, <2>7, Adds DEF Kept
  <2> QED  BY <2>4, <2>8 DEF Reaches, Timed, e
<1> QED  BY <1>1, <1>2
-----------------------------------------------------------------------------
(* What an update does to occurrences *)

\* An edit names values of the job's fields, and no occurrence.
Edits(c) ==
  /\ Has(c, "schedule") => c["schedule"] \in Kinds
  /\ Has(c, "endAt") => c["endAt"] \in EndTimes
  /\ "next" \notin DOMAIN c /\ EditOK(c)
Savable(m, c, t) ==
  /\ Edits(c) /\ (Has(c, "schedule") => Valid(c["schedule"], t))
  /\ ResumesTiming(m, c) => Valid(m.job.schedule, t)

\* What comes next is later than all that came, also for a job that is enabled now.
Restarts(m, c, r, past) ==
  /\ r.job.next \in Nat \cup {None}
  /\ r.job.next # None =>
       /\ \A i \in DOMAIN r.runs : \A x \in r.runs[i].due : x < r.job.next
       /\ m.job.enabled \/ Enables(c) => \A p \in past : p < r.job.next
       /\ IF Has(c, "schedule") THEN c["schedule"] = "cron" => r.job.next \in CronTimes
          ELSE m.job.schedule = "cron" => r.job.next \in CronTimes

\* What came and what was paused came by now, and the next occurrence is later.
LEMMA HasCome ==
  ASSUME NEW m, NEW t \in Nat, NEW past \in SUBSET (0 .. t), Reaches(m, t, past)
  PROVE  /\ \A i \in DOMAIN m.runs : \A x \in m.runs[i].due : x \in Nat /\ x <= t
         /\ \A p \in past : p \in Nat /\ p <= t
         /\ m.job.schedule \in Kinds /\ m.job.next \in Nat \cup {None}
         /\ m.job.schedule = "cron" /\ m.job.next # None => m.job.next \in CronTimes
         /\ m.job.next # None =>
              /\ \A i \in DOMAIN m.runs : \A x \in m.runs[i].due : x < m.job.next
              /\ m.job.enabled => \A p \in past : p < m.job.next
<1>1. Dated(m, t, past) /\ Ahead(m, past) /\ Timed(m.job)
  BY DEF Reaches, Kept, Tracked
<1>2. \A i \in DOMAIN m.runs : \A x \in m.runs[i].due : x \in 0 .. t
  BY <1>1 DEF Dated
<1>3. \A i \in DOMAIN m.runs : \A x \in m.runs[i].due : x \in Nat /\ x <= t
  BY <1>2
<1>4. \A p \in past : p \in Nat /\ p <= t
  OBVIOUS
<1>5. /\ m.job.schedule \in Kinds
      /\ m.job.schedule = "cron" /\ m.job.next # None => m.job.next \in CronTimes
  BY <1>1 DEF Timed
<1>6. /\ m.job.next \in Nat \cup {None}
      /\ m.job.next # None =>
           /\ \A i \in DOMAIN m.runs : \A x \in m.runs[i].due : x < m.job.next
           /\ m.job.enabled => \A p \in past : p < m.job.next
  BY <1>1 DEF Ahead
<1> QED  BY <1>3, <1>4, <1>5, <1>6

Retime(m, next) == [m EXCEPT !.job.next = next]

\* The next occurrence is still to come.
LEMMA RetimeKept ==
  ASSUME NEW m, NEW t \in Nat, NEW past \in SUBSET (0 .. t), Reaches(m, t, past), Sane(m),
         NEW c, NEW next \in Nat, next > t,
         IF Has(c, "schedule") THEN c["schedule"] = "cron" => next \in CronTimes
         ELSE m.job.schedule = "cron" => next \in CronTimes
  PROVE  LET r == Retime(m, next)
         IN Kept(r, t, past) /\ Restarts(m, c, r, past) /\ r.job = [m.job EXCEPT !.next = r.job.next]
<1> DEFINE r == Retime(m, next)
<1>1. r.runs = m.runs /\ r.job = [m.job EXCEPT !.next = next]
  BY DEF Retime, Sane, Rowed, Shape
<1> HIDE DEF r
<1>2. r.job.next = next
  BY <1>1 DEF Sane, Rowed, Shape, IsJob, JobFields
<1>3. /\ \A i \in DOMAIN m.runs : \A x \in m.runs[i].due : x \in Nat /\ x <= t
      /\ \A p \in past : p \in Nat /\ p <= t
  BY HasCome
<1>4. (\A i \in DOMAIN m.runs : \A x \in m.runs[i].due : x < next) /\ \A p \in past : p < next
  BY <1>3
<1>5. Later(r.job.next, r.job.enabled, m, {}, past)
  BY <1>2, <1>4 DEF Later
<1>6. Kept(r, t, past)
  BY <1>1, <1>5, JobKeeps DEF Reaches
<1>7. Restarts(m, c, r, past)
  BY <1>1, <1>2, <1>4 DEF Restarts
<1> QED  BY <1>1, <1>2, <1>6, <1>7 DEF r

LEMMA RetimesKept ==
  ASSUME NEW m, NEW t \in Nat, NEW past \in SUBSET (0 .. t), Reaches(m, t, past), Sane(m),
         NEW c, NEW at, Savable(m, c, at), Has(c, "schedule") \/ ResumesTiming(m, c) => at = t
  PROVE  LET r == Retimed(m, c, at)
         IN Kept(r, t, past) /\ Restarts(m, c, r, past) /\ r.job = [m.job EXCEPT !.next = r.job.next]
<1> DEFINE r == Retimed(m, c, at)
           row == NewRow("missed", "paused", m.job.next, m.job.next, 1, {m.job.next})
<1>1. /\ \A i \in DOMAIN m.runs : \A x \in m.runs[i].due : x \in Nat /\ x <= t
      /\ \A p \in past : p \in Nat /\ p <= t
      /\ m.job.schedule \in Kinds /\ m.job.next \in Nat \cup {None}
      /\ m.job.schedule = "cron" /\ m.job.next # None => m.job.next \in CronTimes
      /\ m.job.next # None => /\ \A i \in DOMAIN m.runs : \A x \in m.runs[i].due : x < m.job.next
                              /\ m.job.enabled => \A p \in past : p < m.job.next
  BY HasCome
<1>2. ASSUME r = m, m.job.enabled \/ ~Enables(c) \/ ~Behind(m, t), ~Has(c, "schedule")
      PROVE  Kept(r, t, past) /\ Restarts(m, c, r, past) /\ r.job = [m.job EXCEPT !.next = r.job.next]
  <2>1. m.job.next # None /\ (m.job.enabled \/ Enables(c)) => \A p \in past : p < m.job.next
    <3>1. CASE m.job.enabled
      BY <1>1, <3>1
    <3>2. CASE m.job.next # None /\ ~Behind(m, t)
      <4>1. m.job.next \in Nat /\ ~(m.job.next <= t)
        BY <1>1, <3>2 DEF Behind
      <4> QED  BY <1>1, <4>1
    <3> QED  BY <1>2, <3>1, <3>2
  <2>2. m.job = [m.job EXCEPT !.next = m.job.next]
    BY DEF Sane, Rowed, Shape, IsJob, JobFields
  <2> QED  BY <1>1, <1>2, <2>1, <2>2 DEF Restarts, Reaches
<1>3. CASE Has(c, "schedule")
  <2>1. r = Retime(m, FirstDue(c["schedule"], t))
    BY <1>3 DEF Retimed, Retime
  <2>2. /\ FirstDue(c["schedule"], t) \in Nat /\ FirstDue(c["schedule"], t) > t
        /\ c["schedule"] = "cron" => FirstDue(c["schedule"], t) \in CronTimes
    BY <1>3, FirstIsAhead DEF Savable, Edits
  <2> HIDE DEF r
  <2> QED  BY <1>3, <2>1, <2>2, RetimeKept DEF r
<1>4. CASE ~Has(c, "schedule") /\ ~ResumesTiming(m, c)
  BY <1>2, <1>4 DEF Retimed, ResumesTiming
<1>5. CASE ResumesTiming(m, c) /\ m.job.schedule # "once"
  <2>1. r = Retime(m, FirstDue(m.job.schedule, t)) /\ ~Has(c, "schedule")
    BY <1>5 DEF Retimed, ResumesTiming, Retime
  <2>2. /\ FirstDue(m.job.schedule, t) \in Nat /\ FirstDue(m.job.schedule, t) > t
        /\ m.job.schedule = "cron" => FirstDue(m.job.schedule, t) \in CronTimes
    BY <1>1, <1>5, FirstIsAhead DEF Savable
  <2> HIDE DEF r
  <2> QED  BY <2>1, <2>2, RetimeKept DEF r
<1>6. CASE ResumesTiming(m, c) /\ m.job.schedule = "once" /\ ~Behind(m, t)
  BY <1>2, <1>6 DEF Retimed, ResumesTiming
<1>7. CASE ResumesTiming(m, c) /\ m.job.schedule = "once" /\ Behind(m, t)
  <2>1. r = [InsertRun(m, row) EXCEPT !.job.next = None]
    BY <1>7 DEF Retimed, ResumesTiming
  <2>2. /\ row.status = "missed" /\ ~row.started /\ row.link = 0 /\ row.due = {m.job.next}
        /\ row.source = "paused"
    BY DEF NewRow
  <2> HIDE DEF r, row
  <2>3. Extends(m, row, r) /\ r.job = [m.job EXCEPT !.next = None]
    BY <2>1 DEF InsertRun, Sane, Rowed, Shape, Extends
  <2>4. r.job.next = None
    BY <2>3 DEF Sane, Rowed, Shape, IsJob, JobFields
  <2>5. Fits(m, {}, row, t, past)
    <3>1. m.job.next \in 0 .. t
      BY <1>1, <1>7 DEF Behind
    <3>2. \A i \in DOMAIN m.runs : m.job.next \notin m.runs[i].due
      BY <1>1, <1>7 DEF Behind
    <3> QED  BY <2>2, <3>1, <3>2 DEF Fits
  <2>6. Later(r.job.next, r.job.enabled, m, row.due, past)
    BY <2>4 DEF Later
  <2>7. Tracked(m, {}, t, past) /\ Once(m) /\ Rowed(m) /\ {} \subseteq DOMAIN m.runs
    BY DEF Reaches, Kept, Sane
  <2>8. Kept(r, t, past)
    BY <2>3, <2>5, <2>6, <2>7, Adds DEF Kept
  <2> QED  BY <2>3, <2>4, <2>8 DEF Restarts, r
<1>8. ResumesTiming(m, c) => ~Has(c, "schedule")
  BY DEF ResumesTiming
<1> QED  BY <1>3, <1>4, <1>5, <1>6, <1>7

\* Queued runs are cancelled, and what waits for them may wait on.
LEMMA CancelsOnlyTracked ==
  ASSUME NEW d, NEW t, NEW past, Kept(d, t, past), Sane(d), NEW queued,
         \A i \in queued : i \in DOMAIN d.runs /\ d.runs[i].status = "pending",
         NEW left, \A i \in left : i \in queued
  PROVE  LET e == CancelOnly(d, queued)
         IN /\ Tracked(e, left, t, past) /\ Once(e) /\ e.job = d.job
            /\ \A i \in DOMAIN d.runs :
                 /\ Same(d.runs[i], e.runs[i]) /\ e.runs[i].link = d.runs[i].link
                 /\ e.runs[i].count = d.runs[i].count
<1> DEFINE e == CancelOnly(d, queued)
<1>1. /\ e.job = d.job
      /\ e.runs = [i \in DOMAIN d.runs |->
           IF i \in queued THEN [d.runs[i] EXCEPT !.status = "cancelled"] ELSE d.runs[i]]
  BY DEF CancelOnly, Sane, Rowed, Shape
<1> HIDE DEF e
<1>2. ASSUME NEW i \in DOMAIN d.runs
      PROVE  /\ Same(d.runs[i], e.runs[i]) /\ e.runs[i].started = d.runs[i].started
             /\ e.runs[i].status = IF i \in queued THEN "cancelled" ELSE d.runs[i].status
             /\ e.runs[i].link = d.runs[i].link /\ e.runs[i].count = d.runs[i].count
  BY <1>1 DEF Sane, Rowed, Shape, IsRow, RowFields, Same
<1>3. DOMAIN e.runs = DOMAIN d.runs
  BY <1>1
<1>4. ASSUME NEW i \in DOMAIN d.runs
      PROVE  /\ \/ e.runs[i].status = d.runs[i].status
                \/ d.runs[i].status = "pending" /\ e.runs[i].status = "cancelled"
                   /\ d.runs[i].source # "paused"
             /\ e.runs[i].started => e.runs[i].status \notin {"pending", "missed", "cancelled"}
  BY <1>2 DEF Kept, Tracked, Settled
<1> PICK none : none = {}
  OBVIOUS
<1>5. Moves(d, e, none)
  BY <1>2, <1>4 DEF Moves
<1>6. \A i \in DOMAIN d.runs : d.runs[i].status = "pending" => d.runs[i].link = 0
  BY DEF Sane, Rowed, QueuedIsNew
<1>7. 0 \notin DOMAIN d.runs
  BY Numbered DEF Sane, Rowed
<1>8. /\ Tracked(d, none, t, past) /\ \A i \in left : i \in none \/ d.runs[i].status = "pending"
      /\ \A i \in none : i \in DOMAIN d.runs /\ d.runs[i].status \in {"pending", "cancelled"}
      /\ \A i \in none : i \in left \/ e.runs[i].status = "cancelled"
  BY DEF Kept
<1>9. Tracked(e, left, t, past)
  BY <1>1, <1>3, <1>4, <1>5, <1>6, <1>7, <1>8, Rephrased
<1>10. Once(e)
  BY <1>2, <1>3, <1>4, StartedAlike DEF Kept, Same
<1> QED  BY <1>1, <1>2, <1>9, <1>10 DEF e

\* The occurrence that a queued run was created for is in no row but its own.
LEMMA CurrentIsOwn ==
  ASSUME NEW d, NEW t, NEW past, Kept(d, t, past), NEW k \in DOMAIN d.runs,
         d.runs[k].status = "pending", d.runs[k].current # None
  PROVE  LET current == d.runs[k].current
         IN /\ current \in 0 .. t /\ current \notin past /\ current \in d.runs[k].due
            /\ d.job.next # None => current < d.job.next
            /\ \A i \in DOMAIN d.runs : Holds(d, {}, i) /\ i # k => current \notin d.runs[i].due
<1> DEFINE current == d.runs[k].current
<1>1. current \in d.runs[k].due
  BY DEF Kept, Tracked, Current
<1>2. current \in 0 .. t /\ current \notin past /\ (d.job.next # None => current < d.job.next)
  BY <1>1 DEF Kept, Tracked, Dated, Settled, Ahead
<1>3. ASSUME NEW i \in DOMAIN d.runs, Holds(d, {}, i), i # k, current \in d.runs[i].due
      PROVE  FALSE
  <2>1. Holds(d, {}, k) /\ ~WaitsFor(d, {}, k, i)
    BY DEF Holds, WaitsFor
  <2>2. WaitsFor(d, {}, i, k)
    BY <1>1, <1>3, <2>1 DEF Kept, Tracked, Apart
  <2> QED  BY <1>3, <2>2 DEF Kept, Tracked, Current
<1> QED  BY <1>1, <1>2, <1>3

\* What the cancelled run held beyond the misses it took is queued or missed again.
LEMMA RestoresTracked ==
  ASSUME NEW d, NEW t, NEW past, Kept(d, t, past), Sane(d), NEW k \in DOMAIN d.runs,
         d.runs[k].status = "pending", NEW at
  PROVE  LET m == CancelOnly(d, {k})
             r == RestoreCurrent(m, k, at)
         IN Tracked(r, {k}, t, past) /\ Once(r) /\ r.job = d.job
<1> DEFINE m == CancelOnly(d, {k})
           r == RestoreCurrent(m, k, at)
           current == m.runs[k].current
<1>1. /\ Tracked(m, {k}, t, past) /\ Once(m)
      /\ \A i \in DOMAIN d.runs : Same(d.runs[i], m.runs[i]) /\ m.runs[i].link = d.runs[i].link
  BY CancelsOnlyTracked
<1>2. /\ Rowed(m) /\ m.job = d.job /\ DOMAIN m.runs = DOMAIN d.runs
      /\ m.runs[k].status = "cancelled"
      /\ \A i \in DOMAIN d.runs \ {k} : m.runs[i].status = d.runs[i].status
  BY CancelsOnly
<1>3. CASE r = m
  BY <1>1, <1>2, <1>3
<1>4. CASE r # m
  <2>0. PICK status \in {"pending", "missed"} : \E count :
          r = InsertRun(m, NewRow(status, "schedule", current, current, count, {current}))
    <3> HIDE DEF m
    <3> QED  BY <1>4 DEF RestoreCurrent
  <2>1. PICK count :
          r = InsertRun(m, NewRow(status, "schedule", current, current, count, {current}))
    <3> HIDE DEF m, r, current
    <3> QED  BY <2>0
  <2>2. current # None
    <3> HIDE DEF m
    <3> QED  BY <1>4 DEF RestoreCurrent
  <2> DEFINE row == NewRow(status, "schedule", current, current, count, {current})
  <2>3. /\ row.status = status /\ ~row.started /\ row.link = 0 /\ row.source = "schedule"
        /\ row.due = {current} /\ (row.status = "pending" => row.current = current)
    BY DEF NewRow
  <2> HIDE DEF m, r, row
  <2>4. current = d.runs[k].current
    BY <1>1 DEF Same
  <2>5. /\ current \in 0 .. t /\ current \notin past
        /\ d.job.next # None => current < d.job.next
        /\ \A i \in DOMAIN d.runs : Holds(d, {}, i) /\ i # k => current \notin d.runs[i].due
    BY <2>2, <2>4, CurrentIsOwn
  <2> HIDE DEF current
  <2>6. ASSUME NEW i \in DOMAIN m.runs, Holds(m, {k}, i) PROVE row.due \cap m.runs[i].due = {}
    <3>1. i # k /\ i \in DOMAIN d.runs
      BY <1>2, <2>6 DEF Holds
    <3>2. m.runs[i].status = d.runs[i].status /\ m.runs[i].link = d.runs[i].link
          /\ m.runs[i].due = d.runs[i].due
      BY <1>1, <1>2, <3>1 DEF Same
    <3>3. ASSUME WaitsFor(m, {k}, i, m.runs[i].link) PROVE WaitsFor(d, {}, i, d.runs[i].link)
      BY <1>2, <3>2, <3>3 DEF WaitsFor
    <3>4. Holds(d, {}, i)
      BY <2>6, <3>2, <3>3 DEF Holds
    <3> QED  BY <2>3, <2>5, <3>1, <3>2, <3>4
  <2>7. Fits(m, {k}, row, t, past)
    BY <2>3, <2>5, <2>6 DEF Fits
  <2>8. Extends(m, row, r) /\ r.job = d.job
    BY <1>2, <2>1 DEF InsertRun, Rowed, Shape, Extends, row
  <2>9. Later(r.job.next, r.job.enabled, m, row.due, past)
    BY <1>1, <1>2, <2>3, <2>5, <2>8 DEF Tracked, Ahead, Later
  <2>10. {k} \subseteq DOMAIN m.runs
    BY <1>2
  <2>11. Tracked(r, {k}, t, past) /\ Once(r)
    BY <1>1, <1>2, <2>7, <2>8, <2>9, <2>10, Adds
  <2> QED  BY <2>8, <2>11 DEF r, m
<1> QED  BY <1>3, <1>4

LEMMA RestoresRowed ==
  ASSUME NEW d, Sane(d), NEW k \in DOMAIN d.runs, d.runs[k].status = "pending", LiveRows(d) = {k},
         NEW at
  PROVE  LET r == RestoreCurrent(CancelOnly(d, {k}), k, at)
         IN Rowed(r) /\ k \in DOMAIN r.runs /\ r.runs[k].status = "cancelled"
<1> DEFINE m == CancelOnly(d, {k})
           r == RestoreCurrent(m, k, at)
<1>1. /\ Rowed(m) /\ LinkedBut(m, {k}) /\ DOMAIN m.runs = DOMAIN d.runs
      /\ m.runs[k].status = "cancelled"
      /\ \A i \in DOMAIN d.runs \ {k} : m.runs[i].status = d.runs[i].status
  BY CancelsOnly
<1>2. LiveRows(m) = {}
  <2> HIDE DEF m
  <2> QED  BY <1>1 DEF LiveRows, Live
<1>3. CASE r = m
  BY <1>1, <1>3
<1>4. CASE r # m
  <2>0. PICK status \in {"pending", "missed"} : \E current, count :
          r = InsertRun(m, NewRow(status, "schedule", current, current, count, {current}))
    <3> HIDE DEF m
    <3> QED  BY <1>4 DEF RestoreCurrent
  <2>1. PICK current, count :
          r = InsertRun(m, NewRow(status, "schedule", current, current, count, {current}))
    <3> HIDE DEF m, r
    <3> QED  BY <2>0
  <2> DEFINE row == NewRow(status, "schedule", current, current, count, {current})
  <2>2. IsRow(row) /\ row.status = status /\ ~row.started /\ row.link = 0
    BY NewRows DEF Statuses
  <2>3. r = InsertRun(m, row)
    BY <2>1
  <2> HIDE DEF m, r, row
  <2>4. /\ Rowed(r) /\ DOMAIN r.runs = 1 .. Len(m.runs) + 1
        /\ \A i \in DOMAIN m.runs : r.runs[i] = m.runs[i]
    BY <1>1, <1>2, <2>3, <2>2, Inserts
  <2>5. DOMAIN m.runs \subseteq DOMAIN r.runs
    BY <1>1, <2>4, Numbered DEF Rowed
  <2> QED  BY <1>1, <2>4, <2>5 DEF r, m
<1> QED  BY <1>3, <1>4

LEMMA DequeuesKept ==
  ASSUME NEW d, NEW t, NEW past, Kept(d, t, past), Sane(d), NEW c, NEW at
  PROVE  Kept(Dequeued(d, c, at), t, past) /\ Dequeued(d, c, at).job = d.job
<1> DEFINE k == Active(d)
           m == CancelOnly(d, {k})
           r == RestoreCurrent(m, k, at)
           e == Dequeued(d, c, at)
<1>1. CASE ~DropsQueued(d, c)
  BY <1>1 DEF Dequeued
<1>2. CASE DropsQueued(d, c)
  <2>1. k \in DOMAIN d.runs /\ d.runs[k].status = "pending" /\ LiveRows(d) = {k}
    BY <1>2, ActiveRun DEF DropsQueued, ActiveIs, Sane
  <2>2. CASE Pauses(c) \/ EditsTask(c)
    <3>1. e = Cancel(d, {k})
      BY <1>2, <2>2 DEF Dequeued
    <3> HIDE DEF k, e
    <3>2. Tracked(d, {k}, t, past)
      <4>1. \A i, j : WaitsFor(d, {k}, i, j) <=> WaitsFor(d, {}, i, j)
        BY <2>1 DEF WaitsFor
      <4>2. \A i : Holds(d, {k}, i) <=> Holds(d, {}, i)
        BY <4>1 DEF Holds
      <4> QED  BY <4>1, <4>2 DEF Kept, Tracked, Apart, Current
    <3>3. Tracked(e, {}, t, past) /\ Once(e) /\ e.job = d.job
      BY <2>1, <3>1, <3>2, CancelsTracked DEF Kept, Sane
    <3> QED  BY <3>3 DEF Kept, e
  <2>3. CASE ~(Pauses(c) \/ EditsTask(c))
    <3>1. e = Cancel(r, {k})
      BY <1>2, <2>3 DEF Dequeued
    <3>2. Tracked(r, {k}, t, past) /\ Once(r) /\ r.job = d.job
      <4> HIDE DEF k
      <4> QED  BY <2>1, RestoresTracked
    <3>3. Rowed(r) /\ k \in DOMAIN r.runs /\ r.runs[k].status = "cancelled"
      <4> HIDE DEF k
      <4> QED  BY <2>1, RestoresRowed
    <3> HIDE DEF k, m, r, e
    <3>4. Tracked(e, {}, t, past) /\ Once(e) /\ e.job = r.job
      BY <3>1, <3>2, <3>3, CancelsTracked
    <3> QED  BY <3>2, <3>4 DEF Kept, e
  <2> QED  BY <2>2, <2>3
<1> QED  BY <1>1, <1>2

LEMMA AppliesKept ==
  ASSUME NEW d, NEW t \in Nat, NEW past \in SUBSET (0 .. t), Reaches(d, t, past), Sane(d),
         NEW c, NEW at, Savable(d, c, at), Has(c, "schedule") \/ ResumesTiming(d, c) => at = t
  PROVE  Reaches(Applied(d, c, at), t, past)
<1> DEFINE r == Retimed(d, c, at)
           m == Dequeued(r, c, at)
           s == Saved(m, c)
           e == Applied(d, c, at)
<1>1. Kept(r, t, past) /\ Restarts(d, c, r, past) /\ r.job = [d.job EXCEPT !.next = r.job.next]
  BY RetimesKept
<1>2. Sane(r)
  BY Retimes DEF Follows
<1> HIDE DEF r
<1>3. Kept(m, t, past) /\ m.job = r.job
  BY <1>1, <1>2, DequeuesKept
<1>4. Sane(m)
  BY <1>2, Dequeues DEF Follows
<1>5. e = StopIfSpent(s, at)
  BY DEF Applied, r
<1> HIDE DEF m, e
<1>6. /\ s = [f \in {"job", "runs", "on", "beat"} |-> s[f]] /\ s.runs = m.runs
      /\ s.job = Changed(m.job, c)
  BY <1>4 DEF Sane, Rowed, Shape, Saved
<1> HIDE DEF s
<1>7. /\ m.job.schedule = d.job.schedule /\ m.job.endAt = d.job.endAt
      /\ m.job.enabled = d.job.enabled
  BY <1>1, <1>3 DEF Sane, Rowed, Shape, IsJob, JobFields
<1>8. /\ s.job.next = m.job.next
      /\ s.job.enabled => m.job.enabled \/ Enables(c)
      /\ s.job.schedule = IF Has(c, "schedule") THEN c["schedule"] ELSE m.job.schedule
      /\ s.job.endAt = IF Has(c, "endAt") THEN c["endAt"] ELSE m.job.endAt
  BY <1>4, <1>6
     DEF Sane, Rowed, Shape, IsJob, JobFields, Changed, Merge, Savable, Edits, EditOK, Has, Enables
<1>9. Later(s.job.next, s.job.enabled, m, {}, past)
  BY <1>1, <1>3, <1>7, <1>8 DEF Kept, Tracked, Ahead, Restarts, Later
<1>10. Kept(s, t, past)
  BY <1>3, <1>6, <1>9, JobKeeps
<1>11. Timed(s.job)
  BY <1>1, <1>3, <1>7, <1>8 DEF Timed, Reaches, Savable, Edits, Restarts
<1>12. IsJob(s.job)
  BY <1>4, <1>6 DEF Sane, Rowed, Shape, IsJob, JobFields, Changed, Merge, Savable, Edits, EditOK, Has, Enables
<1>13. Sane(s)
  BY <1>4, <1>6, <1>12 DEF Sane, Rowed, Shape, OneLive, LiveRows, QueuedIsNew, LinkedBut
<1> QED  BY <1>5, <1>10, <1>11, <1>13, StopReaches DEF Reaches, StopIfSpent, e

-----------------------------------------------------------------------------
(* The steps *)

\* A row is written that keeps its occurrences: its execution goes on, or has no say in them.
LEMMA RowKept ==
  ASSUME NEW d, NEW t, NEW past, Reaches(d, t, past), Rowed(d),
         NEW k \in DOMAIN d.runs, NEW row, Same(d.runs[k], row), row.link = d.runs[k].link,
         row.started = d.runs[k].started,
         row.status = d.runs[k].status \/ (d.runs[k].status \in Begun /\ row.status \in Begun),
         NEW e, e.runs = [d.runs EXCEPT ![k] = row], e.job = d.job
  PROVE  Reaches(e, t, past)
<1>1. /\ DOMAIN e.runs = DOMAIN d.runs /\ e.runs[k] = row
      /\ \A i \in DOMAIN d.runs \ {k} : e.runs[i] = d.runs[i]
  OBVIOUS
<1> PICK none : none = {}
  OBVIOUS
<1>2. Moves(d, e, none)
  BY <1>1 DEF Moves, Same
<1>3. \A i \in DOMAIN d.runs : d.runs[i].status = "pending" => d.runs[i].link = 0
  BY DEF Rowed, QueuedIsNew
<1>4. 0 \notin DOMAIN d.runs
  BY Numbered DEF Rowed
<1>5. \A i \in DOMAIN d.runs :
        e.runs[i].started => e.runs[i].status \notin {"pending", "missed", "cancelled"}
  BY <1>1 DEF Reaches, Kept, Tracked, Settled, Begun
<1>6. /\ Tracked(d, none, t, past) /\ \A i \in none : i \in none \/ d.runs[i].status = "pending"
      /\ \A i \in none : i \in DOMAIN d.runs /\ d.runs[i].status \in {"pending", "cancelled"}
      /\ \A i \in none : i \in none \/ e.runs[i].status = "cancelled"
  BY DEF Reaches, Kept
<1>7. Tracked(e, none, t, past)
  BY <1>1, <1>2, <1>3, <1>4, <1>5, <1>6, Rephrased
<1>8. Once(e)
  <2>1. \A i \in DOMAIN e.runs : e.runs[i].started =>
           /\ i \in DOMAIN d.runs /\ d.runs[i].started /\ e.runs[i].due = d.runs[i].due
           /\ d.runs[i].status = "retried" => e.runs[i].status = "retried"
    BY <1>1 DEF Same, Begun
  <2> QED  BY <1>1, <2>1, StartedAlike DEF Reaches, Kept
<1> QED  BY <1>7, <1>8 DEF Reaches, Kept

\* An update or a catch-up between two batches.
Asked(c, t) == c # None =>
  /\ c.at \in 0 .. t
  /\ c.op = "update" => /\ Edits(c.changes)
                        /\ Has(c.changes, "schedule") => Valid(c.changes["schedule"], c.at)
Occurring ==
  /\ now \in Nat /\ paused \in SUBSET (0 .. now)
  /\ Reaches(db, now, paused) /\ Asked(call, now)

\* An update that may restart the timing of its job collects in batches that take no time.
Restarting(c) == DOMAIN c \cap {"schedule", "enabled", "endAt"} # {}
Promptly == call # None /\ call.op = "update" /\ Restarting(call.changes) => call.at = now

\* What a transaction leaves at the same time.
Lasts == Reaches(db', now, paused) /\ Asked(call', now)

LEMMA EditsAreEdits ==
  ASSUME menu \in Menus, NEW c \in EditsOf[menu] PROVE Edits(c)
<1>1. c \in AllEdits
  BY DEF EditsOf
<1>2. EditOK(c)
  BY EditsAreOK
<1>3. CASE c \in [enabled : BOOLEAN] \cup [catchUp : BOOLEAN] \cup [schedule : Kinds]
  BY <1>2, <1>3 DEF Edits, Has
<1>4. CASE c \in [prompt : {"edited"}] \cup [decisionRequired : Modes] \cup [endAt : EndTimes]
  BY <1>2, <1>4 DEF Edits, Has
<1>5. CASE c \in [maxRuns : RunLimits]
  BY <1>2, <1>5 DEF Edits, Has
<1>6. CASE c \in [enabled : {TRUE}, endAt : EndTimes, maxRuns : RunLimits]
  BY <1>2, <1>6 DEF Edits, Has
<1>7. CASE c \in [enabled : BOOLEAN, schedule : Kinds]
  BY <1>2, <1>7 DEF Edits, Has
<1> QED  BY <1>1, <1>3, <1>4, <1>5, <1>6, <1>7 DEF AllEdits

\* Replacing a schedule that failed only enables the job.
LEMMA RepairedEdits ==
  ASSUME NEW d, NEW c, NEW t, Edits(c)
  PROVE  LET r == Repaired(d, c, t)
         IN /\ Edits(r) /\ (Has(r, "schedule") <=> Has(c, "schedule"))
            /\ IF Has(c, "schedule") THEN r["schedule"] = c["schedule"] ELSE r = c
<1>1. EditOK(Repaired(d, c, t))
  BY RepairedIsOK DEF Edits
<1> DEFINE r == Repaired(d, c, t)
<1>2. CASE r = c
  BY <1>2
<1>3. CASE r # c
  <2>1. /\ r = [f \in DOMAIN c \cup {"enabled"} |-> IF f = "enabled" THEN TRUE ELSE c[f]]
        /\ Has(c, "schedule")
    BY <1>3 DEF Repaired
  <2> HIDE DEF r
  <2>2. \A f \in {"schedule", "endAt", "next"} :
          (f \in DOMAIN r <=> f \in DOMAIN c) /\ (f \in DOMAIN c => r[f] = c[f])
    BY <2>1
  <2>3. EditOK(r)
    BY <1>1 DEF r
  <2>4. Has(c, "schedule") /\ Has(r, "schedule") /\ r["schedule"] = c["schedule"]
    BY <2>1, <2>2 DEF Has
  <2>5. Edits(r)
    BY <2>2, <2>3 DEF Edits, Has
  <2> QED  BY <2>4, <2>5 DEF r
<1> QED  BY <1>2, <1>3

LEMMA UpdateLasts ==
  ASSUME IInv, Occurring, NEW c, Edits(c), NEW at \in 0 .. now,
         Has(c, "schedule") => Valid(c["schedule"], at), UpdateStep(c, at),
         Restarting(c) => at = now
  PROVE  Lasts
<1> DEFINE d == UpToDate(db, c, at)
           changes == Repaired(db, c, at)
           e == Applied(d, changes, at)
<1>1. ~db.job.deleted /\ UpdateWith(d, c, at)
  BY DEF UpdateStep
<1>2. Sane(db)
  BY <1>1, Undeleted
<1>3. Sane(d)
  BY <1>2, GoesSafely, Itself DEF UpToDate, Follows
<1>4. Reaches(d, now, paused)
  BY <1>2, SafelyKept DEF UpToDate, Collects, Occurring
<1> HIDE DEF d
<1>5. CASE Collects(db, c) /\ ~Uncalculable(db, at) /\ Behind(d, at)
  <2>1. db' = d /\ call' = [op |-> "update", at |-> at, changes |-> c]
    BY <1>1, <1>5 DEF UpdateWith, Commit
  <2>2. Asked(call', now)
    BY <2>1 DEF Asked
  <2> QED  BY <1>4, <2>1, <2>2 DEF Lasts
<1>6. CASE ~(Collects(db, c) /\ ~Uncalculable(db, at) /\ Behind(d, at))
  <2>1. db' = e /\ call' = None /\ ~Refused(d, changes, at)
    BY <1>1, <1>6 DEF UpdateWith, Commit
  <2>2. /\ Edits(changes) /\ (Has(changes, "schedule") <=> Has(c, "schedule"))
        /\ IF Has(c, "schedule") THEN changes["schedule"] = c["schedule"] ELSE changes = c
    BY RepairedEdits
  <2> HIDE DEF changes
  <2>3. Savable(d, changes, at)
    BY <2>1, <2>2 DEF Savable, Refused
  <2>4. Has(changes, "schedule") \/ ResumesTiming(d, changes) => at = now
    BY <2>2 DEF Restarting, ResumesTiming, Enables, Has
  <2>6. Reaches(e, now, paused)
    BY <1>3, <1>4, <2>3, <2>4, AppliesKept DEF Occurring
  <2>5. Asked(call', now)
    BY <2>1 DEF Asked
  <2> QED  BY <2>1, <2>5, <2>6 DEF Lasts
<1> QED  BY <1>5, <1>6

LEMMA CatchUpLasts ==
  ASSUME IInv, Occurring, NEW at \in 0 .. now, CatchUpStep(at) PROVE Lasts
<1> DEFINE d == MaterializeJob(db, at)
           c == Coalesce(d, "catch_up")
           run == CaughtUpBy(d)
<1>1. Sane(db) /\ db.job.enabled /\ ~Uncalculable(db, at)
  BY Undeleted DEF CatchUpStep, Refuses
<1>2. Reaches(d, now, paused) /\ Sane(d)
  BY <1>1, MaterializesKept, Materializes DEF Occurring, Follows
<1>3. CatchUpWith(d, at)
  BY DEF CatchUpStep
<1> HIDE DEF d
<1>4. CASE Behind(d, at)
  <2>1. db' = d /\ call' = [op |-> "catch_up", at |-> at]
    BY <1>3, <1>4 DEF CatchUpWith, Commit
  <2> QED  BY <1>2, <2>1 DEF Lasts, Asked
<1>5. CASE ~Behind(d, at)
  <2>1. run # 0 /\ db' = [c EXCEPT !.runs[run].source = "catch_up"] /\ call' = None
    BY <1>3, <1>5 DEF CatchUpWith, Commit
  <2>2. Reaches(c, now, paused) /\ Sane(c)
    BY <1>2, CoalesceReaches, Coalesces DEF Follows
  <2>3. run \in DOMAIN c.runs /\ c.runs[run].source # "paused"
    <3>1. CASE Target(d) # 0
      <4>1. run = Target(d)
        BY <3>1 DEF CaughtUpBy
      <4>2. Target(d) \in DOMAIN c.runs /\ c.runs[Target(d)].status = "pending"
        BY <1>2, <3>1, CoalescesKept DEF Reaches
      <4> HIDE DEF c, run
      <4> QED  BY <2>2, <4>1, <4>2 DEF Reaches, Kept, Tracked, Settled
    <3>2. CASE Target(d) = 0
      <4>1. run = Active(d) /\ ActiveIs(d, Live, {"catch_up", "auto_catch_up"})
        BY <2>1, <3>2 DEF CaughtUpBy
      <4>2. c = d
        BY <3>2 DEF Coalesce
      <4>3. LiveRows(d) = {run} /\ run \in DOMAIN d.runs
        BY <1>2, <2>1, <4>1, ActiveRun DEF Sane
      <4> HIDE DEF c, run
      <4> QED  BY <4>1, <4>2, <4>3 DEF ActiveIs
    <3> QED  BY <3>1, <3>2
  <2> HIDE DEF c, run
  <2>4. PICK row : row = [c.runs[run] EXCEPT !.source = "catch_up"]
    OBVIOUS
  <2>5. PICK e : e = db'
    OBVIOUS
  <2>6. e.runs = [c.runs EXCEPT ![run] = row] /\ e.job = c.job
    BY <2>1, <2>2, <2>4, <2>5 DEF Sane, Rowed, Shape
  <2>7. IsRow(c.runs[run])
    BY <2>2, <2>3 DEF Sane, Rowed, Shape
  <2>8. /\ Same(c.runs[run], row) /\ row.link = c.runs[run].link /\ row.status = c.runs[run].status
        /\ row.started = c.runs[run].started
    BY <2>3, <2>4, <2>7 DEF IsRow, RowFields, Same
  <2>9. Reaches(e, now, paused)
    BY <2>2, <2>3, <2>6, <2>8, RowKept DEF Sane
  <2> QED  BY <2>1, <2>5, <2>9 DEF Lasts, Asked
<1> QED  BY <1>4, <1>5

\* Only the job is written, and as much of it as the occurrences do not depend on.
LEMMA JobReaches ==
  ASSUME NEW d, NEW t, NEW past, Reaches(d, t, past), NEW e, e.runs = d.runs,
         e.job.next = d.job.next, e.job.enabled => d.job.enabled,
         e.job.schedule = d.job.schedule, e.job.endAt = d.job.endAt
  PROVE  Reaches(e, t, past)
<1>1. Later(e.job.next, e.job.enabled, d, {}, past)
  BY DEF Reaches, Kept, Tracked, Ahead, Later
<1>2. Kept(e, t, past)
  BY <1>1, JobKeeps DEF Reaches
<1> QED  BY <1>2 DEF Reaches, Timed

LEMMA DeleteLasts == ASSUME IInv, Occurring, Delete PROVE Lasts
<1> DEFINE c == CancelOnly(db, Pending(db))
<1> PICK e : e = [c EXCEPT !.job.deleted = TRUE, !.job.enabled = FALSE]
  OBVIOUS
<1> PICK none : none = {}
  OBVIOUS
<1>1. Sane(db) /\ Kept(db, now, paused)
  BY Undeleted DEF Delete, Occurring, Reaches
<1>2. /\ \A i \in Pending(db) : i \in DOMAIN db.runs /\ db.runs[i].status = "pending"
      /\ \A i \in none : i \in Pending(db)
  BY DEF Pending
<1>3. Rowed(c) /\ c.job = db.job
  BY <1>1, <1>2, CancelsOnly
<1>4. Tracked(c, none, now, paused) /\ Once(c)
  BY <1>1, <1>2, CancelsOnlyTracked
<1>5. db' = e
  BY DEF Delete
<1> HIDE DEF c
<1>6. e.runs = c.runs /\ e.job = [c.job EXCEPT !.deleted = TRUE, !.enabled = FALSE]
  BY <1>3 DEF Rowed, Shape
<1>7. /\ e.job.next = c.job.next /\ ~e.job.enabled /\ e.job.schedule = c.job.schedule
      /\ e.job.endAt = c.job.endAt
  BY <1>3, <1>6 DEF Rowed, Shape, IsJob, JobFields
<1>8. Reaches(c, now, paused)
  BY <1>3, <1>4 DEF Occurring, Reaches, Kept
<1>9. Reaches(e, now, paused)
  BY <1>6, <1>7, <1>8, JobReaches
<1> QED  BY <1>5, <1>9 DEF Lasts, Delete, Occurring

LEMMA EnqueueLasts == ASSUME IInv, Occurring, Enqueue PROVE Lasts
<1> DEFINE row == NewRow("pending", "manual", now, now, 1, {})
           e == InsertRun(db, row)
<1>1. /\ row.status = "pending" /\ ~row.started /\ row.link = 0 /\ row.source = "manual"
      /\ row.due = {} /\ row.current = None
  BY DEF NewRow
<1>2. Sane(db)
  BY Undeleted DEF Enqueue
<1>3. db' = e /\ UNCHANGED call
  BY DEF Enqueue, Commit
<1> HIDE DEF row
<1>4. Extends(db, row, e) /\ e.job = db.job
  BY <1>2 DEF InsertRun, Sane, Rowed, Shape, Extends
<1> HIDE DEF e
<1>5. Fits(db, {}, row, now, paused)
  BY <1>1 DEF Fits
<1>6. Later(e.job.next, e.job.enabled, db, row.due, paused)
  BY <1>1, <1>4 DEF Occurring, Reaches, Kept, Tracked, Ahead, Later
<1>7. Tracked(db, {}, now, paused) /\ Once(db) /\ Rowed(db) /\ {} \subseteq DOMAIN db.runs
  BY <1>2 DEF Occurring, Reaches, Kept, Sane
<1>8. Tracked(e, {}, now, paused) /\ Once(e)
  BY <1>4, <1>5, <1>6, <1>7, Adds
<1> QED  BY <1>3, <1>4, <1>8 DEF Lasts, Occurring, Reaches, Kept

\* A run that ended without an answer gives its occurrences away.
LEMMA GivesAway ==
  ASSUME NEW d, NEW t, NEW past, Kept(d, t, past), Rowed(d), NEW k \in DOMAIN d.runs,
         d.runs[k].status \in {"uncertain", "failed"},
         NEW row, Same(d.runs[k], row), row.started = d.runs[k].started, row.status = "retried",
         NEW g, g.job = d.job, g.runs = [d.runs EXCEPT ![k] = row],
         \A i \in DOMAIN g.runs : g.runs[i].status # "pending"
  PROVE  /\ Tracked(g, {}, t, past) /\ Once(g)
         /\ \A i \in DOMAIN g.runs : Holds(g, {}, i) => row.due \cap g.runs[i].due = {}
<1>1. /\ DOMAIN g.runs = DOMAIN d.runs /\ g.runs[k] = row
      /\ \A i \in DOMAIN d.runs \ {k} : g.runs[i] = d.runs[i]
  OBVIOUS
<1>2. \A i, j : ~WaitsFor(g, {}, i, j)
  BY DEF WaitsFor
<1>3. \A i \in DOMAIN d.runs : \A j : ~WaitsFor(d, {}, i, j)
  BY <1>1 DEF WaitsFor
<1>4. \A i \in DOMAIN g.runs : Holds(g, {}, i) => i \in DOMAIN d.runs /\ i # k /\ Holds(d, {}, i)
  BY <1>1, <1>2 DEF Holds
<1>5. Holds(d, {}, k) /\ row.due = d.runs[k].due
  BY DEF Holds, Same
<1>6. \A i \in DOMAIN g.runs : Holds(g, {}, i) => row.due \cap g.runs[i].due = {}
  BY <1>1, <1>3, <1>4, <1>5 DEF Kept, Tracked, Apart
<1>7. Apart(g, {})
  BY <1>1, <1>3, <1>4 DEF Kept, Tracked, Apart
<1>8. Latest(g) /\ Current(g, {})
  BY DEF Latest, Current
<1>9. Settled(g)
  BY <1>1 DEF Kept, Tracked, Settled, Same
<1>10. Dated(g, t, past) /\ Ahead(g, past)
  BY <1>1 DEF Kept, Tracked, Dated, Ahead, Same
<1>11. Once(g)
  BY <1>1 DEF Kept, Once, Same
<1> QED  BY <1>6, <1>7, <1>8, <1>9, <1>10, <1>11 DEF Tracked

LEMMA RetryLasts == ASSUME IInv, Occurring, NEW i \in DOMAIN db.runs, Retry(i) PROVE Lasts
<1> DEFINE r == db.runs[i]
           new == NewRow("pending", "retry", r.first, r.last, r.count, r.due)
<1>1. PICK row : row = [r EXCEPT !.status = "retried", !.link = Len(db.runs) + 1]
  OBVIOUS
<1>2. PICK d : d = [db EXCEPT !.runs[i] = row]
  OBVIOUS
<1>3. PICK e : e = InsertRun(d, new)
  OBVIOUS
<1>4. /\ ~db.job.deleted /\ r.status \in {"uncertain", "failed"}
      /\ Active(d) = 0 /\ db' = e /\ UNCHANGED call
  BY <1>1, <1>2, <1>3 DEF Retry, Recoverable, Commit
<1>5. IsRow(row) /\ Same(r, row) /\ row.started = r.started /\ row.status = "retried"
  BY <1>1 DEF IInv, InOrder, Rowed, Shape, IsRow, RowFields, Statuses, Same
<1>6. /\ d = [f \in {"job", "runs", "on", "beat"} |-> d[f]] /\ d.job = db.job
      /\ d.runs = [db.runs EXCEPT ![i] = row] /\ IsJob(d.job)
  BY <1>2 DEF IInv, InOrder, Rowed, Shape
<1>7. Sane(db)
  BY <1>4, Undeleted
<1>8. Rowed(d)
  <2>1. Rowed(db)
    BY <1>7 DEF Sane
  <2>2. /\ row.status \in Live => r.status \in Live
        /\ row.status \notin {"pending", "missed", "cancelled"} \/ row.status = r.status
        /\ row.link = r.link \/ r.status \notin {"pending", "missed"}
        /\ row.started = r.started \/ row.status # "pending"
    BY <1>4, <1>5 DEF Live
  <2> QED  BY <1>5, <1>6, <2>1, <2>2, RowMoved
<1>9. \A k \in DOMAIN d.runs : d.runs[k].status # "pending"
  BY <1>4, <1>8, ActiveRun DEF LiveRows, Live
<1>10. Kept(db, now, paused) /\ Rowed(db)
  BY <1>7 DEF Occurring, Reaches, Sane
<1>11. /\ Tracked(d, {}, now, paused) /\ Once(d)
       /\ \A k \in DOMAIN d.runs : Holds(d, {}, k) => row.due \cap d.runs[k].due = {}
  BY <1>4, <1>5, <1>6, <1>9, <1>10, GivesAway
<1>12. /\ new.status = "pending" /\ ~new.started /\ new.link = 0 /\ new.source = "retry"
       /\ new.due = r.due /\ new.current = None
  BY DEF NewRow
<1> HIDE DEF new
<1>13. row.due = r.due
  BY <1>5 DEF Same
<1>14. r.due \subseteq 0 .. now /\ r.due \cap paused = {}
       /\ (db.job.next # None => \A x \in r.due : x < db.job.next)
  BY <1>4, <1>10 DEF Kept, Tracked, Dated, Ahead, Settled
<1>15. Fits(d, {}, new, now, paused)
  BY <1>11, <1>12, <1>13, <1>14 DEF Fits
<1>16. Extends(d, new, e) /\ e.job = d.job
  BY <1>3, <1>6 DEF InsertRun, Extends
<1>17. Later(e.job.next, e.job.enabled, d, new.due, paused)
  BY <1>6, <1>11, <1>12, <1>14, <1>16 DEF Tracked, Ahead, Later
<1>18. {} \subseteq DOMAIN d.runs
  OBVIOUS
<1>19. Tracked(e, {}, now, paused) /\ Once(e)
  BY <1>8, <1>11, <1>15, <1>16, <1>17, <1>18, Adds
<1> QED  BY <1>4, <1>6, <1>16, <1>19 DEF Lasts, Occurring, Reaches, Kept

\* Scheduling is switched off: what it had queued is missed.
LEMMA SetEnabledLasts == ASSUME IInv, Occurring, NEW on, SetEnabled(on) PROVE Lasts
<1>0. PICK e : e = [db EXCEPT !.on = on, !.runs = [i \in DOMAIN @ |->
       IF ~on /\ @[i].status = "pending" /\ @[i].source = "schedule"
       THEN [@[i] EXCEPT !.status = "missed"] ELSE @[i]]]
  OBVIOUS
<1>1. /\ e.job = db.job
      /\ e.runs = [i \in DOMAIN db.runs |->
           IF ~on /\ db.runs[i].status = "pending" /\ db.runs[i].source = "schedule"
           THEN [db.runs[i] EXCEPT !.status = "missed"] ELSE db.runs[i]]
  BY <1>0 DEF IInv, InOrder, Rowed, Shape
<1>2. db' = e /\ UNCHANGED call
  BY <1>0 DEF SetEnabled
<1>3. ASSUME NEW i \in DOMAIN db.runs
      PROVE  /\ Same(db.runs[i], e.runs[i]) /\ e.runs[i].started = db.runs[i].started
             /\ e.runs[i].link = db.runs[i].link
             /\ \/ e.runs[i].status = db.runs[i].status
                \/ db.runs[i].status = "pending" /\ e.runs[i].status = "missed"
                   /\ db.runs[i].source # "paused"
  BY <1>1 DEF IInv, InOrder, Rowed, Shape, IsRow, RowFields, Same
<1>4. DOMAIN e.runs = DOMAIN db.runs
  BY <1>1
<1> PICK none : none = {}
  OBVIOUS
<1>5. Moves(db, e, none)
  BY <1>3 DEF Moves
<1>6. /\ \A i \in DOMAIN db.runs : db.runs[i].status = "pending" => db.runs[i].link = 0
      /\ 0 \notin DOMAIN db.runs
  BY Numbered DEF IInv, InOrder, Rowed, QueuedIsNew
<1>7. \A i \in DOMAIN db.runs :
        e.runs[i].started => e.runs[i].status \notin {"pending", "missed", "cancelled"}
  BY <1>3 DEF Occurring, Reaches, Kept, Tracked, Settled
<1>8. /\ Tracked(db, none, now, paused)
      /\ \A i \in none : i \in none \/ db.runs[i].status = "pending"
      /\ \A i \in none : i \in DOMAIN db.runs /\ db.runs[i].status \in {"pending", "cancelled"}
      /\ \A i \in none : i \in none \/ e.runs[i].status = "cancelled"
  BY DEF Occurring, Reaches, Kept
<1>9. Tracked(e, none, now, paused)
  BY <1>1, <1>4, <1>5, <1>6, <1>7, <1>8, Rephrased
<1>10. Once(e)
  BY <1>3, <1>4, <1>7, StartedAlike DEF Occurring, Reaches, Kept, Same
<1> QED  BY <1>1, <1>2, <1>9, <1>10 DEF Lasts, Occurring, Reaches, Kept

LEMMA HeartbeatLasts == ASSUME IInv, Occurring, Heartbeat PROVE Lasts
<1> PICK e : e = [db EXCEPT !.beat = now]
  OBVIOUS
<1>1. e.job = db.job /\ e.runs = db.runs
  BY DEF IInv, InOrder, Rowed, Shape
<1>2. db' = e /\ UNCHANGED call
  BY DEF Heartbeat
<1>3. Reaches(e, now, paused)
  BY <1>1, JobReaches DEF Occurring
<1> QED  BY <1>2, <1>3 DEF Lasts, Occurring

LEMMA MaterializeLasts == ASSUME IInv, Occurring, Materialize PROVE Lasts
<1>1. CASE db.on /\ db.job.enabled /\ ~db.job.deleted
  <2>1. db' = Safely(db, now) /\ UNCHANGED call
    BY <1>1 DEF Materialize, Commit
  <2>2. Reaches(Safely(db, now), now, paused)
    BY <1>1, Undeleted, SafelyKept DEF Occurring
  <2> QED  BY <2>1, <2>2 DEF Lasts, Occurring
<1>2. CASE ~(db.on /\ db.job.enabled /\ ~db.job.deleted)
  BY <1>2 DEF Materialize, Commit, Lasts, Occurring
<1> QED  BY <1>1, <1>2

\* A queued run starts: what started before with one of its occurrences was retried.
LEMMA StartsKept ==
  ASSUME NEW d, NEW t, NEW past, Reaches(d, t, past), Rowed(d), NEW k \in DOMAIN d.runs,
         d.runs[k].status = "pending",
         NEW row, Same(d.runs[k], row), row.link = d.runs[k].link, row.status = "starting",
         NEW e, e.runs = [d.runs EXCEPT ![k] = row], e.job.next = d.job.next,
         e.job.enabled => d.job.enabled, e.job.schedule = d.job.schedule,
         e.job.endAt = d.job.endAt
  PROVE  Reaches(e, t, past)
<1> PICK g : g = [job |-> d.job, runs |-> e.runs]
  OBVIOUS
<1> PICK none : none = {}
  OBVIOUS
<1>1. /\ DOMAIN g.runs = DOMAIN d.runs /\ g.runs[k] = row /\ g.job = d.job
      /\ \A i \in DOMAIN d.runs \ {k} : g.runs[i] = d.runs[i]
  OBVIOUS
<1>2. Moves(d, g, none)
  BY <1>1 DEF Moves, Same, Reaches, Kept, Tracked, Settled
<1>3. /\ \A i \in DOMAIN d.runs : d.runs[i].status = "pending" => d.runs[i].link = 0
      /\ 0 \notin DOMAIN d.runs
  BY Numbered DEF Rowed, QueuedIsNew
<1>4. \A i \in DOMAIN d.runs :
        g.runs[i].started => g.runs[i].status \notin {"pending", "missed", "cancelled"}
  BY <1>1 DEF Reaches, Kept, Tracked, Settled
<1>5. /\ Tracked(d, none, t, past) /\ \A i \in none : i \in none \/ d.runs[i].status = "pending"
      /\ \A i \in none : i \in DOMAIN d.runs /\ d.runs[i].status \in {"pending", "cancelled"}
      /\ \A i \in none : i \in none \/ g.runs[i].status = "cancelled"
  BY DEF Reaches, Kept
<1>6. Tracked(g, none, t, past)
  BY <1>1, <1>2, <1>3, <1>4, <1>5, Rephrased
<1>7. ASSUME NEW i \in DOMAIN d.runs, d.runs[i].started, i # k,
             d.runs[i].due \cap d.runs[k].due # {}
      PROVE  d.runs[i].status = "retried" /\ i < k
  <2>1. d.runs[i].status \notin {"pending", "missed", "cancelled"}
    BY <1>7 DEF Reaches, Kept, Tracked, Settled
  <2>2. ~WaitsFor(d, {}, i, k) /\ ~WaitsFor(d, {}, k, i) /\ Holds(d, {}, k)
    BY <2>1 DEF WaitsFor, Holds
  <2>3. d.runs[i].status # "retried" => Holds(d, {}, i)
    BY <2>1 DEF Holds
  <2>4. d.runs[i].status = "retried"
    BY <1>7, <2>2, <2>3 DEF Reaches, Kept, Tracked, Apart
  <2> QED  BY <2>4 DEF Reaches, Kept, Tracked, Latest
<1>8. Once(g)
  <2> SUFFICES ASSUME NEW i \in DOMAIN g.runs, NEW j \in DOMAIN g.runs, i < j,
                      g.runs[i].started, g.runs[j].started, g.runs[i].due \cap g.runs[j].due # {}
               PROVE  g.runs[i].status = "retried"
    BY DEF Once
  <2>1. i \in Nat /\ j \in Nat /\ i # j
    BY <1>1, Numbered DEF Rowed
  <2>2. d.runs[i].due \cap d.runs[j].due # {}
    BY <1>1 DEF Same
  <2>3. CASE i # k /\ j # k
    BY <1>1, <2>2, <2>3 DEF Reaches, Kept, Once
  <2>4. CASE i = k
    <3>1. d.runs[j].started /\ d.runs[j].due \cap d.runs[k].due # {}
      BY <1>1, <2>1, <2>2, <2>4
    <3>2. j < k
      BY <1>1, <1>7, <2>1, <2>4, <3>1
    <3> QED  BY <2>1, <2>4, <3>2
  <2>5. CASE j = k
    BY <1>1, <1>7, <2>1, <2>2, <2>5
  <2> QED  BY <2>3, <2>4, <2>5
<1>9. Reaches(g, t, past)
  BY <1>1, <1>6, <1>8 DEF Reaches, Kept
<1> QED  BY <1>1, <1>9, JobReaches

LEMMA ClaimLasts == ASSUME IInv, Occurring, Claim PROVE Lasts
<1>1. CASE UNCHANGED db
  BY <1>1 DEF Claim, Lasts, Occurring
<1>2. CASE ~UNCHANGED db
  <2>1. PICK i, d :
          /\ i \in Claimable(db, claimAt)
          /\ d = [db EXCEPT !.runs[i].status = "starting", !.runs[i].started = TRUE,
                            !.job.runCount = @ + 1]
          /\ db' = IF Limit(d.job, claimAt) = "max_runs" THEN StopJob(d, "max_runs") ELSE d
    BY <1>2 DEF Claim
  <2>0. i \in Claimable(db, claimAt)
    BY <2>1
  <2>2. i \in DOMAIN db.runs /\ db.runs[i].status = "pending" /\ ~db.job.deleted
    BY <2>0 DEF Claimable, Pending
  <2>3. PICK row : row = [db.runs[i] EXCEPT !.status = "starting", !.started = TRUE]
    OBVIOUS
  <2>4. PICK job : job = [db.job EXCEPT !.runCount = @ + 1]
    OBVIOUS
  <2>5. Sane(db)
    BY <2>2, Undeleted
  <2>6. /\ IsRow(row) /\ row.status = "starting" /\ row.started /\ row.link = 0
        /\ db.runs[i].link = 0 /\ Same(db.runs[i], row)
    BY <2>2, <2>3, <2>5 DEF Sane, Rowed, Shape, QueuedIsNew, IsRow, RowFields, Statuses, Same
  <2>7. PICK n \in Nat : n = db.job.runCount
    BY <2>5 DEF Sane, Rowed, Shape, IsJob
  <2>8. IsJob(db.job)
    BY <2>5 DEF Sane, Rowed, Shape
  <2>9. job = [db.job EXCEPT !.runCount = n + 1]
    BY <2>4, <2>7
  <2>10. /\ IsJob(job) /\ job.next = db.job.next /\ job.enabled = db.job.enabled
         /\ job.schedule = db.job.schedule /\ job.endAt = db.job.endAt
    BY <2>7, <2>8, <2>9 DEF IsJob, JobFields
  <2>11. /\ d = [f \in {"job", "runs", "on", "beat"} |-> d[f]] /\ d.job = job
         /\ d.runs = [db.runs EXCEPT ![i] = row]
    BY <2>1, <2>2, <2>3, <2>4, <2>5 DEF Sane, Rowed, Shape
  <2>12. Sane(d)
    <3>1. Rowed(db) /\ LinkedBut(db, {})
      BY <2>5 DEF Sane
    <3>2. /\ row.status \in Live => db.runs[i].status \in Live
          /\ row.status \notin {"pending", "missed", "cancelled"} \/ row.status = db.runs[i].status
          /\ row.link = db.runs[i].link \/ db.runs[i].status \notin {"pending", "missed"}
          /\ row.started = db.runs[i].started \/ row.status # "pending"
      BY <2>2, <2>5, <2>6 DEF Live, Sane, Rowed, QueuedIsNew
    <3> QED  BY <2>2, <2>6, <2>10, <2>11, <3>1, <3>2, RowMoved DEF Sane
  <2>13. Reaches(d, now, paused)
    <3>1. /\ d.job.next = db.job.next /\ (d.job.enabled => db.job.enabled)
          /\ d.job.schedule = db.job.schedule /\ d.job.endAt = db.job.endAt
      BY <2>10, <2>11
    <3>2. Reaches(db, now, paused) /\ Rowed(db)
      BY <2>5 DEF Occurring, Sane
    <3>3. d.runs = [db.runs EXCEPT ![i] = row] /\ row.link = db.runs[i].link
      BY <2>6, <2>11
    <3> QED  BY <2>2, <2>6, <3>1, <3>2, <3>3, StartsKept
  <2>14. Reaches(db', now, paused)
    BY <2>1, <2>12, <2>13, StopReaches
  <2> QED  BY <2>14 DEF Lasts, Claim, Occurring
<1> QED  BY <1>1, <1>2

\* A row is written, and its job is stopped or not.
LEMMA RowLasts ==
  ASSUME IInv, Occurring, NEW i \in DOMAIN db.runs, NEW row, IsRow(row), Same(db.runs[i], row),
         row.started = db.runs[i].started, row.link = db.runs[i].link,
         \/ row.status = db.runs[i].status
         \/ <<db.runs[i].status, row.status>> \in StatusMoves
            /\ db.runs[i].status \in Begun /\ row.status \in Begun,
         NEW d, Writes(db, i, row, d),
         db' = d \/ (~db.job.deleted /\ \E reason : db' = StopJob(d, reason)), UNCHANGED call
  PROVE  Lasts
<1>1. InOrder(d) /\ d.job = db.job
  BY RowGoes DEF IInv, Begun
<1>2. d.runs = [db.runs EXCEPT ![i] = row]
  BY DEF IInv, InOrder, Rowed, Shape, Writes
<1>3. Rowed(db) /\ Reaches(db, now, paused)
  BY DEF IInv, InOrder, Occurring
<1>4. Reaches(d, now, paused)
  BY <1>1, <1>2, <1>3, RowKept
<1>5. ~db.job.deleted => Sane(d)
  BY <1>1 DEF InOrder, Sane
<1>6. Reaches(db', now, paused)
  BY <1>4, <1>5, StopReaches
<1> QED  BY <1>6 DEF Lasts, Occurring

LEMMA HostLasts ==
  ASSUME IInv, Occurring, NEW i \in DOMAIN db.runs, RecordHost(i) \/ ClearHost(i) PROVE Lasts
<1> DEFINE r == db.runs[i]
<1>1. PICK h \in BOOLEAN : db' = [db EXCEPT !.runs[i].host = h]
  BY DEF RecordHost, ClearHost
<1>2. PICK row : row = [r EXCEPT !.host = h]
  OBVIOUS
<1>3. IsRow(r)
  BY DEF IInv, InOrder, Rowed, Shape
<1>4. /\ IsRow(row) /\ row.started = r.started /\ row.link = r.link /\ row.status = r.status
      /\ Same(r, row)
  BY <1>2, <1>3 DEF IsRow, RowFields, Same
<1>5. PICK d : d = db'
  OBVIOUS
<1>6. Writes(db, i, row, d)
  BY <1>1, <1>2, <1>5 DEF Writes
<1>7. UNCHANGED call
  BY DEF RecordHost, ClearHost
<1> QED  BY <1>4, <1>5, <1>6, <1>7, RowLasts

LEMMA StatusLasts ==
  ASSUME IInv, Occurring, NEW i \in DOMAIN db.runs, NEW status \in Begun,
         <<db.runs[i].status, status>> \in StatusMoves, db.runs[i].status \in Begun,
         NEW d, d = [db EXCEPT !.runs[i].status = status],
         db' = d \/ (~db.job.deleted /\ \E reason : db' = StopJob(d, reason)), UNCHANGED call
  PROVE  Lasts
<1> DEFINE r == db.runs[i]
<1>1. PICK row : row = [r EXCEPT !.status = status]
  OBVIOUS
<1>2. IsRow(r)
  BY DEF IInv, InOrder, Rowed, Shape
<1>3. /\ IsRow(row) /\ row.started = r.started /\ row.link = r.link /\ row.status = status
      /\ Same(r, row)
  BY <1>1, <1>2 DEF IsRow, RowFields, Same, Begun, Statuses
<1>4. Writes(db, i, row, d)
  BY <1>1 DEF Writes
<1> QED  BY <1>3, <1>4, RowLasts

LEMMA MarkRunningLasts ==
  ASSUME IInv, Occurring, NEW i \in DOMAIN db.runs, MarkRunning(i) PROVE Lasts
BY StatusLasts DEF MarkRunning, StatusMoves, Begun

LEMMA DismissLasts ==
  ASSUME IInv, Occurring, NEW i \in DOMAIN db.runs, Dismiss(i) PROVE Lasts
BY StatusLasts DEF Dismiss, Recoverable, StatusMoves, Begun

LEMMA DecideLasts ==
  ASSUME IInv, Occurring, NEW i \in DOMAIN db.runs, NEW decision, Decide(i, decision) PROVE Lasts
<1>1. PICK row : row = [db.runs[i] EXCEPT !.decision = decision]
  OBVIOUS
<1>2. PICK d : d = [db EXCEPT !.runs[i] = row]
  OBVIOUS
<1>3. IsRow(db.runs[i])
  BY DEF IInv, InOrder, Rowed, Shape
<1>4. /\ IsRow(row) /\ row.started = db.runs[i].started /\ row.link = db.runs[i].link
      /\ row.status = db.runs[i].status /\ Same(db.runs[i], row)
  BY <1>1, <1>3 DEF IsRow, RowFields, Same
<1>5. db' = d \/ (~db.job.deleted /\ \E reason : db' = StopJob(d, reason))
  BY <1>1, <1>2 DEF Decide
<1>6. Writes(db, i, row, d) /\ UNCHANGED call
  BY <1>2 DEF Writes, Decide
<1> QED  BY <1>4, <1>5, <1>6, RowLasts

LEMMA OutcomeLasts ==
  ASSUME IInv, Occurring, NEW i \in DOMAIN db.runs, NEW status \in Begun,
         <<db.runs[i].status, status>> \in StatusMoves, db.runs[i].status \in Begun,
         ~db.job.deleted,
         db' = ApplyDecision([db EXCEPT !.runs[i].status = status], db.runs[i], status),
         UNCHANGED call
  PROVE  Lasts
<1>1. PICK d : d = [db EXCEPT !.runs[i].status = status]
  OBVIOUS
<1>2. db' = ApplyDecision(d, db.runs[i], status)
  BY <1>1
<1>3. db' = d \/ (~db.job.deleted /\ \E reason : db' = StopJob(d, reason))
  BY <1>2 DEF ApplyDecision
<1> QED  BY <1>1, <1>3, StatusLasts

LEMMA FinishLasts ==
  ASSUME IInv, Occurring, NEW i \in DOMAIN db.runs, NEW status, Finish(i, status) PROVE Lasts
<1>1. /\ \/ db.runs[i].status = "starting" /\ status = "failed"
         \/ db.runs[i].status = "running" /\ status \in {"succeeded", "uncertain"}
      /\ ~db.job.deleted /\ UNCHANGED call
      /\ db' = ApplyDecision([db EXCEPT !.runs[i].status = status], db.runs[i], status)
  BY DEF Finish
<1>2. /\ status \in Begun /\ <<db.runs[i].status, status>> \in StatusMoves
      /\ db.runs[i].status \in Begun
  BY <1>1 DEF Begun, StatusMoves
<1> QED  BY <1>1, <1>2, OutcomeLasts

LEMMA RecoverInterruptedLasts == ASSUME IInv, Occurring, RecoverInterrupted PROVE Lasts
<1>1. PICK i \in DOMAIN db.runs :
        /\ db.runs[i].status \in {"starting", "running"}
        /\ ~db.job.deleted
        /\ db' = ApplyDecision([db EXCEPT !.runs[i].status = InDoubt], db.runs[i], InDoubt)
  BY DEF RecoverInterrupted
<1>2. /\ InDoubt \in Begun /\ <<db.runs[i].status, InDoubt>> \in StatusMoves
      /\ db.runs[i].status \in Begun
  BY <1>1 DEF InDoubt, Begun, StatusMoves
<1>3. UNCHANGED call
  BY DEF RecoverInterrupted
<1> QED  BY <1>1, <1>2, <1>3, OutcomeLasts

LEMMA UpdateCallLasts ==
  ASSUME IInv, Occurring, menu \in Menus, NEW c \in EditsOf[menu], Update(c) PROVE Lasts
<1>1. Edits(c)
  BY EditsAreEdits
<1>2. Has(c, "schedule") => Valid(c["schedule"], now)
  BY DEF Update, ValidEdit
<1>3. now \in 0 .. now
  BY DEF Occurring
<1> QED  BY <1>1, <1>2, <1>3, UpdateLasts DEF Update

LEMMA CatchUpCallLasts == ASSUME IInv, Occurring, CatchUp PROVE Lasts
<1>1. now \in 0 .. now
  BY DEF Occurring
<1> QED  BY <1>1, CatchUpLasts DEF CatchUp

LEMMA NextBatchLasts == ASSUME IInv, Occurring, Promptly, NextBatch PROVE Lasts
<1>1. call # None /\ call.at \in 0 .. now
  BY DEF NextBatch, Occurring, Asked
<1>2. CASE call' = None /\ UNCHANGED db
  BY <1>2 DEF Lasts, Occurring, Asked
<1>3. CASE call.op = "update" /\ UpdateStep(call.changes, call.at)
  <2>1. /\ Edits(call.changes)
        /\ Has(call.changes, "schedule") => Valid(call.changes["schedule"], call.at)
    BY <1>1, <1>3 DEF Occurring, Asked
  <2>2. Restarting(call.changes) => call.at = now
    BY <1>1, <1>3 DEF Promptly
  <2> QED  BY <1>1, <1>3, <2>1, <2>2, UpdateLasts
<1>4. CASE CatchUpStep(call.at)
  BY <1>1, <1>4, CatchUpLasts
<1> QED  BY <1>2, <1>3, <1>4 DEF NextBatch

\* Time passes, and a job that is stopped lets its occurrences go.
LEMMA TickOccurring == ASSUME Occurring, Tick PROVE Occurring'
<1>1. /\ now \in Nat /\ now' = now + 1 /\ db' = db /\ call' = call
      /\ paused \subseteq 0 .. now
      /\ paused' = IF db.job.enabled THEN paused ELSE paused \cup {now + 1}
  BY DEF Occurring, Tick
<1>2. now' \in Nat /\ paused' \in SUBSET (0 .. now')
  BY <1>1
<1>3. /\ Tracked(db, {}, now, paused) /\ Once(db) /\ Timed(db.job) /\ Asked(call, now)
  BY DEF Occurring, Reaches, Kept
<1>4. Dated(db, now', paused')
  <2> SUFFICES ASSUME NEW i \in DOMAIN db.runs
               PROVE  /\ db.runs[i].due \subseteq 0 .. now'
                      /\ db.runs[i].source # "paused" => db.runs[i].due \cap paused' = {}
    BY DEF Dated
  <2>1. \A x \in db.runs[i].due : x \in 0 .. now
    BY <1>3 DEF Tracked, Dated
  <2>2. \A x \in db.runs[i].due : x \in 0 .. now' /\ x # now + 1
    BY <1>1, <2>1
  <2>3. db.runs[i].source # "paused" => db.runs[i].due \cap paused = {}
    BY <1>3 DEF Tracked, Dated
  <2> QED  BY <1>1, <2>2, <2>3
<1>5. Ahead(db, paused')
  BY <1>1, <1>3 DEF Tracked, Ahead
<1>6. Reaches(db, now', paused')
  BY <1>3, <1>4, <1>5 DEF Reaches, Kept, Tracked
<1>7. Asked(call, now')
  <2>1. call # None => call.at \in 0 .. now'
    BY <1>1, <1>3 DEF Asked
  <2> QED  BY <1>3, <2>1 DEF Asked
<1> QED  BY <1>1, <1>2, <1>6, <1>7 DEF Occurring

LEMMA InitOccurring == ASSUME Init PROVE Occurring
<1>1. /\ now = 0 /\ paused = {} /\ call = None /\ db.runs = <<>> /\ menu \in Menus
  BY DEF Init
<1>2. PICK kind \in menu.kinds, e \in EndTimes :
        /\ Valid(kind, 0) /\ db.job.schedule = kind /\ db.job.next = FirstDue(kind, 0)
        /\ db.job.endAt = e
  BY DEF Init
<1>3. kind \in Kinds
  BY <1>1, ScheduleAssumption
<1>4. /\ FirstDue(kind, 0) \in Nat /\ FirstDue(kind, 0) > 0
      /\ kind = "cron" => FirstDue(kind, 0) \in CronTimes
  BY <1>2, <1>3, FirstIsAhead
<1>5. Timed(db.job)
  BY <1>2, <1>3, <1>4 DEF Timed
<1>6. DOMAIN db.runs = {}
  BY <1>1
<1>7. Tracked(db, {}, now, paused) /\ Once(db)
  BY <1>1, <1>2, <1>4, <1>6
     DEF Tracked, Apart, Latest, Current, Settled, Dated, Ahead, Once
<1>8. now \in Nat /\ paused \in SUBSET (0 .. now) /\ Asked(call, now)
  BY <1>1 DEF Asked
<1> QED  BY <1>5, <1>7, <1>8 DEF Occurring, Reaches, Kept

LEMMA LastsOn ==
  ASSUME Occurring, Lasts, now' = now, paused' = paused PROVE Occurring'
BY DEF Occurring, Lasts

\* Only Tick writes the clock and the instants that were paused.
LEMMA ClockStays ==
  ASSUME Operators \/ Worker PROVE now' = now /\ paused' = paused
<1>1. CASE Operators
  BY <1>1 DEF Operators, Update, CatchUp, NextBatch, Delete, Enqueue, Dismiss, Retry, SetEnabled,
              Command, ghost
<1>2. CASE Worker
  BY <1>2 DEF Worker, Heartbeat, Materialize, Claim, RecoverInterrupted, RecordHost, ClearHost,
              MarkRunning, Decide, Finish, ghost
<1> QED  BY <1>1, <1>2

LEMMA OccurringStep ==
  ASSUME IInv, menu \in Menus, Occurring, Promptly, [Next]_vars PROVE Occurring'
<1>1. CASE Operators
  <2>1. Lasts
    BY <1>1, UpdateCallLasts, NextBatchLasts, DeleteLasts, EnqueueLasts, DismissLasts,
       RetryLasts, SetEnabledLasts, CatchUpCallLasts DEF Operators
  <2> QED  BY <1>1, <2>1, ClockStays, LastsOn
<1>2. CASE Worker
  <2>1. Lasts
    BY <1>2, HeartbeatLasts, MaterializeLasts, ClaimLasts, RecoverInterruptedLasts, HostLasts,
       MarkRunningLasts, DecideLasts, FinishLasts DEF Worker
  <2> QED  BY <1>2, <2>1, ClockStays, LastsOn
<1>3. CASE Tick
  BY <1>3, TickOccurring
<1>4. CASE UNCHANGED vars
  BY <1>4 DEF vars, ghost, Occurring
<1> QED  BY <1>1, <1>2, <1>3, <1>4 DEF Next

\* In every behaviour whose updates restart a timing at once, an occurrence has one row that answers for
\* it, and the schedule is ahead of all of them and of what was paused.
THEOREM OccurrencesAreKept == Spec /\ []Promptly => []Occurring
BY InitOccurring, OccurringStep, Invariant, Menued, PTL DEF Spec

\* No occurrence starts twice, but for a retry that an operator acknowledged.
THEOREM OccurrencesStartOnce == Spec /\ []Promptly => []StartedOnce
<1>1. ASSUME Occurring PROVE StartedOnce
  BY <1>1 DEF Occurring, Reaches, Kept, Once, StartedOnce
<1> QED  BY <1>1, OccurrencesAreKept, PTL

\* What came while the job was paused or stopped is in no execution.
THEOREM PausesAreNotReplayed == Spec /\ []Promptly => []PausedIsNotReplayed
<1>1. ASSUME Occurring PROVE PausedIsNotReplayed
  BY <1>1 DEF Occurring, Reaches, Kept, Tracked, Settled, Dated, PausedIsNotReplayed
<1> QED  BY <1>1, OccurrencesAreKept, PTL
-----------------------------------------------------------------------------
(* The window of a scheduled start *)

CaughtUp == {"catch_up", "auto_catch_up"}

\* The row was not queued or started by the transaction, and keeps its time.
Alike(r, s) ==
  /\ s.source = r.source \/ s.source \in CaughtUp
  /\ s.last = r.last
  /\ s.status = r.status \/ s.status \notin {"pending", "starting"}
\* The worker may start it at t, if the schedule queued it.
Punctual(d, s, t) == s.status = "pending" /\ s.source = "schedule" =>
  s.last \in Nat /\ (s.last >= t - Grace \/ Fresh(d, t))
Opens(d, s, t) == s.source \in Sources /\ s.status # "starting" /\ Punctual(d, s, t)
Timely(d, e, t) ==
  /\ e.on = d.on /\ e.beat = d.beat
  /\ \A i \in DOMAIN e.runs :
       \/ i \in DOMAIN d.runs /\ Alike(d.runs[i], e.runs[i])
       \/ Opens(d, e.runs[i], t)
\* What a collection leaves of the job.
SameJob(d, e) ==
  /\ e.job.enabled = d.job.enabled /\ e.job.schedule = d.job.schedule
  /\ e.job.endAt = d.job.endAt /\ e.job.maxRuns = d.job.maxRuns
  /\ e.job.runCount = d.job.runCount /\ e.job.deleted = d.job.deleted

LEMMA TimelyOn ==
  ASSUME NEW c, NEW d, NEW e, NEW t, Timely(c, d, t), Timely(d, e, t) PROVE Timely(c, e, t)
<1>1. \A s : Opens(d, s, t) => Opens(c, s, t)
  BY DEF Timely, Opens, Punctual, Fresh
<1>2. \A r, s : Opens(c, r, t) /\ Alike(r, s) => Opens(c, s, t)
  BY DEF Opens, Punctual, Alike, CaughtUp, Sources
<1>3. \A q, r, s : Alike(q, r) /\ Alike(r, s) => Alike(q, s)
  BY DEF Alike
<1>4. e.on = c.on /\ e.beat = c.beat
  BY DEF Timely
<1>5. ASSUME NEW i \in DOMAIN e.runs
      PROVE  \/ i \in DOMAIN c.runs /\ Alike(c.runs[i], e.runs[i])
             \/ Opens(c, e.runs[i], t)
  <2>1. \/ i \in DOMAIN d.runs /\ Alike(d.runs[i], e.runs[i])
        \/ Opens(d, e.runs[i], t)
    BY DEF Timely
  <2>2. i \in DOMAIN d.runs => \/ i \in DOMAIN c.runs /\ Alike(c.runs[i], d.runs[i])
                               \/ Opens(c, d.runs[i], t)
    BY DEF Timely
  <2> QED  BY <1>1, <1>2, <1>3, <2>1, <2>2
<1> QED  BY <1>4, <1>5 DEF Timely

LEMMA TimelyItself == ASSUME NEW d, NEW t PROVE Timely(d, d, t) /\ SameJob(d, d)
BY DEF Timely, Alike, SameJob

\* A row is appended.
LEMMA InsertsTimely ==
  ASSUME NEW d, Rowed(d), NEW t, NEW row, Opens(d, row, t)
  PROVE  LET e == InsertRun(d, row)
         IN /\ Timely(d, e, t) /\ SameJob(d, e)
            /\ row.status # "pending" /\ Pending(d) = {} => Pending(e) = {}
<1> DEFINE e == InsertRun(d, row)
<1>1. /\ e.job = d.job /\ e.on = d.on /\ e.beat = d.beat /\ e.runs = Append(d.runs, row)
  BY DEF InsertRun, Rowed, Shape
<1> HIDE DEF e
<1>2. \A i \in DOMAIN e.runs : e.runs[i] = row \/ (i \in DOMAIN d.runs /\ e.runs[i] = d.runs[i])
  BY <1>1, Appended DEF Rowed, Shape
<1>3. \A r : Alike(r, r)
  BY DEF Alike
<1>4. Timely(d, e, t)
  BY <1>1, <1>2, <1>3 DEF Timely
<1>5. row.status # "pending" /\ Pending(d) = {} => Pending(e) = {}
  BY <1>2 DEF Pending
<1> QED  BY <1>1, <1>4, <1>5 DEF SameJob, e

\* The rows are mapped to rows alike.
LEMMA RowsTimely ==
  ASSUME NEW d, NEW t, NEW e, e.on = d.on, e.beat = d.beat, DOMAIN e.runs = DOMAIN d.runs,
         \A i \in DOMAIN d.runs : Alike(d.runs[i], e.runs[i])
  PROVE  Timely(d, e, t) /\ (Pending(d) = {} => Pending(e) = {})
BY DEF Timely, Alike, Pending

LEMMA CancelsTimely ==
  ASSUME NEW d, Rowed(d), NEW t, NEW queued
  PROVE  LET e == Cancel(d, queued)
         IN /\ Timely(d, e, t) /\ SameJob(d, e) /\ Pending(e) = Pending(d) \ queued
<1> DEFINE e == Cancel(d, queued)
<1>1. /\ e.job = d.job /\ e.on = d.on /\ e.beat = d.beat
      /\ e.runs = [i \in DOMAIN d.runs |->
           IF i \in queued THEN [d.runs[i] EXCEPT !.status = "cancelled"]
           ELSE IF d.runs[i].status = "missed" /\ d.runs[i].link \in queued
                THEN [d.runs[i] EXCEPT !.link = 0]
                ELSE d.runs[i]]
  BY DEF Cancel, Rowed, Shape
<1> HIDE DEF e
<1>2. ASSUME NEW i \in DOMAIN d.runs
      PROVE  /\ Alike(d.runs[i], e.runs[i])
             /\ e.runs[i].status = IF i \in queued THEN "cancelled" ELSE d.runs[i].status
  BY <1>1 DEF Rowed, Shape, IsRow, RowFields, Alike
<1>3. Pending(e) = Pending(d) \ queued
  BY <1>1, <1>2 DEF Pending
<1> QED  BY <1>1, <1>2, <1>3, RowsTimely DEF SameJob, e

LEMMA StopsTimely ==
  ASSUME NEW d, Sane(d), NEW t, NEW reason
  PROVE  LET e == StopJob(d, reason)
         IN Timely(d, e, t) /\ ~e.job.enabled /\ Pending(e) = {} /\ e.job.deleted = d.job.deleted
<1> DEFINE c == Cancel(d, Pending(d))
           e == StopJob(d, reason)
<1>1. Timely(d, c, t) /\ SameJob(d, c) /\ Pending(c) = {}
  BY CancelsTimely DEF Sane
<1>2. Sane(c)
  <2>1. \A i \in Pending(d) : i \in DOMAIN d.runs /\ d.runs[i].status = "pending"
    BY DEF Pending
  <2>2. Rowed(d) /\ LinkedBut(d, Pending(d)) /\ Pending(d) \subseteq DOMAIN d.runs
    BY <2>1 DEF Sane, LinkedBut
  <2> QED  BY <2>1, <2>2, Cancels
<1>3. e = [c EXCEPT !.job.enabled = FALSE, !.job.next = None, !.job.stop = reason]
  BY DEF StopJob
<1> HIDE DEF c, e
<1>4. /\ e.runs = c.runs /\ e.on = c.on /\ e.beat = c.beat
      /\ e.job = [c.job EXCEPT !.enabled = FALSE, !.next = None, !.stop = reason]
      /\ ~e.job.enabled /\ e.job.deleted = c.job.deleted
  <2>1. /\ e.runs = c.runs /\ e.on = c.on /\ e.beat = c.beat
        /\ e.job = [c.job EXCEPT !.enabled = FALSE, !.next = None, !.stop = reason]
    BY <1>2, <1>3 DEF Sane, Rowed, Shape
  <2> QED  BY <1>2, <2>1 DEF Sane, Rowed, Shape, IsJob, JobFields
<1>5. Timely(d, e, t) /\ Pending(e) = {}
  BY <1>1, <1>4 DEF Timely, Pending
<1> QED  BY <1>1, <1>4, <1>5 DEF SameJob, e

\* What the schedule queued has a time.
Dates(d) == \A i \in DOMAIN d.runs :
  /\ d.runs[i].source \in Sources
  /\ d.runs[i].status = "pending" /\ d.runs[i].source = "schedule" => d.runs[i].last \in Nat
InWindow(d, t) == \A i \in DOMAIN d.runs : Punctual(d, d.runs[i], t)

LEMMA DatesOn ==
  ASSUME NEW d, NEW e, NEW t, Dates(d), Timely(d, e, t) PROVE Dates(e)
BY DEF Dates, Timely, Alike, Opens, Punctual, CaughtUp, Sources

LEMMA WindowOn ==
  ASSUME NEW d, NEW e, NEW t, InWindow(d, t), Timely(d, e, t) PROVE InWindow(e, t)
<1>1. e.beat = d.beat
  BY DEF Timely
<1>2. \A s : Punctual(d, s, t) => Punctual(e, s, t)
  BY <1>1 DEF Punctual, Fresh
<1>3. \A r, s : Punctual(d, r, t) /\ Alike(r, s) => Punctual(d, s, t)
  BY DEF Punctual, Alike, CaughtUp
<1> QED  BY <1>2, <1>3 DEF InWindow, Timely, Opens

\* What nobody could start in its window is a miss.
LEMMA AgesOutTimely ==
  ASSUME NEW d, Sane(d), Dates(d), NEW t \in Nat
  PROVE  LET e == AgeOut(d, t) IN Timely(d, e, t) /\ SameJob(d, e) /\ InWindow(e, t)
<1> DEFINE e == AgeOut(d, t)
           a == Active(d)
<1>1. \A i \in DOMAIN d.runs : d.runs[i].status = "pending" => a # 0 /\ i = a
  <2>1. \A i \in DOMAIN d.runs : d.runs[i].status = "pending" => i \in LiveRows(d)
    BY DEF LiveRows, Live
  <2> QED  BY <2>1, ActiveRun DEF Sane
<1>2. a # 0 => LiveRows(d) = {a} /\ a \in DOMAIN d.runs
  BY ActiveRun DEF Sane
<1>3. t \in Int /\ Grace \in Int
  BY ScheduleAssumption
<1> HIDE DEF a
<1>4. CASE ActiveIs(d, {"pending"}, {"schedule"}) /\ d.runs[a].last < t - Grace /\ ~Fresh(d, t)
  <2>1. e = [d EXCEPT !.runs[a].status = "missed"]
    BY <1>4 DEF AgeOut, a
  <2>2. /\ e.job = d.job /\ e.on = d.on /\ e.beat = d.beat
        /\ e.runs = [d.runs EXCEPT ![a] = [d.runs[a] EXCEPT !.status = "missed"]]
    BY <2>1 DEF Sane, Rowed, Shape
  <2> HIDE DEF e
  <2>3. a \in DOMAIN d.runs
    BY <1>2, <1>4, ActiveRun DEF ActiveIs, Sane, a
  <2>4. ASSUME NEW i \in DOMAIN d.runs
        PROVE  /\ Alike(d.runs[i], e.runs[i])
               /\ e.runs[i].status # "pending"
    BY <1>1, <2>2, <2>3 DEF Sane, Rowed, Shape, IsRow, RowFields, Alike
  <2>5. Timely(d, e, t)
    BY <2>2, <2>4, RowsTimely
  <2>6. InWindow(e, t)
    BY <2>2, <2>4 DEF InWindow, Punctual
  <2> QED  BY <2>2, <2>5, <2>6 DEF SameJob, e
<1>5. CASE ~(ActiveIs(d, {"pending"}, {"schedule"}) /\ d.runs[a].last < t - Grace /\ ~Fresh(d, t))
  <2>1. e = d
    BY <1>5 DEF AgeOut, a
  <2>2. ASSUME NEW i \in DOMAIN d.runs, d.runs[i].status = "pending", d.runs[i].source = "schedule"
        PROVE  d.runs[i].last \in Nat /\ (d.runs[i].last >= t - Grace \/ Fresh(d, t))
    <3>1. i = a /\ i \in LiveRows(d)
      BY <1>1, <1>2, <2>2
    <3>2. ActiveIs(d, {"pending"}, {"schedule"})
      BY <2>2, <3>1 DEF ActiveIs
    <3>3. d.runs[i].last \in Nat
      BY <2>2 DEF Dates
    <3>4. d.runs[i].last < t - Grace => Fresh(d, t)
      BY <1>5, <3>1, <3>2
    <3> QED  BY <1>3, <3>3, <3>4
  <2>3. InWindow(d, t)
    BY <2>2 DEF InWindow, Punctual
  <2> QED  BY <2>1, <2>3, TimelyItself
<1> QED  BY <1>4, <1>5

LEMMA NextTimely ==
  ASSUME NEW d, Sane(d), NEW t, NEW next, NEW e, e = [d EXCEPT !.job.next = next]
  PROVE  Timely(d, e, t) /\ SameJob(d, e) /\ (Pending(d) = {} => Pending(e) = {})
<1>1. /\ e.runs = d.runs /\ e.on = d.on /\ e.beat = d.beat
      /\ e.job = [d.job EXCEPT !.next = next]
  BY DEF Sane, Rowed, Shape
<1>2. SameJob(d, e)
  BY <1>1 DEF Sane, Rowed, Shape, IsJob, JobFields, SameJob
<1>3. \A r : Alike(r, r)
  BY DEF Alike
<1> QED  BY <1>1, <1>2, <1>3, RowsTimely

LEMMA ClosesTimely ==
  ASSUME NEW d, Sane(d), NEW t
  PROVE  Timely(d, CloseWindow(d), t) /\ SameJob(d, CloseWindow(d))
BY NextTimely, TimelyItself DEF CloseWindow

\* One row is written.
LEMMA WritesTimely ==
  ASSUME NEW d, Rowed(d), NEW t, NEW k \in DOMAIN d.runs, NEW row,
         Alike(d.runs[k], row) \/ Opens(d, row, t), NEW e, e = [d EXCEPT !.runs[k] = row]
  PROVE  /\ Timely(d, e, t) /\ SameJob(d, e)
         /\ row.status # "pending" /\ Pending(d) = {} => Pending(e) = {}
<1>1. /\ e.job = d.job /\ e.on = d.on /\ e.beat = d.beat /\ e.runs = [d.runs EXCEPT ![k] = row]
  BY DEF Rowed, Shape
<1>2. DOMAIN e.runs = DOMAIN d.runs /\ \A i \in DOMAIN d.runs : e.runs[i] = IF i = k THEN row ELSE d.runs[i]
  BY <1>1
<1>3. \A r : Alike(r, r)
  BY DEF Alike
<1> QED  BY <1>1, <1>2, <1>3 DEF Timely, SameJob, Pending

LEMMA LinksTimely ==
  ASSUME NEW d, Sane(d), NEW t, NEW missed, NEW k, NEW e, e = LinkTo(d, missed, k)
  PROVE  /\ Timely(d, e, t) /\ SameJob(d, e) /\ DOMAIN e.runs = DOMAIN d.runs
         /\ \A i \in DOMAIN d.runs :
              e.runs[i].source = d.runs[i].source /\ e.runs[i].status = d.runs[i].status
<1>1. /\ e.job = d.job /\ e.on = d.on /\ e.beat = d.beat
      /\ e.runs = [i \in DOMAIN d.runs |->
           IF i \in missed THEN [d.runs[i] EXCEPT !.link = k] ELSE d.runs[i]]
  BY DEF LinkTo, Sane, Rowed, Shape
<1>2. ASSUME NEW i \in DOMAIN d.runs
      PROVE  /\ Alike(d.runs[i], e.runs[i]) /\ e.runs[i].status = d.runs[i].status
             /\ e.runs[i].source = d.runs[i].source
  BY <1>1 DEF Sane, Rowed, Shape, IsRow, RowFields, Alike
<1>3. DOMAIN e.runs = DOMAIN d.runs
  BY <1>1
<1> QED  BY <1>1, <1>2, <1>3, RowsTimely DEF SameJob, Alike

LEMMA CoalescesIntoTimely ==
  ASSUME NEW d, Sane(d), NEW t, NEW source \in CaughtUp,
         NEW missed, \A i \in missed : i \in DOMAIN d.runs /\ d.runs[i].status = "missed", NEW k,
         \/ k = Len(d.runs) + 1 /\ LiveRows(d) = {}
         \/ k \in DOMAIN d.runs /\ d.runs[k].status = "pending"
  PROVE  LET e == CoalesceInto(d, source, missed, k)
         IN /\ Timely(d, e, t) /\ SameJob(d, e)
            /\ k \in DOMAIN e.runs /\ e.runs[k].source \in CaughtUp /\ e.runs[k].status = "pending"
<1> DEFINE e == CoalesceInto(d, source, missed, k)
           first == Min({d.runs[i].first : i \in missed})
           last == Max({d.runs[i].last : i \in missed})
           count == Occurrences(d, missed)
           due == UNION {d.runs[i].due : i \in missed}
           new == NewRow("pending", source, first, last, count, due)
           old == Grown(d.runs[k], source, first, last, count, due)
<1>1. DOMAIN d.runs = 1 .. Len(d.runs) /\ Len(d.runs) \in Nat
  BY Numbered DEF Sane, Rowed
<1>2. ASSUME NEW g, Sane(g), Timely(d, g, t), SameJob(d, g),
             k \in DOMAIN g.runs, g.runs[k].source \in CaughtUp, g.runs[k].status = "pending",
             e = LinkTo(g, missed, k)
      PROVE  /\ Timely(d, e, t) /\ SameJob(d, e) /\ k \in DOMAIN e.runs
             /\ e.runs[k].source \in CaughtUp /\ e.runs[k].status = "pending"
  <2> HIDE DEF e
  <2>1. /\ Timely(g, e, t) /\ SameJob(g, e) /\ DOMAIN e.runs = DOMAIN g.runs
        /\ e.runs[k].source = g.runs[k].source /\ e.runs[k].status = g.runs[k].status
    BY <1>2, LinksTimely
  <2>2. Timely(d, e, t)
    BY <1>2, <2>1, TimelyOn
  <2> QED  BY <1>2, <2>1, <2>2 DEF SameJob
<1>3. CASE k = Len(d.runs) + 1 /\ LiveRows(d) = {}
  <2> DEFINE g == InsertRun(d, new)
  <2>1. IsRow(new) /\ new.status = "pending" /\ ~new.started /\ new.link = 0
    BY NewRows DEF Statuses
  <2>2. e = LinkTo(g, missed, k)
    BY <1>1, <1>3 DEF CoalesceInto
  <2>3. Opens(d, new, t) /\ new.source = source
    BY DEF NewRow, Opens, Punctual, Sources, CaughtUp
  <2> HIDE DEF e, new
  <2>4. /\ Rowed(g) /\ LinkedBut(g, {})
        /\ DOMAIN g.runs = 1 .. Len(d.runs) + 1 /\ g.runs[Len(d.runs) + 1] = new
    BY <1>3, <2>1, Inserts DEF Sane
  <2>5. Timely(d, g, t) /\ SameJob(d, g)
    BY <2>3, InsertsTimely DEF Sane
  <2> HIDE DEF g
  <2>6. Sane(g) /\ k \in DOMAIN g.runs /\ g.runs[k] = new
    BY <1>1, <1>3, <2>4 DEF Sane
  <2> QED  BY <1>2, <2>1, <2>2, <2>3, <2>5, <2>6 DEF e
<1>4. CASE k \in DOMAIN d.runs /\ d.runs[k].status = "pending"
  <2> DEFINE g == [d EXCEPT !.runs[k] = old]
  <2>1. e = LinkTo(g, missed, k)
    BY <1>1, <1>4 DEF CoalesceInto
  <2>2. IsRow(d.runs[k])
    BY <1>4 DEF Sane, Rowed, Shape
  <2>3. /\ IsRow(old) /\ old.link = d.runs[k].link /\ old.status = d.runs[k].status
        /\ old.started = d.runs[k].started /\ old.source \in CaughtUp
    BY <2>2 DEF Grown, IsRow, RowFields, CaughtUp
  <2>4. Opens(d, old, t)
    BY <1>4, <2>3 DEF Opens, Punctual, CaughtUp, Sources
  <2> HIDE DEF e, old
  <2>5. Follows(d, g) /\ DOMAIN g.runs = DOMAIN d.runs
    BY <1>4, <2>3, RowWritten
  <2>6. Timely(d, g, t) /\ SameJob(d, g)
    BY <1>4, <2>4, WritesTimely DEF Sane
  <2>7. g.runs[k] = old
    BY <1>4 DEF Sane, Rowed, Shape
  <2> HIDE DEF g
  <2> QED  BY <1>2, <1>4, <2>1, <2>3, <2>5, <2>6, <2>7 DEF e, Follows
<1> QED  BY <1>3, <1>4

LEMMA CoalescesTimely ==
  ASSUME NEW d, Sane(d), NEW t, NEW source \in CaughtUp
  PROVE  LET e == Coalesce(d, source)
         IN /\ Timely(d, e, t) /\ SameJob(d, e)
            /\ Target(d) # 0 =>
                 /\ Target(d) \in DOMAIN e.runs /\ e.runs[Target(d)].source \in CaughtUp
                 /\ e.runs[Target(d)].status = "pending"
<1>1. CASE Target(d) = 0
  BY <1>1, TimelyItself DEF Coalesce
<1>2. CASE Target(d) # 0
  <2>1. \/ Target(d) = Len(d.runs) + 1 /\ Active(d) = 0
        \/ Target(d) = Active(d) /\ Active(d) # 0 /\ ActiveIs(d, {"pending"}, Catchable)
    BY <1>2 DEF Target
  <2>2. \/ Target(d) = Len(d.runs) + 1 /\ LiveRows(d) = {}
        \/ Target(d) \in DOMAIN d.runs /\ d.runs[Target(d)].status = "pending"
    BY <2>1, ActiveRun DEF Sane, ActiveIs
  <2>3. \A i \in Misses(d) : i \in DOMAIN d.runs /\ d.runs[i].status = "missed"
    BY DEF Misses
  <2>4. LET e == CoalesceInto(d, source, Misses(d), Target(d))
        IN /\ Timely(d, e, t) /\ SameJob(d, e)
           /\ Target(d) \in DOMAIN e.runs /\ e.runs[Target(d)].source \in CaughtUp
           /\ e.runs[Target(d)].status = "pending"
    BY <2>2, <2>3, CoalescesIntoTimely
  <2> QED  BY <1>2, <2>4 DEF Coalesce
<1> QED  BY <1>1, <1>2

LEMMA RecordsTimely ==
  ASSUME NEW d, Sane(d), NEW t, NEW missed, NEW next
  PROVE  LET e == Recorded(d, missed, next) IN Timely(d, e, t) /\ SameJob(d, e)
<1> DEFINE row == NewRow("missed", "schedule", Min(missed), Max(missed), Cardinality(missed),
                         missed)
           c == IF missed = {} THEN d ELSE InsertRun(d, row)
           e == Recorded(d, missed, next)
<1>1. Timely(d, c, t) /\ SameJob(d, c) /\ Sane(c)
  <2>1. Opens(d, row, t)
    BY DEF NewRow, Opens, Punctual, Sources
  <2>2. IsRow(row) /\ row.status = "missed" /\ ~row.started /\ row.link = 0
    BY NewRows DEF Statuses
  <2> HIDE DEF row
  <2>3. CASE missed # {}
    <3>1. Timely(d, c, t) /\ SameJob(d, c)
      BY <2>1, <2>3, InsertsTimely DEF Sane
    <3>2. Sane(c)
      BY <2>2, <2>3, Inserts DEF Sane
    <3> QED  BY <3>1, <3>2
  <2> QED  BY <2>3, TimelyItself
<1>2. e = [c EXCEPT !.job.next = next]
  BY DEF Recorded
<1> HIDE DEF c, e
<1>3. Timely(c, e, t) /\ SameJob(c, e)
  BY <1>1, <1>2, NextTimely
<1> QED  BY <1>1, <1>3, TimelyOn DEF SameJob, e

LEMMA QueuesTimely ==
  ASSUME NEW d, Sane(d), NEW t, NEW last \in Nat, last >= t - Grace
  PROVE  LET e == Queued(d, last) IN Timely(d, e, t) /\ SameJob(d, e)
<1> DEFINE row == NewRow("pending", "schedule", last, last, 1, {last})
           c == Coalesce(d, "auto_catch_up")
           k == Target(d)
           old == Renewed(c.runs[k], last)
           e == Queued(d, last)
<1>1. CASE ~d.job.catchUp \/ Target(d) = 0
  <2>1. e = InsertRun(d, row)
    BY <1>1 DEF Queued
  <2>2. Opens(d, row, t)
    BY DEF NewRow, Opens, Punctual, Sources
  <2> HIDE DEF row
  <2> QED  BY <2>1, <2>2, InsertsTimely DEF Sane
<1>2. CASE ~(~d.job.catchUp \/ Target(d) = 0)
  <2>1. e = [c EXCEPT !.runs[k] = old]
    BY <1>2 DEF Queued
  <2>2. Follows(d, c)
    BY Coalesces
  <2>3. /\ Timely(d, c, t) /\ SameJob(d, c)
        /\ k \in DOMAIN c.runs /\ c.runs[k].source \in CaughtUp /\ c.runs[k].status = "pending"
    BY <1>2, CoalescesTimely DEF CaughtUp
  <2> HIDE DEF c, e, k
  <2>4. IsRow(c.runs[k])
    BY <2>2, <2>3 DEF Follows, Sane, Rowed, Shape
  <2>5. old.source = c.runs[k].source /\ old.status = c.runs[k].status
    BY <2>4 DEF Renewed, IsRow, RowFields
  <2>6. Opens(c, old, t)
    BY <2>3, <2>5 DEF Opens, Punctual, CaughtUp, Sources
  <2> HIDE DEF old
  <2>7. Timely(c, e, t) /\ SameJob(c, e)
    BY <2>1, <2>2, <2>3, <2>6, WritesTimely DEF Follows, Sane
  <2> QED  BY <2>3, <2>7, TimelyOn DEF SameJob, e
<1> QED  BY <1>1, <1>2

\* A job whose next occurrence is an instant.
Clocked(d) == Timed(d.job) /\ d.job.next \in Nat \cup {None}

LEMMA LastDue ==
  ASSUME NEW d, Clocked(d), NEW t \in Nat, Due(d.job, t)
  PROVE  Max(Collected(d.job, t)) \in 0 .. t
<1> DEFINE all == Collected(d.job, t)
<1>1. all \subseteq d.job.next .. t /\ all # {}
  BY CollectedIsDue DEF Clocked
<1>2. d.job.next \in Nat
  BY DEF Clocked, Due
<1> HIDE DEF all
<1>3. all \in SUBSET (0 .. t)
  BY <1>1, <1>2
<1>4. Max(all) \in all
  BY <1>1, <1>3, Extremes
<1> QED  BY <1>3, <1>4 DEF all

LEMMA CollectsTimely ==
  ASSUME NEW d, Sane(d), Clocked(d), NEW t \in Nat
  PROVE  LET e == Collect(d, t) IN Timely(d, e, t) /\ SameJob(d, e)
<1> DEFINE all == Collected(d.job, t)
           last == Max(all)
           next == NextDue(d.job, all)
           missed == IF OnTime(d, t, last, next) THEN all \ {last} ELSE all
           c == Recorded(d, missed, next)
           e == Collect(d, t)
<1>1. CASE ~Due(d.job, t)
  BY <1>1, TimelyItself DEF Collect
<1>2. CASE Due(d.job, t)
  <2>1. e = IF OnTime(d, t, last, next) THEN Queued(c, last) ELSE c
    BY <1>2 DEF Collect, CollectAll
  <2>2. last \in Nat
    BY <1>2, LastDue
  <2>3. OnTime(d, t, last, next) => last >= t - Grace
    BY DEF OnTime
  <2> HIDE DEF last, next, missed
  <2>4. Sane(c) /\ Timely(d, c, t) /\ SameJob(d, c)
    BY Records, RecordsTimely DEF Follows
  <2> HIDE DEF c, e
  <2>5. CASE OnTime(d, t, last, next)
    <3>1. Timely(c, e, t) /\ SameJob(c, e)
      BY <2>1, <2>2, <2>3, <2>4, <2>5, QueuesTimely
    <3> QED  BY <2>4, <3>1, TimelyOn DEF SameJob, e
  <2> QED  BY <2>1, <2>4, <2>5 DEF e
<1> QED  BY <1>1, <1>2

\* The job stands as it did, or its limit stopped it with nothing queued.
Stands(d, e, t) ==
  \/ SameJob(d, e)
  \/ /\ Limit(d.job, t) # None /\ ~e.job.enabled /\ Pending(e) = {}
     /\ e.job.deleted = d.job.deleted

LEMMA SameLimit ==
  ASSUME NEW d, NEW e, SameJob(d, e), NEW t PROVE Limit(e.job, t) = Limit(d.job, t)
BY DEF SameJob, Limit

LEMMA WindsUpTimely ==
  ASSUME NEW d, Sane(d), NEW t
  PROVE  LET e == WindUp(d, t) IN Timely(d, e, t) /\ Stands(d, e, t)
<1> DEFINE e == WindUp(d, t)
<1>1. CASE Limit(d.job, t) # None /\ d.job.next = None
  <2>1. e = StopJob(d, "end_at")
    BY <1>1 DEF WindUp
  <2> QED  BY <1>1, <2>1, StopsTimely DEF Stands
<1>2. CASE e = Coalesce(d, "auto_catch_up")
  BY <1>2, CoalescesTimely DEF CaughtUp, Stands
<1>3. CASE e = d
  BY <1>3, TimelyItself DEF Stands
<1> QED  BY <1>1, <1>2, <1>3 DEF WindUp

\* What is queued once a job was materialized may be started at that time.
LEMMA MaterializesTimely ==
  ASSUME NEW d, Sane(d), Clocked(d), Dates(d), NEW t \in Nat
  PROVE  LET e == MaterializeJob(d, t)
         IN Timely(d, e, t) /\ Stands(d, e, t) /\ InWindow(e, t)
<1>1. CASE Limit(d.job, t) = "max_runs"
  <2> DEFINE e == StopJob(d, "max_runs")
  <2>1. MaterializeJob(d, t) = e
    BY <1>1 DEF MaterializeJob
  <2>2. /\ Timely(d, e, t) /\ ~e.job.enabled /\ Pending(e) = {}
        /\ e.job.deleted = d.job.deleted
    BY StopsTimely
  <2> HIDE DEF e
  <2>3. InWindow(e, t)
    BY <2>2 DEF InWindow, Punctual, Pending
  <2>4. Limit(d.job, t) # None
    BY <1>1, ScheduleAssumption
  <2> QED  BY <2>1, <2>2, <2>3, <2>4 DEF Stands
<1>2. CASE Limit(d.job, t) # "max_runs"
  <2> DEFINE a == AgeOut(d, t)
             b == CloseWindow(a)
             c == Collect(b, t)
             e == WindUp(c, t)
  <2>1. MaterializeJob(d, t) = e
    BY <1>2 DEF MaterializeJob
  <2>2. /\ Sane(a) /\ Timely(d, a, t) /\ SameJob(d, a) /\ InWindow(a, t)
        /\ a.job = d.job
    <3>1. a.job = d.job
      BY DEF AgeOut, Sane, Rowed, Shape
    <3> QED  BY <3>1, AgesOut, AgesOutTimely DEF Follows
  <2> HIDE DEF a
  <2>3. Sane(b) /\ Timely(a, b, t) /\ SameJob(a, b)
    BY <2>2, ClosesWindow, ClosesTimely DEF Follows
  <2>4. Clocked(b)
    <3>1. b = a \/ b = [a EXCEPT !.job.next = None]
      BY DEF CloseWindow
    <3>2. CASE b = [a EXCEPT !.job.next = None]
      <4>1. b.job = [a.job EXCEPT !.next = None] /\ IsJob(a.job)
        BY <2>2, <3>2 DEF Sane, Rowed, Shape
      <4> HIDE DEF b
      <4>2. b.job.next = None
        BY <4>1 DEF IsJob, JobFields
      <4> QED  BY <2>2, <2>3, <4>2 DEF Clocked, Timed, SameJob
    <3> QED  BY <2>2, <3>1, <3>2 DEF Clocked
  <2> HIDE DEF b
  <2>5. Sane(c) /\ Timely(b, c, t) /\ SameJob(b, c)
    BY <2>3, <2>4, CollectsDue, CollectsTimely DEF Follows
  <2> HIDE DEF c
  <2>6. Timely(c, e, t) /\ Stands(c, e, t)
    BY <2>5, WindsUpTimely
  <2> HIDE DEF e
  <2>7. Timely(a, c, t) /\ SameJob(d, c)
    BY <2>2, <2>3, <2>5, TimelyOn DEF SameJob
  <2>8. Timely(a, e, t)
    BY <2>6, <2>7, TimelyOn
  <2>9. Timely(d, e, t) /\ InWindow(e, t)
    BY <2>2, <2>8, TimelyOn, WindowOn
  <2>10. Limit(c.job, t) = Limit(d.job, t)
    BY <2>7, SameLimit
  <2>11. Stands(d, e, t)
    BY <2>6, <2>7, <2>10 DEF Stands, SameJob
  <2> QED  BY <2>1, <2>9, <2>11
<1> QED  BY <1>1, <1>2

\* The schedule of a job that was stopped has no more occurrences, if a run is queued.
Stuck(job, t) == job.schedule = "cron" /\ ~Calculable(t)
Idle(d, t) == ~d.job.enabled => Pending(d) = {} \/ Stuck(d.job, t)

LEMMA StuckByNow ==
  ASSUME NEW d, Clocked(d), NEW t \in Nat, Uncalculable(d, t) PROVE Stuck(d.job, t)
<1>1. Max(Collected(d.job, t)) \in 0 .. t /\ ~Calculable(Max(Collected(d.job, t)))
  BY LastDue DEF Uncalculable
<1>2. \A c \in CronTimes : c \in Nat
  BY Instants
<1> DEFINE last == Max(Collected(d.job, t))
<1> HIDE DEF last
<1>3. ~Calculable(t)
  <2>1. last \in Nat /\ last <= t /\ ~\E c \in CronTimes : c > last
    BY <1>1 DEF Calculable, last
  <2> QED  BY <1>2, <2>1 DEF Calculable
<1> QED  BY <1>3 DEF Uncalculable, Stuck

LEMMA SafelyTimely ==
  ASSUME NEW d, Sane(d), Clocked(d), Dates(d), NEW t \in Nat, d.job.enabled
  PROVE  LET e == Safely(d, t)
         IN /\ Timely(d, e, t) /\ Idle(e, t) /\ e.job.deleted = d.job.deleted
            /\ e.job.enabled => InWindow(e, t)
            /\ Uncalculable(d, t) => ~e.job.enabled
            /\ ~Uncalculable(d, t) /\ ~e.job.enabled => Pending(e) = {}
<1> DEFINE row == NewRow("failed", "schedule_error", d.job.next, Max({d.job.next, t}), 1, {})
           c == InsertRun(d, row)
           e == Safely(d, t)
<1>1. CASE ~Uncalculable(d, t)
  <2>1. e = MaterializeJob(d, t)
    BY <1>1 DEF Safely
  <2>2. Timely(d, e, t) /\ Stands(d, e, t) /\ InWindow(e, t)
    BY <2>1, MaterializesTimely
  <2> HIDE DEF e
  <2> QED  BY <1>1, <2>2 DEF Stands, SameJob, Idle, e
<1>2. CASE Uncalculable(d, t)
  <2>1. row.status = "failed" /\ Opens(d, row, t)
    BY DEF NewRow, Opens, Punctual, Sources
  <2>2. IsRow(row) /\ ~row.started /\ row.link = 0
    BY NewRows DEF Statuses
  <2>3. e = [c EXCEPT !.job.enabled = FALSE]
    BY <1>2 DEF Safely
  <2> HIDE DEF row, e
  <2>4. Timely(d, c, t) /\ SameJob(d, c)
    BY <2>1, InsertsTimely DEF Sane
  <2>5. Rowed(c)
    BY <2>1, <2>2, Inserts DEF Sane
  <2> HIDE DEF c
  <2>6. /\ e.runs = c.runs /\ e.on = c.on /\ e.beat = c.beat
        /\ e.job = [c.job EXCEPT !.enabled = FALSE]
    BY <2>3, <2>5 DEF Rowed, Shape
  <2>7. /\ ~e.job.enabled /\ e.job.schedule = c.job.schedule /\ e.job.deleted = c.job.deleted
    BY <2>5, <2>6 DEF Rowed, Shape, IsJob, JobFields
  <2>8. Stuck(d.job, t)
    BY <1>2, StuckByNow
  <2>9. Timely(d, e, t)
    BY <2>4, <2>6 DEF Timely
  <2> QED  BY <1>2, <2>4, <2>7, <2>8, <2>9 DEF Idle, Stuck, SameJob, e
<1> QED  BY <1>1, <1>2

LEMMA RetimesTimely ==
  ASSUME NEW d, Sane(d), NEW c, NEW t
  PROVE  LET e == Retimed(d, c, t)
         IN Timely(d, e, t) /\ SameJob(d, e) /\ (Pending(d) = {} => Pending(e) = {})
<1> DEFINE row == NewRow("missed", "paused", d.job.next, d.job.next, 1, {d.job.next})
           m == InsertRun(d, row)
           e == Retimed(d, c, t)
<1>1. CASE e = d
  BY <1>1, TimelyItself
<1>2. CASE \E next : e = [d EXCEPT !.job.next = next]
  BY <1>2, NextTimely
<1>3. CASE e = [m EXCEPT !.job.next = None]
  <2>1. IsRow(row) /\ row.status = "missed" /\ ~row.started /\ row.link = 0
    BY NewRows DEF Statuses
  <2>2. Opens(d, row, t)
    BY DEF NewRow, Opens, Punctual, Sources
  <2> HIDE DEF row, e
  <2>3. Sane(m)
    BY <2>1, Inserts DEF Sane
  <2>4. Timely(d, m, t) /\ SameJob(d, m) /\ (Pending(d) = {} => Pending(m) = {})
    BY <2>1, <2>2, InsertsTimely DEF Sane
  <2> HIDE DEF m
  <2>5. Timely(m, e, t) /\ SameJob(m, e) /\ (Pending(m) = {} => Pending(e) = {})
    BY <1>3, <2>3, NextTimely
  <2> QED  BY <2>4, <2>5, TimelyOn DEF SameJob, e
<1>4. \/ e = d \/ (\E next : e = [d EXCEPT !.job.next = next])
      \/ e = [m EXCEPT !.job.next = None]
  BY DEF Retimed
<1> QED  BY <1>1, <1>2, <1>3, <1>4

\* What is restored may still start, or is missed.
LEMMA RestoresTimely ==
  ASSUME NEW d, NEW t \in Nat, NEW past, Kept(d, t, past), Sane(d), NEW k \in DOMAIN d.runs,
         d.runs[k].status = "pending"
  PROVE  Timely(d, RestoreCurrent(CancelOnly(d, {k}), k, t), t)
<1> DEFINE m == CancelOnly(d, {k})
           r == RestoreCurrent(m, k, t)
           current == m.runs[k].current
           timely == current >= t - Grace \/ Fresh(m, t)
<1>1. Rowed(m) /\ DOMAIN m.runs = DOMAIN d.runs
  BY CancelsOnly
<1>2. /\ m.on = d.on /\ m.beat = d.beat
      /\ m.runs = [i \in DOMAIN d.runs |->
           IF i \in {k} THEN [d.runs[i] EXCEPT !.status = "cancelled"] ELSE d.runs[i]]
  BY DEF CancelOnly, Sane, Rowed, Shape
<1> HIDE DEF m
<1>3. \A i \in DOMAIN d.runs : Alike(d.runs[i], m.runs[i])
  BY <1>2 DEF Sane, Rowed, Shape, IsRow, RowFields, Alike
<1>4. Timely(d, m, t)
  BY <1>1, <1>2, <1>3, RowsTimely
<1>5. current = d.runs[k].current
  BY <1>2 DEF Sane, Rowed, Shape, IsRow, RowFields
<1>6. CASE r = m
  BY <1>4, <1>6 DEF m
<1>7. CASE r # m
  <2>1. current # None /\ \E left : r = InsertRun(m, NewRow(IF timely THEN "pending" ELSE "missed", "schedule",
                                           current, current, left, {current}))
    BY <1>7 DEF RestoreCurrent
  <2>2. PICK left : r = InsertRun(m, NewRow(IF timely THEN "pending" ELSE "missed", "schedule",
                                           current, current, left, {current}))
    <3> HIDE DEF r, timely, current
    <3> QED  BY <2>1
  <2> DEFINE row == NewRow(IF timely THEN "pending" ELSE "missed", "schedule",
                           current, current, left, {current})
  <2>3. current \in 0 .. t
    BY <1>5, <2>1, CurrentIsOwn
  <2>4. Opens(m, row, t)
    BY <2>3 DEF NewRow, Opens, Punctual, Sources
  <2>5. r = InsertRun(m, row)
    BY <2>2
  <2> HIDE DEF r, row
  <2>6. Timely(m, r, t)
    BY <1>1, <2>4, <2>5, InsertsTimely
  <2> QED  BY <1>4, <2>6, TimelyOn DEF r, m
<1> QED  BY <1>6, <1>7

LEMMA OneQueued ==
  ASSUME NEW d, Sane(d), NEW k \in Pending(d) PROVE Active(d) = k /\ k # 0 /\ Pending(d) = {k}
<1>1. \A i \in Pending(d) : i \in LiveRows(d)
  BY DEF Pending, LiveRows, Live
<1>2. Active(d) # 0 /\ LiveRows(d) = {Active(d)}
  BY <1>1, ActiveRun DEF Sane
<1> QED  BY <1>1, <1>2

LEMMA DequeuesTimely ==
  ASSUME NEW d, NEW t \in Nat, NEW past, Kept(d, t, past), Sane(d), Dates(d), NEW c
  PROVE  LET e == Dequeued(d, c, t)
         IN /\ Timely(d, e, t) /\ (Pending(d) = {} => Pending(e) = {})
            /\ Pauses(c) \/ EditsTask(c) => Pending(e) = {}
<1> DEFINE k == Active(d)
           r == RestoreCurrent(CancelOnly(d, {k}), k, t)
           e == Dequeued(d, c, t)
<1>1. CASE ~DropsQueued(d, c)
  <2>1. e = d
    BY <1>1 DEF Dequeued
  <2>2. ASSUME Pauses(c) \/ EditsTask(c), NEW i \in Pending(d) PROVE FALSE
    <3>1. i = k /\ k # 0
      BY <2>2, OneQueued
    <3>2. i \in LiveRows(d) /\ d.runs[i].status = "pending" /\ d.runs[i].source \in Sources
      BY DEF Pending, LiveRows, Live, Dates
    <3>3. ActiveIs(d, {"pending"}, Sources)
      BY <3>1, <3>2 DEF ActiveIs
    <3> QED  BY <1>1, <2>2, <3>3 DEF DropsQueued
  <2> QED  BY <2>1, <2>2, TimelyItself
<1>2. CASE DropsQueued(d, c)
  <2>1. k \in DOMAIN d.runs /\ d.runs[k].status = "pending" /\ LiveRows(d) = {k}
    BY <1>2, ActiveRun DEF DropsQueued, ActiveIs, Sane
  <2>2. k \in Pending(d)
    BY <2>1 DEF Pending
  <2>3. Pending(d) = {k}
    BY <2>2, OneQueued
  <2>4. CASE Pauses(c) \/ EditsTask(c)
    <3>1. e = Cancel(d, {k})
      BY <1>2, <2>4 DEF Dequeued
    <3> HIDE DEF e, k
    <3> QED  BY <2>3, <3>1, CancelsTimely DEF Sane, e
  <2>5. CASE ~(Pauses(c) \/ EditsTask(c))
    <3>1. e = Cancel(r, {k})
      BY <1>2, <2>5 DEF Dequeued
    <3>2. Timely(d, r, t) /\ Rowed(r)
      <4> HIDE DEF k
      <4> QED  BY <2>1, RestoresTimely, RestoresRowed
    <3> HIDE DEF e, r, k
    <3>3. Timely(r, e, t)
      BY <3>1, <3>2, CancelsTimely
    <3> QED  BY <2>3, <2>5, <3>2, <3>3, TimelyOn DEF e
  <2> QED  BY <2>4, <2>5
<1> QED  BY <1>1, <1>2

\* The edit is saved. A job that is enabled again has nothing queued.
LEMMA AppliesTimely ==
  ASSUME NEW d, NEW t \in Nat, NEW past \in SUBSET (0 .. t), Reaches(d, t, past), Sane(d),
         Dates(d), Idle(d, t), NEW c, Savable(d, c, t)
  PROVE  LET e == Applied(d, c, t)
         IN /\ Timely(d, e, t) /\ Idle(e, t) /\ e.job.deleted = d.job.deleted
            /\ e.job.enabled => d.job.enabled \/ (Enables(c) /\ Pending(e) = {})
<1> DEFINE r == Retimed(d, c, t)
           m == Dequeued(r, c, t)
           s == Saved(m, c)
           e == Applied(d, c, t)
<1>1. Kept(r, t, past) /\ Sane(r)
  BY RetimesKept, Retimes DEF Follows
<1>2. Timely(d, r, t) /\ SameJob(d, r) /\ (Pending(d) = {} => Pending(r) = {})
  BY RetimesTimely
<1> HIDE DEF r
<1>3. Dates(r)
  BY <1>2, DatesOn
<1>4. /\ Timely(r, m, t) /\ (Pending(r) = {} => Pending(m) = {})
      /\ Pauses(c) \/ EditsTask(c) => Pending(m) = {}
  BY <1>1, <1>3, DequeuesTimely
<1>5. Sane(m) /\ m.job = r.job
  BY <1>1, Dequeues, DequeuesKept DEF Follows
<1>6. e = StopIfSpent(s, t)
  BY DEF Applied, r
<1> HIDE DEF m, e
<1>7. /\ s = [f \in {"job", "runs", "on", "beat"} |-> s[f]] /\ s.runs = m.runs
      /\ s.on = m.on /\ s.beat = m.beat /\ s.job = Changed(m.job, c)
  BY <1>5 DEF Sane, Rowed, Shape, Saved
<1> HIDE DEF s
<1>8. Sane(s)
  <2>1. IsJob(s.job)
    BY <1>5, <1>7 DEF Sane, Rowed, Shape, IsJob, JobFields, Changed, Merge, Savable, Edits, EditOK, Has, Enables
  <2> QED  BY <1>5, <1>7, <2>1 DEF Sane, Rowed, Shape, OneLive, LiveRows, QueuedIsNew, LinkedBut
<1>9. /\ s.job.deleted = d.job.deleted
      /\ s.job.enabled = IF Has(c, "enabled") THEN c.enabled ELSE d.job.enabled
      /\ ~Has(c, "schedule") => s.job.schedule = d.job.schedule
  BY <1>2, <1>5, <1>7
     DEF Sane, Rowed, Shape, IsJob, JobFields, SameJob, Changed, Merge, Savable, Edits, EditOK, Has
<1>10. Timely(d, s, t) /\ Pending(s) = Pending(m)
  <2>1. Timely(d, m, t)
    BY <1>2, <1>4, TimelyOn
  <2> QED  BY <1>7, <2>1 DEF Timely, Pending
<1>11. Idle(s, t)
  <2> SUFFICES ASSUME ~s.job.enabled PROVE Pending(s) = {} \/ Stuck(s.job, t)
    BY DEF Idle
  <2>1. CASE Has(c, "enabled")
    BY <1>4, <1>9, <1>10, <2>1 DEF Pauses
  <2>2. CASE ~Has(c, "enabled") /\ Has(c, "schedule")
    BY <1>4, <1>10, <2>2 DEF EditsTask, Has
  <2>3. CASE ~Has(c, "enabled") /\ ~Has(c, "schedule")
    BY <1>2, <1>4, <1>9, <1>10, <2>3 DEF Idle, Stuck
  <2> QED  BY <2>1, <2>2, <2>3
<1>12. s.job.enabled => d.job.enabled \/ (Enables(c) /\ Pending(s) = {})
  <2> SUFFICES ASSUME s.job.enabled, ~d.job.enabled PROVE Enables(c) /\ Pending(s) = {}
    OBVIOUS
  <2>1. Enables(c)
    BY <1>9 DEF Enables
  <2>2. CASE Has(c, "schedule")
    BY <1>4, <1>10, <2>1, <2>2 DEF EditsTask, Has
  <2>3. CASE ~Has(c, "schedule")
    <3>1. Valid(d.job.schedule, t)
      BY <2>1, <2>3 DEF Savable, ResumesTiming
    <3>2. Pending(d) = {}
      BY <3>1 DEF Idle, Stuck, Valid
    <3> QED  BY <1>2, <1>4, <1>10, <2>1, <3>2
  <2> QED  BY <2>1, <2>2, <2>3
<1>13. CASE Limit(s.job, t) = None
  BY <1>6, <1>9, <1>10, <1>11, <1>12, <1>13 DEF StopIfSpent, e
<1>14. CASE Limit(s.job, t) # None
  <2>1. e = StopJob(s, Limit(s.job, t))
    BY <1>6, <1>14 DEF StopIfSpent
  <2>2. Timely(s, e, t) /\ ~e.job.enabled /\ Pending(e) = {} /\ e.job.deleted = s.job.deleted
    BY <1>8, <2>1, StopsTimely
  <2> QED  BY <1>9, <1>10, <2>2, TimelyOn DEF Idle, e
<1> QED  BY <1>13, <1>14

-----------------------------------------------------------------------------
(* The steps and the window *)

\* The batches of a call take no time.
AtOnce == call # None => call.at = now

\* What a claim may still start is in its window, and nothing waits for a job that is
\* switched on again.
Punctuality ==
  /\ db.beat \in Nat \cup {None} /\ claimAt \in (0 .. now) \cup {None}
  /\ Dates(db) /\ Idle(db, now) /\ (db.job.deleted => ~db.job.enabled)
  /\ claimAt # None /\ db.on /\ db.job.enabled => InWindow(db, claimAt)

\* A transaction that queues what may start now.
Advances ==
  /\ Timely(db, db', now) /\ Idle(db', now) /\ (db'.job.deleted => ~db'.job.enabled)
  /\ db'.job.enabled => db.job.enabled \/ Pending(db') = {}

LEMMA ClockedByNow == ASSUME Occurring PROVE Clocked(db) /\ now \in Nat
BY HasCome DEF Occurring, Reaches, Clocked

LEMMA UpdateAdvances ==
  ASSUME IInv, Occurring, Punctuality, NEW c, Edits(c),
         Has(c, "schedule") => Valid(c["schedule"], now), UpdateStep(c, now)
  PROVE  Advances
<1> DEFINE d == UpToDate(db, c, now)
           changes == Repaired(db, c, now)
           e == Applied(d, changes, now)
<1>1. ~db.job.deleted /\ UpdateWith(d, c, now)
  BY DEF UpdateStep
<1>2. Sane(db)
  BY <1>1, Undeleted
<1>3. Follows(db, d)
  BY <1>2, GoesSafely, Itself DEF UpToDate
<1>4. Reaches(d, now, paused)
  <2>1. now \in 0 .. now
    BY DEF Occurring
  <2> QED  BY <1>2, <2>1, SafelyKept DEF UpToDate, Collects, Occurring
<1>5. Timely(db, d, now) /\ Idle(d, now)
  <2>1. CASE Collects(db, c)
    BY <1>2, <2>1, ClockedByNow, SafelyTimely DEF UpToDate, Collects, Punctuality
  <2>2. CASE ~Collects(db, c)
    BY <2>2, TimelyItself DEF UpToDate, Punctuality
  <2> QED  BY <2>1, <2>2
<1> HIDE DEF d
<1>6. Dates(d)
  BY <1>5, DatesOn DEF Punctuality
<1>7. ~d.job.deleted /\ (d.job.enabled => db.job.enabled)
  BY <1>1, <1>3 DEF Follows, JobKept
<1>8. CASE db' = d
  BY <1>5, <1>7, <1>8 DEF Advances
<1>9. CASE db' = e /\ ~Refused(d, changes, now)
  <2>1. /\ Edits(changes) /\ (Has(changes, "schedule") <=> Has(c, "schedule"))
        /\ IF Has(c, "schedule") THEN changes["schedule"] = c["schedule"] ELSE changes = c
    BY RepairedEdits
  <2> HIDE DEF changes
  <2>2. Savable(d, changes, now)
    BY <1>9, <2>1 DEF Savable, Refused
  <2>3. /\ Timely(d, e, now) /\ Idle(e, now) /\ e.job.deleted = d.job.deleted
        /\ e.job.enabled => d.job.enabled \/ Pending(e) = {}
    BY <1>3, <1>4, <1>5, <1>6, <2>2, AppliesTimely DEF Occurring, Follows
  <2> HIDE DEF e
  <2> QED  BY <1>5, <1>7, <1>9, <2>3, TimelyOn DEF Advances
<1> QED  BY <1>1, <1>8, <1>9 DEF UpdateWith, Commit

LEMMA CatchUpAdvances ==
  ASSUME IInv, Occurring, Punctuality, CatchUpStep(now) PROVE Advances
<1> DEFINE d == MaterializeJob(db, now)
           c == Coalesce(d, "catch_up")
           run == CaughtUpBy(d)
<1>1. Sane(db) /\ ~db.job.deleted /\ db.job.enabled /\ Limit(db.job, now) = None
  BY Undeleted DEF CatchUpStep, Refuses
<1>2. Sane(d) /\ Timely(db, d, now) /\ SameJob(db, d)
  BY <1>1, Materializes, MaterializesTimely, ClockedByNow DEF Follows, Stands, Punctuality
<1>3. CatchUpWith(d, now)
  BY DEF CatchUpStep
<1> HIDE DEF d
<1>4. CASE db' = d
  BY <1>1, <1>2, <1>4 DEF Advances, SameJob, Idle
<1>5. CASE run # 0 /\ db' = [c EXCEPT !.runs[run].source = "catch_up"]
  <2>1. Sane(c) /\ Timely(d, c, now) /\ SameJob(d, c)
    BY <1>2, Coalesces, CoalescesTimely DEF Follows, CaughtUp
  <2>2. run \in DOMAIN c.runs
    <3>1. CASE Target(d) # 0
      BY <1>2, <3>1, CoalescesTimely DEF CaughtUpBy, CaughtUp
    <3>2. CASE Target(d) = 0
      <4>1. run = Active(d) /\ c = d
        BY <1>5, <3>2 DEF CaughtUpBy, Coalesce
      <4> QED  BY <1>2, <1>5, <4>1, ActiveRun DEF Sane
    <3> QED  BY <3>1, <3>2
  <2> HIDE DEF c, run
  <2>3. PICK row : row = [c.runs[run] EXCEPT !.source = "catch_up"]
    OBVIOUS
  <2>4. PICK e : e = db'
    OBVIOUS
  <2>5. e = [c EXCEPT !.runs[run] = row]
    BY <1>5, <2>3, <2>4
  <2>6. Alike(c.runs[run], row)
    BY <2>1, <2>2, <2>3 DEF Sane, Rowed, Shape, IsRow, RowFields, Alike, CaughtUp
  <2>7. Timely(c, e, now) /\ SameJob(c, e)
    BY <2>1, <2>2, <2>5, <2>6, WritesTimely DEF Sane
  <2>8. Timely(db, e, now) /\ SameJob(db, e)
    BY <1>2, <2>1, <2>7, TimelyOn DEF SameJob
  <2> QED  BY <1>1, <2>4, <2>8 DEF Advances, SameJob, Idle
<1> QED  BY <1>3, <1>4, <1>5 DEF CatchUpWith, Commit

\* Such a transaction keeps a claim punctual.
LEMMA AdvancesOn ==
  ASSUME Punctuality, now \in Nat, Advances, UNCHANGED now, claimAt' = claimAt \/ claimAt' = None
  PROVE  Punctuality'
<1>1. Dates(db') /\ db'.beat = db.beat /\ db'.on = db.on
  BY DatesOn DEF Advances, Timely, Punctuality
<1>2. ASSUME claimAt # None, db'.on, db'.job.enabled PROVE InWindow(db', claimAt)
  <2>1. claimAt \in Nat /\ claimAt <= now /\ Grace \in Nat /\ db.beat \in Nat \cup {None}
    BY <1>2, ScheduleAssumption DEF Punctuality
  <2>2. \A s : Punctual(db, s, now) => Punctual(db, s, claimAt)
    BY <2>1 DEF Punctual, Fresh
  <2>3. Timely(db, db', claimAt)
    BY <2>2 DEF Advances, Timely, Opens
  <2>4. CASE db.job.enabled
    BY <1>1, <1>2, <2>3, <2>4, WindowOn DEF Punctuality
  <2>5. CASE ~db.job.enabled
    BY <1>2, <2>5 DEF Advances, InWindow, Punctual, Pending
  <2> QED  BY <2>4, <2>5
<1> QED  BY <1>1, <1>2 DEF Punctuality, Advances

\* A row is written, and its job is stopped or not.
LEMMA RowAdvances ==
  ASSUME IInv, Punctuality, NEW i \in DOMAIN db.runs, NEW row, Alike(db.runs[i], row),
         IsRow(row), row.started = db.runs[i].started, row.link = db.runs[i].link,
         \/ row.status = db.runs[i].status
         \/ <<db.runs[i].status, row.status>> \in StatusMoves /\ db.runs[i].status # "pending",
         NEW d, Writes(db, i, row, d),
         db' = d \/ (~db.job.deleted /\ \E reason : db' = StopJob(d, reason))
  PROVE  Advances
<1>1. InOrder(d) /\ d.job = db.job
  BY RowGoes DEF IInv
<1>2. Timely(db, d, now)
  BY WritesTimely DEF IInv, InOrder, Writes
<1>3. Pending(db) = {} => Pending(d) = {}
  BY RowGoes DEF IInv, Pending
<1>4. CASE db' = d
  BY <1>1, <1>2, <1>3, <1>4 DEF Advances, Punctuality, Idle
<1>5. CASE ~db.job.deleted /\ \E reason : db' = StopJob(d, reason)
  <2>1. PICK reason : db' = StopJob(d, reason)
    BY <1>5
  <2>2. Sane(d)
    BY <1>1, <1>5 DEF InOrder, Sane
  <2>3. /\ Timely(d, db', now) /\ ~db'.job.enabled /\ Pending(db') = {}
    BY <2>1, <2>2, StopsTimely
  <2> QED  BY <1>2, <2>3, TimelyOn DEF Advances, Idle
<1> QED  BY <1>4, <1>5

LEMMA HostAdvances ==
  ASSUME IInv, Punctuality, NEW i \in DOMAIN db.runs, RecordHost(i) \/ ClearHost(i) PROVE Advances
<1> DEFINE r == db.runs[i]
<1>1. PICK h \in BOOLEAN : db' = [db EXCEPT !.runs[i].host = h]
  BY DEF RecordHost, ClearHost
<1>2. PICK row : row = [r EXCEPT !.host = h]
  OBVIOUS
<1>3. IsRow(r)
  BY DEF IInv, InOrder, Rowed, Shape
<1>4. /\ IsRow(row) /\ row.started = r.started /\ row.link = r.link /\ row.status = r.status
      /\ Alike(r, row)
  BY <1>2, <1>3 DEF IsRow, RowFields, Alike
<1>5. PICK d : d = db'
  OBVIOUS
<1>6. Writes(db, i, row, d)
  BY <1>1, <1>2, <1>5 DEF Writes
<1> QED  BY <1>4, <1>5, <1>6, RowAdvances

LEMMA StatusAdvances ==
  ASSUME IInv, Punctuality, NEW i \in DOMAIN db.runs, NEW status \in Begun \ {"starting"},
         <<db.runs[i].status, status>> \in StatusMoves, db.runs[i].status \in Begun,
         NEW d, d = [db EXCEPT !.runs[i].status = status],
         db' = d \/ (~db.job.deleted /\ \E reason : db' = StopJob(d, reason))
  PROVE  Advances
<1> DEFINE r == db.runs[i]
<1>1. PICK row : row = [r EXCEPT !.status = status]
  OBVIOUS
<1>2. IsRow(r)
  BY DEF IInv, InOrder, Rowed, Shape
<1>3. /\ IsRow(row) /\ row.started = r.started /\ row.link = r.link /\ row.status = status
      /\ Alike(r, row)
  BY <1>1, <1>2 DEF IsRow, RowFields, Alike, Begun, Statuses
<1>4. Writes(db, i, row, d) /\ r.status # "pending"
  BY <1>1 DEF Writes, Begun
<1> QED  BY <1>3, <1>4, RowAdvances

LEMMA MarkRunningAdvances ==
  ASSUME IInv, Punctuality, NEW i \in DOMAIN db.runs, MarkRunning(i) PROVE Advances
BY StatusAdvances DEF MarkRunning, StatusMoves, Begun

LEMMA DismissAdvances ==
  ASSUME IInv, Punctuality, NEW i \in DOMAIN db.runs, Dismiss(i) PROVE Advances
BY StatusAdvances DEF Dismiss, Recoverable, StatusMoves, Begun

LEMMA DecideAdvances ==
  ASSUME IInv, Punctuality, NEW i \in DOMAIN db.runs, NEW decision, Decide(i, decision)
  PROVE  Advances
<1>1. PICK row : row = [db.runs[i] EXCEPT !.decision = decision]
  OBVIOUS
<1>2. PICK d : d = [db EXCEPT !.runs[i] = row]
  OBVIOUS
<1>3. IsRow(db.runs[i])
  BY DEF IInv, InOrder, Rowed, Shape
<1>4. /\ IsRow(row) /\ row.started = db.runs[i].started /\ row.link = db.runs[i].link
      /\ row.status = db.runs[i].status /\ Alike(db.runs[i], row)
  BY <1>1, <1>3 DEF IsRow, RowFields, Alike
<1>5. db' = d \/ (~db.job.deleted /\ \E reason : db' = StopJob(d, reason))
  BY <1>1, <1>2 DEF Decide
<1>6. Writes(db, i, row, d)
  BY <1>2 DEF Writes
<1> QED  BY <1>4, <1>5, <1>6, RowAdvances

LEMMA OutcomeAdvances ==
  ASSUME IInv, Punctuality, NEW i \in DOMAIN db.runs, NEW status \in Begun \ {"starting"},
         <<db.runs[i].status, status>> \in StatusMoves, db.runs[i].status \in Begun,
         ~db.job.deleted,
         db' = ApplyDecision([db EXCEPT !.runs[i].status = status], db.runs[i], status)
  PROVE  Advances
<1>1. PICK d : d = [db EXCEPT !.runs[i].status = status]
  OBVIOUS
<1>2. db' = ApplyDecision(d, db.runs[i], status)
  BY <1>1
<1>3. db' = d \/ (~db.job.deleted /\ \E reason : db' = StopJob(d, reason))
  BY <1>2 DEF ApplyDecision
<1> QED  BY <1>1, <1>3, StatusAdvances

LEMMA FinishAdvances ==
  ASSUME IInv, Punctuality, NEW i \in DOMAIN db.runs, NEW status, Finish(i, status) PROVE Advances
<1>1. /\ \/ db.runs[i].status = "starting" /\ status = "failed"
         \/ db.runs[i].status = "running" /\ status \in {"succeeded", "uncertain"}
      /\ ~db.job.deleted
      /\ db' = ApplyDecision([db EXCEPT !.runs[i].status = status], db.runs[i], status)
  BY DEF Finish
<1>2. /\ status \in Begun \ {"starting"} /\ <<db.runs[i].status, status>> \in StatusMoves
      /\ db.runs[i].status \in Begun
  BY <1>1 DEF Begun, StatusMoves
<1> QED  BY <1>1, <1>2, OutcomeAdvances

LEMMA RecoverInterruptedAdvances ==
  ASSUME IInv, Punctuality, RecoverInterrupted PROVE Advances
<1>1. PICK i \in DOMAIN db.runs :
        /\ db.runs[i].status \in {"starting", "running"}
        /\ ~db.job.deleted
        /\ db' = ApplyDecision([db EXCEPT !.runs[i].status = InDoubt], db.runs[i], InDoubt)
  BY DEF RecoverInterrupted
<1>2. /\ InDoubt \in Begun \ {"starting"} /\ <<db.runs[i].status, InDoubt>> \in StatusMoves
      /\ db.runs[i].status \in Begun
  BY <1>1 DEF InDoubt, Begun, StatusMoves
<1> QED  BY <1>1, <1>2, OutcomeAdvances

LEMMA EnqueueAdvances == ASSUME IInv, Punctuality, Enqueue PROVE Advances
<1> DEFINE row == NewRow("pending", "manual", now, now, 1, {})
           e == InsertRun(db, row)
<1>1. Opens(db, row, now) /\ db' = e
  BY DEF NewRow, Opens, Punctual, Sources, Enqueue, Commit
<1> HIDE DEF row
<1>2. Rowed(db) /\ ~db.job.deleted /\ db.job.enabled
  BY Undeleted DEF Enqueue, Sane
<1>3. Timely(db, e, now) /\ SameJob(db, e)
  BY <1>1, <1>2, InsertsTimely
<1> QED  BY <1>1, <1>2, <1>3 DEF Advances, SameJob, Idle

LEMMA RetryAdvances ==
  ASSUME IInv, Punctuality, NEW i \in DOMAIN db.runs, Retry(i) PROVE Advances
<1> DEFINE r == db.runs[i]
           new == NewRow("pending", "retry", r.first, r.last, r.count, r.due)
<1>1. PICK row : row = [r EXCEPT !.status = "retried", !.link = Len(db.runs) + 1]
  OBVIOUS
<1>2. PICK d : d = [db EXCEPT !.runs[i] = row]
  OBVIOUS
<1>3. /\ ~db.job.deleted /\ db.job.enabled /\ r.status \in {"uncertain", "failed"}
      /\ db' = InsertRun(d, new)
  BY <1>1, <1>2 DEF Retry, Recoverable, Commit
<1>4. IsRow(row) /\ Alike(r, row) /\ row.started = r.started /\ row.status = "retried"
  BY <1>1 DEF IInv, InOrder, Rowed, Shape, IsRow, RowFields, Statuses, Alike
<1>5. Rowed(db)
  BY DEF IInv, InOrder
<1>6. /\ d = [f \in {"job", "runs", "on", "beat"} |-> d[f]] /\ IsJob(d.job)
      /\ d.runs = [db.runs EXCEPT ![i] = row]
  BY <1>2, <1>5 DEF Rowed, Shape
<1>7. Rowed(d)
  <2>1. /\ row.status \in Live => r.status \in Live
        /\ row.status \notin {"pending", "missed", "cancelled"} \/ row.status = r.status
        /\ row.link = r.link \/ r.status \notin {"pending", "missed"}
        /\ row.started = r.started \/ row.status # "pending"
    BY <1>3, <1>4 DEF Live
  <2> QED  BY <1>4, <1>5, <1>6, <2>1, RowMoved
<1>8. Timely(db, d, now) /\ SameJob(db, d)
  BY <1>2, <1>4, <1>5, WritesTimely
<1>9. Opens(d, new, now)
  BY DEF NewRow, Opens, Punctual, Sources
<1> HIDE DEF new
<1>10. Timely(d, InsertRun(d, new), now) /\ SameJob(d, InsertRun(d, new))
  BY <1>7, <1>9, InsertsTimely
<1> QED  BY <1>3, <1>8, <1>10, TimelyOn DEF Advances, SameJob, Idle

LEMMA DeleteAdvances == ASSUME IInv, Punctuality, Delete PROVE Advances
<1> DEFINE c == CancelOnly(db, Pending(db))
<1> PICK e : e = [c EXCEPT !.job.deleted = TRUE, !.job.enabled = FALSE]
  OBVIOUS
<1>1. Sane(db)
  BY Undeleted DEF Delete
<1>2. /\ c = [f \in {"job", "runs", "on", "beat"} |-> c[f]] /\ c.job = db.job
      /\ c.on = db.on /\ c.beat = db.beat
      /\ c.runs = [i \in DOMAIN db.runs |->
           IF i \in Pending(db) THEN [db.runs[i] EXCEPT !.status = "cancelled"] ELSE db.runs[i]]
  BY <1>1 DEF CancelOnly, Sane, Rowed, Shape
<1> HIDE DEF c
<1>3. e.runs = c.runs /\ e.on = db.on /\ e.beat = db.beat /\ ~e.job.enabled
  BY <1>1, <1>2 DEF Sane, Rowed, Shape, IsJob, JobFields
<1>4. \A i \in DOMAIN db.runs : Alike(db.runs[i], e.runs[i]) /\ e.runs[i].status # "pending"
  BY <1>1, <1>2, <1>3 DEF Sane, Rowed, Shape, IsRow, RowFields, Alike, Pending
<1>5. DOMAIN e.runs = DOMAIN db.runs
  BY <1>2, <1>3
<1>6. Timely(db, e, now) /\ Pending(e) = {}
  BY <1>3, <1>4, <1>5, RowsTimely DEF Pending
<1>7. db' = e
  BY DEF Delete, c
<1> QED  BY <1>3, <1>6, <1>7 DEF Advances, Idle

LEMMA UpdateCallAdvances ==
  ASSUME IInv, Occurring, Punctuality, menu \in Menus, NEW c \in EditsOf[menu], Update(c)
  PROVE  Advances
<1>1. Edits(c) /\ (Has(c, "schedule") => Valid(c["schedule"], now)) /\ UpdateStep(c, now)
  BY EditsAreEdits DEF Update, ValidEdit
<1> QED  BY <1>1, UpdateAdvances

LEMMA NextBatchAdvances ==
  ASSUME IInv, Occurring, Punctuality, AtOnce, NextBatch PROVE Advances
<1>1. call # None /\ call.at = now
  BY DEF NextBatch, AtOnce
<1>2. CASE UNCHANGED db
  BY <1>2, TimelyItself DEF Punctuality, Advances
<1>3. CASE call.op = "update" /\ UpdateStep(call.changes, call.at)
  <2>1. /\ Edits(call.changes)
        /\ Has(call.changes, "schedule") => Valid(call.changes["schedule"], now)
    BY <1>1, <1>3 DEF Occurring, Asked
  <2> QED  BY <1>1, <1>3, <2>1, UpdateAdvances
<1>4. CASE CatchUpStep(call.at)
  BY <1>1, <1>4, CatchUpAdvances
<1> QED  BY <1>2, <1>3, <1>4 DEF NextBatch

\* The commands of the operators, but for the switch.
LEMMA OperatorsAdvance ==
  ASSUME IInv, Occurring, Punctuality, menu \in Menus, AtOnce, Operators,
         ~\E on \in BOOLEAN : SetEnabled(on)
  PROVE  Advances /\ UNCHANGED <<now, claimAt>>
<1>1. Advances
  BY UpdateCallAdvances, CatchUpAdvances, NextBatchAdvances, DeleteAdvances, EnqueueAdvances,
     DismissAdvances, RetryAdvances DEF Operators, CatchUp
<1>2. UNCHANGED <<now, claimAt>>
  BY DEF Operators, Update, CatchUp, NextBatch, Delete, Enqueue, Dismiss, Retry
<1> QED  BY <1>1, <1>2

\* What the worker does to a run once it started.
Execution ==
  \/ RecoverInterrupted
  \/ \E i \in DOMAIN db.runs :
       \/ RecordHost(i) \/ ClearHost(i) \/ MarkRunning(i)
       \/ \E decision \in {"continue", "stop"} : Decide(i, decision)
       \/ \E status \in {"succeeded", "failed", "uncertain"} : Finish(i, status)
LEMMA ExecutionAdvances ==
  ASSUME IInv, Punctuality, Execution
  PROVE  Advances /\ UNCHANGED now /\ (claimAt' = claimAt \/ claimAt' = None)
<1>1. Advances
  BY RecoverInterruptedAdvances, HostAdvances, MarkRunningAdvances, DecideAdvances, FinishAdvances
     DEF Execution
<1>2. UNCHANGED now /\ (claimAt' = claimAt \/ claimAt' = None)
  BY DEF Execution, RecoverInterrupted, RecordHost, ClearHost, MarkRunning, Decide, Finish
<1> QED  BY <1>1, <1>2

\* Scheduling is switched, and not on while a claim is under way.
SwitchesApart == ~db.on /\ db'.on => claimAt = None
LEMMA SetEnabledPunctual ==
  ASSUME IInv, Punctuality, SwitchesApart, NEW on, SetEnabled(on)
  PROVE  Punctuality' /\ \A i \in DOMAIN db.runs : ~Starts(i)
<1>0. PICK e : e = [db EXCEPT !.on = on, !.runs = [i \in DOMAIN @ |->
       IF ~on /\ @[i].status = "pending" /\ @[i].source = "schedule"
       THEN [@[i] EXCEPT !.status = "missed"] ELSE @[i]]]
  OBVIOUS
<1>1. /\ e.job = db.job /\ e.beat = db.beat
      /\ e.runs = [i \in DOMAIN db.runs |->
           IF ~on /\ db.runs[i].status = "pending" /\ db.runs[i].source = "schedule"
           THEN [db.runs[i] EXCEPT !.status = "missed"] ELSE db.runs[i]]
  BY <1>0 DEF IInv, InOrder, Rowed, Shape
<1>2. db' = e /\ UNCHANGED <<now, claimAt>>
  BY <1>0 DEF SetEnabled
<1>3. ASSUME NEW i \in DOMAIN db.runs
      PROVE  /\ e.runs[i].source = db.runs[i].source /\ e.runs[i].last = db.runs[i].last
             /\ \/ e.runs[i].status = db.runs[i].status
                \/ e.runs[i].status = "missed"
  BY <1>1 DEF IInv, InOrder, Rowed, Shape, IsRow, RowFields
<1>4. DOMAIN e.runs = DOMAIN db.runs
  BY <1>1
<1>5. Dates(e) /\ Idle(e, now)
  BY <1>1, <1>3, <1>4 DEF Punctuality, Dates, Idle, Pending
<1>6. claimAt # None /\ e.on /\ e.job.enabled => InWindow(e, claimAt)
  BY <1>1, <1>2, <1>3, <1>4 DEF SwitchesApart, Punctuality, InWindow, Punctual, Fresh
<1>7. Punctuality'
  BY <1>1, <1>2, <1>5, <1>6 DEF Punctuality
<1> QED  BY <1>2, <1>3, <1>7 DEF Starts

LEMMA HeartbeatPunctual ==
  ASSUME IInv, now \in Nat, Punctuality, Heartbeat
  PROVE  Punctuality' /\ \A i \in DOMAIN db.runs : ~Starts(i)
<1>1. /\ db'.job = db.job /\ db'.runs = db.runs /\ db'.on = db.on /\ db'.beat = now
      /\ UNCHANGED <<now, claimAt>>
  BY DEF Heartbeat, IInv, InOrder, Rowed, Shape
<1>2. ASSUME claimAt # None PROVE InWindow(db', claimAt)
  <2>1. claimAt \in Nat /\ claimAt <= now /\ Grace \in Nat /\ now # None
    BY <1>2, ScheduleAssumption DEF Punctuality
  <2>2. Fresh(db', claimAt)
    BY <1>1, <2>1 DEF Fresh
  <2> QED  BY <1>1, <2>2 DEF InWindow, Punctual, Punctuality, Dates
<1> QED  BY <1>1, <1>2 DEF Punctuality, Dates, Idle, Pending, Starts

LEMMA MaterializePunctual ==
  ASSUME IInv, Occurring, Punctuality, Materialize
  PROVE  Punctuality' /\ (Advances \/ UNCHANGED db)
<1>1. claimAt' = now /\ UNCHANGED now /\ now \in Nat
  BY ClockedByNow DEF Materialize
<1>2. CASE db.on /\ db.job.enabled /\ ~db.job.deleted
  <2> DEFINE e == Safely(db, now)
  <2>1. db' = e
    BY <1>2 DEF Materialize, Commit
  <2>2. /\ Timely(db, e, now) /\ Idle(e, now) /\ e.job.deleted = db.job.deleted
        /\ e.job.enabled => InWindow(e, now)
    BY <1>1, <1>2, Undeleted, ClockedByNow, SafelyTimely DEF Punctuality
  <2> HIDE DEF e
  <2>3. Dates(e) /\ e.beat = db.beat
    BY <2>2, DatesOn DEF Timely, Punctuality
  <2> QED  BY <1>1, <1>2, <2>1, <2>2, <2>3 DEF Advances, Punctuality
<1>3. CASE ~(db.on /\ db.job.enabled /\ ~db.job.deleted)
  <2>1. UNCHANGED db
    BY <1>3 DEF Materialize, Commit
  <2> QED  BY <1>1, <1>3, <2>1 DEF Punctuality
<1> QED  BY <1>2, <1>3

\* The run that a claim starts is in its window.
LEMMA ClaimPunctual ==
  ASSUME IInv, Punctuality, Claim
  PROVE  /\ Punctuality'
         /\ \A i \in DOMAIN db.runs : Starts(i) /\ db.runs[i].source = "schedule" =>
              db.runs[i].last >= claimAt - Grace \/ Fresh(db, claimAt)
<1>1. claimAt # None /\ claimAt' = None /\ UNCHANGED now
  BY DEF Claim
<1>2. CASE UNCHANGED db
  BY <1>1, <1>2 DEF Punctuality, Starts
<1>3. CASE ~UNCHANGED db
  <2>1. PICK i, d :
          /\ i \in Claimable(db, claimAt)
          /\ d = [db EXCEPT !.runs[i].status = "starting", !.runs[i].started = TRUE,
                            !.job.runCount = @ + 1]
          /\ db' = IF Limit(d.job, claimAt) = "max_runs" THEN StopJob(d, "max_runs") ELSE d
    BY <1>3 DEF Claim
  <2>2. i \in Claimable(db, claimAt)
    BY <2>1
  <2>3. /\ i \in DOMAIN db.runs /\ db.runs[i].status = "pending" /\ db.on /\ db.job.enabled
        /\ ~db.job.deleted
    BY <2>2 DEF Claimable, Pending
  <2>4. Sane(db)
    BY <2>3, Undeleted
  <2>5. PICK row : row = [db.runs[i] EXCEPT !.status = "starting", !.started = TRUE]
    OBVIOUS
  <2>6. PICK job : job = [db.job EXCEPT !.runCount = @ + 1]
    OBVIOUS
  <2>7. /\ d = [f \in {"job", "runs", "on", "beat"} |-> d[f]] /\ d.job = job
        /\ d.runs = [db.runs EXCEPT ![i] = row] /\ d.on = db.on /\ d.beat = db.beat
    BY <2>1, <2>3, <2>4, <2>5, <2>6 DEF Sane, Rowed, Shape
  <2>8. /\ IsRow(row) /\ row.status = "starting" /\ row.link = db.runs[i].link
        /\ row.source = db.runs[i].source
    BY <2>3, <2>4, <2>5 DEF Sane, Rowed, Shape, IsRow, RowFields, Statuses
  <2>9. IsJob(job) /\ job.enabled /\ job.deleted = db.job.deleted
    <3>1. PICK n \in Nat : n = db.job.runCount
      BY <2>4 DEF Sane, Rowed, Shape, IsJob
    <3>2. job = [db.job EXCEPT !.runCount = n + 1] /\ IsJob(db.job)
      BY <2>4, <2>6, <3>1 DEF Sane, Rowed, Shape
    <3> QED  BY <2>3, <3>1, <3>2 DEF IsJob, JobFields
  <2>10. Sane(d)
    <3>1. Rowed(db) /\ LinkedBut(db, {})
      BY <2>4 DEF Sane
    <3>2. /\ row.status \in Live => db.runs[i].status \in Live
          /\ row.status \notin {"pending", "missed", "cancelled"} \/ row.status = db.runs[i].status
          /\ row.started = db.runs[i].started \/ row.status # "pending"
      BY <2>3, <2>8 DEF Live
    <3> QED  BY <2>3, <2>7, <2>8, <2>9, <3>1, <3>2, RowMoved DEF Sane
  <2>11. DOMAIN d.runs = DOMAIN db.runs /\ d.runs[i] = row
         /\ \A k \in DOMAIN db.runs \ {i} : d.runs[k] = db.runs[k]
    BY <2>3, <2>7
  <2>12. Dates(d) /\ Idle(d, now) /\ (d.job.deleted => ~d.job.enabled)
    BY <2>3, <2>7, <2>8, <2>9, <2>11 DEF Punctuality, Dates, Idle
  <2>13. /\ Timely(d, db', now) /\ Idle(db', now) /\ (db'.job.deleted => ~db'.job.enabled)
    <3>1. CASE db' = StopJob(d, "max_runs")
      BY <2>10, <3>1, StopsTimely DEF Idle
    <3>2. CASE db' = d
      BY <2>12, <3>2, TimelyItself
    <3> QED  BY <2>1, <3>1, <3>2
  <2>14. Dates(db') /\ db'.beat = db.beat
    BY <2>7, <2>12, <2>13, DatesOn DEF Timely
  <2>15. Punctuality'
    BY <1>1, <2>13, <2>14 DEF Punctuality
  <2>16. InWindow(db, claimAt)
    BY <1>1, <2>3 DEF Punctuality
  <2>17. ASSUME NEW k \in DOMAIN db.runs, Starts(k), db.runs[k].source = "schedule"
         PROVE  db.runs[k].last >= claimAt - Grace \/ Fresh(db, claimAt)
    BY <2>16, <2>17 DEF Starts, InWindow, Punctual
  <2> QED  BY <2>15, <2>17
<1> QED  BY <1>2, <1>3

LEMMA TickPunctual ==
  ASSUME now \in Nat, Punctuality, Tick
  PROVE  Punctuality' /\ \A i \in DOMAIN db.runs : ~Starts(i)
<1>1. now' = now + 1 /\ UNCHANGED <<db, claimAt>>
  BY DEF Tick
<1>2. \A c \in CronTimes : c \in Nat
  BY Instants
<1>3. Idle(db, now)
  BY DEF Punctuality
<1>4. Idle(db, now + 1)
  BY <1>2, <1>3 DEF Idle, Stuck, Calculable
<1>5. claimAt \in (0 .. now + 1) \cup {None}
  BY DEF Punctuality
<1> QED  BY <1>1, <1>4, <1>5 DEF Punctuality, Starts

LEMMA InitPunctual == ASSUME Init PROVE Punctuality
<1>1. db.beat = None /\ claimAt = None /\ db.job.enabled /\ ~db.job.deleted /\ db.runs = <<>>
  BY DEF Init
<1>2. DOMAIN db.runs = {}
  BY <1>1
<1> QED  BY <1>1, <1>2 DEF Punctuality, Dates, Idle

\* Only a claim starts a run.
LEMMA NoStart ==
  ASSUME Goes, Timely(db, db', now) PROVE \A i \in DOMAIN db.runs : ~Starts(i)
BY DEF Goes, Moved, Timely, Alike, Opens, Starts

StartIsPunctual == \A i \in DOMAIN db.runs :
  Starts(i) /\ db.runs[i].source = "schedule" =>
    db.runs[i].last >= claimAt - Grace \/ Fresh(db, claimAt)
LEMMA PunctualStep ==
  ASSUME IInv, menu \in Menus, Occurring, Punctuality, AtOnce, [SwitchesApart]_vars, [Next]_vars
  PROVE  Punctuality' /\ [StartIsPunctual]_vars
<1>1. now \in Nat /\ Goes
  BY NextStep, ClockedByNow
<1>2. CASE UNCHANGED vars
  BY <1>2 DEF vars, ghost, Punctuality
<1>3. ASSUME Advances, UNCHANGED now, claimAt' = claimAt \/ claimAt' = None
      PROVE  Punctuality' /\ StartIsPunctual
  BY <1>1, <1>3, AdvancesOn, NoStart DEF Advances, StartIsPunctual
<1>4. CASE ~UNCHANGED vars
  <2>1. SwitchesApart
    BY <1>4
  <2>2. CASE \E on \in BOOLEAN : SetEnabled(on)
    BY <2>1, <2>2, SetEnabledPunctual DEF StartIsPunctual
  <2>3. CASE Operators /\ ~\E on \in BOOLEAN : SetEnabled(on)
    BY <1>3, <2>3, OperatorsAdvance
  <2>4. CASE Execution
    BY <1>3, <2>4, ExecutionAdvances
  <2>5. CASE Heartbeat
    BY <1>1, <2>5, HeartbeatPunctual DEF StartIsPunctual
  <2>6. CASE Materialize
    <3>1. Punctuality' /\ (Advances \/ UNCHANGED db)
      BY <2>6, MaterializePunctual
    <3>2. Timely(db, db', now)
      BY <3>1, TimelyItself DEF Advances
    <3> QED  BY <1>1, <3>1, <3>2, NoStart DEF StartIsPunctual
  <2>7. CASE Claim
    BY <2>7, ClaimPunctual DEF StartIsPunctual
  <2>8. CASE Tick
    BY <1>1, <2>8, TickPunctual DEF StartIsPunctual
  <2>9. Next
    BY <1>4
  <2> QED  BY <2>2, <2>3, <2>4, <2>5, <2>6, <2>7, <2>8, <2>9 DEF Next, Worker, Execution
<1> QED  BY <1>2, <1>3, <1>4

\* A scheduled occurrence starts within its grace or while the worker is online, where the
\* batches of a call take no time and scheduling is not switched on during a claim.
THEOREM StartsStayInWindow ==
  Spec /\ []AtOnce /\ [][SwitchesApart]_vars => StartsInWindow
<1>1. ASSUME AtOnce PROVE Promptly
  BY <1>1 DEF AtOnce, Promptly
<1>2. IInv /\ menu \in Menus /\ Occurring /\ Punctuality /\ AtOnce /\ [SwitchesApart]_vars
      /\ [Next]_vars => Punctuality' /\ [StartIsPunctual]_vars
  BY PunctualStep
<1>3. Spec /\ []AtOnce => []Occurring
  BY <1>1, OccurrencesAreKept, PTL
<1>4. Spec /\ []AtOnce /\ [][SwitchesApart]_vars => [][StartIsPunctual]_vars
  BY <1>2, <1>3, InitPunctual, Invariant, Menued, PTL DEF Spec
<1>5. StartIsPunctual => \A i \in DOMAIN db.runs :
        Starts(i) /\ db.runs[i].source = "schedule" =>
          db.runs[i].last >= claimAt - Grace \/ Fresh(db, claimAt)
  BY DEF StartIsPunctual
<1> QED  BY <1>4, <1>5, PTL DEF StartsInWindow
==============================================================================
