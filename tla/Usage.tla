------------------------------- MODULE Usage -------------------------------
(* Usage collection (crates/usage), in the controller or in a daemon that  *)
(* has none.  agentgateway exports one log record per proxied request; the *)
(* export handler parses the records, drops those it has seen and adds the *)
(* rest to hourly rollups in one transaction.  Every hour a maintenance    *)
(* job moves old hourly rollups into daily ones and deletes what is past   *)
(* its retention.  Reports read the rollups at any time.                   *)
(*                                                                         *)
(* The table of rollups is a bag of <<row key, record>>: the measures of a *)
(* row are the sums over its records, and adding measures is bag union.  A *)
(* record of the log counted twice is an element with two copies.          *)
EXTENDS Integers, Sequences, Bags, FiniteSetsExt

CONSTANTS
    Ids,                \* the records of the gateway's log
    Logs,               \* what the records may hold: functions from Ids
    Offsets,            \* UTC offsets of report queries
    HOUR,               \* length of an hourly rollup
    DAY,                \* length of a daily rollup
    HOURLY_RETENTION,   \* age at which hourly rollups are compacted
    DAILY_RETENTION,    \* age at which daily rollups are deleted
    RECEIPT_RETENTION,  \* age at which record identifiers are deleted
    MAX_CLOCK_SKEW,     \* how far ahead a record may be stamped
    Precision,          \* decimal places of a stored dollar amount
    MaxCost,            \* largest stored amount of one request
    MAX_TOKENS_PER_REQUEST,
    MaxRows,            \* rows of a breakdown
    Serial,             \* writing transactions exclude each other (SQLite)
    Start, MaxTime,     \* the clock runs from Start to MaxTime
    LastRequest,        \* and requests are proxied until LastRequest
    MaxFailures         \* bound on failed maintenance jobs

VARIABLES
    now,        \* the clock of the store's process
    log,        \* the gateway's records: content, stamp and export state
    receipts,   \* usage_receipts: when each record was stored, 0 when absent
    rollups,    \* usage_rollups
    job,        \* the maintenance job of this hour
    failures,   \* how many maintenance jobs failed
    stored      \* history: the hour each record was first stored under, or 0

vars == <<now, log, receipts, rollups, job, failures, stored>>

---------------------------------------------------------------------------
(* Reading one record.                                                     *)

(* An amount is a plain decimal: its whole part and then its digits.  <<>> *)
(* is an absent amount and <<-1>> one that is not a dollar amount.         *)
Digit(cost, i) == IF i < Len(cost) THEN cost[i + 1] ELSE 0

decimal_nanos(cost) ==
    LET nanos[i \in 0 .. Precision] ==
            IF i = 0 THEN 0 ELSE nanos[i - 1] * 10 + Digit(cost, i)
        round_up == IF Digit(cost, Precision + 1) >= 5 THEN 1 ELSE 0
    IN  cost[1] * 10 ^ Precision + nanos[Precision] + round_up

cost_nanos(cost) == IF cost = <<>> THEN 0 ELSE decimal_nanos(cost)

ValidCost(cost) ==
    cost # <<>> => cost[1] >= 0 /\ decimal_nanos(cost) <= MaxCost

(* The moment a record is counted at; a stamp of 0 is none, one too far    *)
(* ahead is replaced, and one past the retention is an error.              *)
occurred_at(r) == IF r.stamp = 0 \/ r.stamp > now + MAX_CLOCK_SKEW THEN now ELSE r.stamp

TooOld(r) == r.stamp # 0 /\ r.stamp < now - DAILY_RETENTION

(* A record that is not of an LLM request is skipped; one with a malformed *)
(* measure or too old is rejected, and does not affect the others.         *)
parse_record(r) ==
    CASE ~r.llm -> "skipped"
      [] r.llm /\ (\/ r.tokens \notin 0 .. MAX_TOKENS_PER_REQUEST
                   \/ ~ValidCost(r.cost) \/ TooOld(r)) -> "rejected"
      [] OTHER -> "usage"

RollupKey(r) == [start |-> (occurred_at(r) \div HOUR) * HOUR, seconds |-> HOUR,
                 device |-> r.device, billing |-> r.billing]

---------------------------------------------------------------------------
(* Measures.  The sum of some rows is how often each record is counted in  *)
(* them; the measures are sums of what the records hold.                   *)

Sum(rows) ==
    LET counted(id) == MapThenSumSet(LAMBDA e : rollups[e], {e \in rows : e[2] = id})
    IN  {<<id, counted(id)>> : id \in {e[2] : e \in rows}}

Count(sum, id) == MapThenSumSet(LAMBDA p : p[2], {p \in sum : p[1] = id})

(* The sum of all rows of a list of [key, sum].                            *)
Add(list) ==
    LET counted(id) == MapThenSumSet(LAMBDA x : Count(x.sum, id), list)
    IN  {<<id, counted(id)>> : id \in UNION {{p[1] : p \in x.sum} : x \in list}}

Measure(sum, value) == MapThenSumSet(LAMBDA p : p[2] * value[p[1]], sum)

Totals(sum) ==
    LET api      == {p \in sum : log[p[1]].billing = "api"}
        unpriced == {p \in sum : log[p[1]].cost = <<>> /\ log[p[1]].tokens > 0}
        nanos    == [id \in Ids |-> cost_nanos(log[id].cost)]
        tokens   == [id \in Ids |-> log[id].tokens]
        one      == [id \in Ids |-> 1]
    IN  [requests              |-> Measure(sum, one),
         tokens                |-> Measure(sum, tokens),
         cost                  |-> Measure(api, nanos),
         subscription_cost     |-> Measure(sum \ api, nanos),
         subscription_requests |-> Measure(sum \ api, one),
         unpriced_requests     |-> Measure(unpriced, one)]

(* Ranking order of breakdowns: spend, then tokens, then requests.         *)
rank(t) == <<t.cost + t.subscription_cost, t.tokens, t.requests>>

Above(r, s) ==
    \E i \in 1 .. 3 : r[i] > s[i] /\ \A j \in 1 .. i - 1 : r[j] = s[j]

---------------------------------------------------------------------------
(* Reporting periods.                                                      *)

local_day_start(time, offset) == ((time + offset) \div DAY) * DAY - offset

(* Range 0 is the last day hour by hour; range n is n local days.          *)
Ranges == 0 .. HOURLY_RETENTION \div DAY

preset(range, offset) ==
    LET bucket == IF range = 0 THEN HOUR ELSE DAY
        end    == IF range = 0 THEN (now \div HOUR) * HOUR + HOUR
                               ELSE local_day_start(now, offset) + DAY
        length == IF range = 0 THEN DAY ELSE range * DAY
    IN  [start |-> end - length, end |-> end, bucket |-> bucket, offset |-> offset]

(* Mutant: the period before is always equally long. *)
PreviousUnaligned(w) == [w EXCEPT !.start = w.start - (w.end - w.start), !.end = w.start]

(* The period before, begun at a UTC midnight where usage is kept per day. *)
previous(w) ==
    LET start == w.start - (w.end - w.start)
        midnight == ((start + DAY \div 2) \div DAY) * DAY
    IN  [w EXCEPT !.start = IF start < now - HOURLY_RETENTION THEN midnight ELSE start,
                  !.end = w.start]

Buckets(w) == {w.start + i * w.bucket : i \in 0 .. (w.end - w.start) \div w.bucket - 1}

(* Mutant: days of a report are UTC days. *)
UtcBucketIndex(w, start) == (start \div w.bucket) * w.bucket

(* The bucket a stored rollup is shown in, by its start.                   *)
bucket_index(w, start) ==
    IF w.bucket = DAY THEN local_day_start(start, w.offset) ELSE (start \div HOUR) * HOUR

---------------------------------------------------------------------------
(* Reports.  A filter is the set of devices it lets through: one device,   *)
(* or all of them.                                                         *)

Devices == {log[id].device : id \in Ids}

Filters == {{d} : d \in Devices} \cup {Devices}

conditions(w, filter) ==
    {e \in DOMAIN rollups : /\ e[1].start >= w.start
                            /\ e[1].start < w.end
                            /\ e[1].device \in filter}

summary(w, filter) == Sum(conditions(w, filter))

buckets(w, filter) ==
    LET rows == conditions(w, filter)
    IN  {[key |-> b, sum |-> Sum({e \in rows : bucket_index(w, e[1].start) = b})] : b \in Buckets(w)}

breakdown(w, filter) ==
    LET rows == conditions(w, filter)
    IN  {[key |-> d, sum |-> Sum({e \in rows : e[1].device = d})] : d \in {e[1].device : e \in rows}}

(* Rows largest first, ties by key, cut to the first MaxRows.              *)
ranked(list) ==
    LET ranks == {<<x, rank(Totals(x.sum))>> : x \in list}
        before(r) == {q \in ranks : Above(q[2], r[2]) \/ (q[2] = r[2] /\ q[1].key < r[1].key)}
    IN  {r[1] : r \in {q \in ranks : Cardinality(before(q)) < MaxRows}}

(* The admin report; with one device as its filter it is the report of     *)
(* device_usage.                                                           *)
report(range, offset, filter) ==
    LET w == preset(range, offset)
    IN  [totals    |-> summary(w, filter),
         previous  |-> summary(previous(w), filter),
         buckets   |-> buckets(w, filter),
         by_device |-> ranked(breakdown(w, filter)),
         options   |-> {x.key : x \in ranked(breakdown(w, Devices))}]

Reports == {<<q, report(q[1], q[2], q[3])>> : q \in Ranges \X Offsets \X Filters}

---------------------------------------------------------------------------
NoJob == [step |-> "idle"]

JobDone == [step |-> "done"]

Init ==
    /\ now = Start
    /\ \E l \in Logs :
          log = [id \in Ids |->
                   [llm |-> l[id].llm, tokens |-> l[id].tokens, cost |-> l[id].cost,
                    device |-> l[id].device, billing |-> l[id].billing, clock |-> l[id].clock,
                    stamp |-> 0, sent |-> 0, state |-> "none"]]
    /\ receipts = [id \in Ids |-> 0]
    /\ rollups = EmptyBag
    /\ job = NoJob
    /\ failures = 0
    /\ stored = [id \in Ids |-> 0]

(* agentgateway proxies a request and logs it with its own clock, which    *)
(* may be ahead, or with no time.                                          *)
Proxied(id) ==
    /\ log[id].state = "none"
    /\ now <= LastRequest
    /\ log' = [log EXCEPT ![id].state = "queued",
                          ![id].stamp = CASE log[id].clock = "none" -> 0
                                          [] log[id].clock = "right" -> now
                                          [] log[id].clock = "ahead" -> now + MAX_CLOCK_SKEW + HOUR]
    /\ UNCHANGED <<now, receipts, rollups, job, failures, stored>>

(* A record is sent until it is answered, and not past the time for which  *)
(* the store remembers it.                                                 *)
Sendable(id) ==
    /\ log[id].state = "queued"
    /\ log[id].sent # 0 => now <= log[id].sent + RECEIPT_RETENTION

(* Mutant: a record is not looked up among the receipts. *)
AllUsage(batch) == {id \in batch : parse_record(log[id]) = "usage"}

(* The transaction of an export: the records not seen before are receipted *)
(* and added to their rollups.                                             *)
Fresh(batch) == {id \in batch : parse_record(log[id]) = "usage" /\ receipts[id] = 0}

ingest(batch) ==
    LET fresh == Fresh(batch)
    IN  /\ receipts' = [id \in Ids |-> IF id \in fresh THEN now ELSE receipts[id]]
        /\ rollups' = rollups (+) SetToBag({<<RollupKey(log[id]), id>> : id \in fresh})
        /\ stored' = [id \in Ids |-> IF id \in fresh /\ stored[id] = 0
                                     THEN RollupKey(log[id]).start ELSE stored[id]]

(* An export is stored, and its answer reaches the gateway or is lost.     *)
export(batch) ==
    /\ batch # {}
    /\ \A id \in batch : Sendable(id)
    /\ Serial => job.step # "inserted"
    /\ ingest(batch)
    /\ \E answer \in {"answered", "queued"} :
          log' = [id \in Ids |->
                    IF id \in batch
                    THEN [log[id] EXCEPT !.state = answer,
                                         !.sent = CASE answer = "answered" -> 0
                                                    [] log[id].sent # 0 -> log[id].sent
                                                    [] OTHER -> now]
                    ELSE log[id]]
    /\ UNCHANGED <<now, job, failures>>

---------------------------------------------------------------------------
(* Maintenance, every hour and whenever the process starts.  The first two *)
(* statements are one transaction.                                         *)

Hourly(before) ==
    Restrict(rollups, {e \in DOMAIN rollups : e[1].seconds = HOUR /\ e[1].start < before})

DayOf(key) == [key EXCEPT !.start = (key.start \div DAY) * DAY, !.seconds = DAY]

(* Whole days only. *)
hourly_before == ((now - HOURLY_RETENTION) \div DAY) * DAY

CompactInsert ==
    /\ job \in {NoJob, JobDone}
    /\ now % HOUR = 0
    /\ job' = [step |-> "inserted", at |-> now, before |-> hourly_before,
               daily |-> BagOfAll(LAMBDA e : <<DayOf(e[1]), e[2]>>, Hourly(hourly_before))]
    /\ UNCHANGED <<now, log, receipts, rollups, failures, stored>>

CompactDelete ==
    /\ job.step = "inserted"
    /\ rollups' = (rollups (-) Hourly(job.before)) (+) job.daily
    /\ job' = [step |-> "compacted", at |-> job.at]
    /\ UNCHANGED <<now, log, receipts, failures, stored>>

ExpireRollups ==
    /\ job.step = "compacted"
    /\ rollups' = Restrict(rollups, {e \in DOMAIN rollups : ~(/\ e[1].seconds = DAY
                                                            /\ e[1].start < job.at - DAILY_RETENTION)})
    /\ job' = [job EXCEPT !.step = "expired"]
    /\ UNCHANGED <<now, log, receipts, failures, stored>>

ExpireReceipts ==
    /\ job.step = "expired"
    /\ receipts' = [id \in Ids |-> IF receipts[id] < job.at - RECEIPT_RETENTION
                                   THEN 0 ELSE receipts[id]]
    /\ job' = JobDone
    /\ UNCHANGED <<now, log, rollups, failures, stored>>

(* A statement fails or the process restarts: an open transaction is       *)
(* rolled back, and the job of the next hour starts over.                  *)
MaintenanceFails ==
    /\ job.step \in {"inserted", "compacted", "expired"}
    /\ failures < MaxFailures
    /\ job' = JobDone
    /\ failures' = failures + 1
    /\ UNCHANGED <<now, log, receipts, rollups, stored>>

(* A job is shorter than a tick of the clock. *)
Tick ==
    /\ now < MaxTime
    /\ job = IF now % HOUR = 0 THEN JobDone ELSE NoJob
    /\ now' = now + 1
    /\ job' = NoJob
    /\ UNCHANGED <<log, receipts, rollups, failures, stored>>

Next ==
    \/ \E id \in Ids : Proxied(id)
    \/ \E batch \in SUBSET Ids : export(batch)
    \/ CompactInsert
    \/ CompactDelete
    \/ ExpireRollups
    \/ ExpireReceipts
    \/ MaintenanceFails
    \/ Tick

Spec == Init /\ [][Next]_vars

---------------------------------------------------------------------------
(* A record the store accepted is in the rollups exactly once for as long  *)
(* as the day it belongs to is kept, and never more than once: not when    *)
(* its export is sent again after a lost answer, nor when it arrives late  *)
(* for a day that was compacted, nor while a compaction runs               *)
(* (store::ingest, store::compact).                                        *)
ExactlyOnce ==
    \A id \in Ids :
        /\ Count(Sum(DOMAIN rollups), id) <= 1
        /\ stored[id] # 0 /\ (stored[id] \div DAY) * DAY >= now - DAILY_RETENTION
              => Count(Sum(DOMAIN rollups), id) = 1

(* Compacting and expiring rollups changes no report, of any range, offset *)
(* or filter: a period never starts inside a day that is kept as one row   *)
(* (Window::preset, Window::previous against store::compact).              *)
MaintenanceInvisible == [][job' # job /\ now' = now => Reports' = Reports]_vars

(* The buckets of a report add up to its totals, and so do the rows of a   *)
(* breakdown that is not cut off, whatever the offset of its days          *)
(* (report::buckets, Window::bucket_index, store::breakdown).              *)
BucketsAddUp ==
    \A range \in Ranges, offset \in Offsets, filter \in Filters :
        LET w == preset(range, offset)
            rows == breakdown(w, filter)
        IN  /\ Add(buckets(w, filter)) = summary(w, filter)
            /\ Cardinality(rows) <= MaxRows
                  => Add(ranked(rows)) = summary(w, filter)

=============================================================================
