--------------------------- MODULE Notification ---------------------------
(***************************************************************************)
(* Matching of notifications at one process (fompi_notif.c) and the        *)
(* persistent requests it is driven by (fompi_req.c).                      *)
(*                                                                         *)
(* Notifications <<source, tag>> reach the owner through two queues: ring, *)
(* the shared-memory queue of XpmemQueue.tla for sources on its node, and  *)
(* cq, the destination completion queue of the NIC.  A request wants count *)
(* notifications that match its source and tag.  A call takes matching     *)
(* ones out of uq, the queue of those met before and not wanted then,      *)
(* oldest first; as long as it needs more it polls ring and cq and puts    *)
(* into uq what does not match.                                            *)
(*                                                                         *)
(* A notification is identified by its source and its number in the order  *)
(* of arrival from there.  Neither queue overflows.                        *)
(***************************************************************************)
EXTENDS Integers, Sequences, SequencesExt, FiniteSets

CONSTANTS
  Source, OnNode,       \* processes that notify; those on the owner's node
  Tag,
  AnySource, AnyTag,    \* the wildcards
  Dynamic,              \* TRUE for a window made by Win_create_dynamic
  NRequest,             \* the program's requests are 0 to NRequest - 1, in one array
  Want,                 \* Want[r]: source, tag and count given to Notify_init
  MaxSend               \* notifications a source sends (bound)

Requests == 0 .. NRequest - 1

ASSUME NamesAssumption ==
  OnNode \subseteq Source /\ AnySource \notin Source /\ AnyTag \notin Tag /\ Dynamic \in BOOLEAN
ASSUME WantAssumption ==
  /\ NRequest \in Nat \ {0}
  /\ Want \in [Requests -> [source : Source \cup {AnySource}, tag : Tag \cup {AnyTag}, count : Nat]]
ASSUME BoundAssumption == MaxSend \in Nat

VARIABLES
  arrived,        \* arrived[s]: notifications that have arrived from s
  ring, cq, uq,   \* oldest first
  found, active,  \* of each request
  op, place, req, \* the owner's call, where it is, and the request it is about
  first, next, inactive,  \* r, i and inactive of Testany_internal
  got,            \* got[r]: the notifications that found[r] counts
  used,           \* those counted before found[r] was reset
  pending,        \* requests started whose completion no call has reported
  enough          \* when the call began, all its request wants had arrived

queueVars == <<ring, cq, uq>>
anyVars == <<first, next, inactive>>
notifVars == <<arrived, queueVars, found, active, op, place, req, anyVars, got, used, pending, enough>>

Notif == [source : Source, tag : Tag, num : 1 .. MaxSend]
Calls == {"none", "test", "wait", "testany", "waitany"}
AnyCalls == {"testany", "waitany"}

NotifTypeOK ==
  /\ arrived \in [Source -> 0 .. MaxSend]
  /\ ring \in Seq(Notif) /\ cq \in Seq(Notif) /\ uq \in Seq(Notif)
  /\ found \in [Requests -> Nat] /\ \A r \in Requests : found[r] <= Want[r].count
  /\ active \in [Requests -> BOOLEAN]
  /\ op \in Calls /\ place \in {"idle", "next", "uq", "poll", "cq"} /\ (op = "none" <=> place = "idle")
  /\ req \in Requests
  /\ first \in Requests /\ next \in 0 .. NRequest /\ inactive \in 0 .. next
  /\ got \in [Requests -> SUBSET Notif] /\ used \subseteq Notif
  /\ pending \subseteq Requests /\ enough \in BOOLEAN

\* the requests are those Notify_init makes
NotifInit ==
  /\ arrived = [s \in Source |-> 0]
  /\ ring = << >> /\ cq = << >> /\ uq = << >>
  /\ found = [r \in Requests |-> 0]
  /\ active = [r \in Requests |-> FALSE]
  /\ op = "none" /\ place = "idle" /\ req = 0
  /\ first = 0 /\ next = 0 /\ inactive = 0
  /\ got = [r \in Requests |-> {}] /\ used = {}
  /\ pending = {} /\ enough = FALSE

---------------------------------------------------------------------------
(* Arrivals and matching.                                                  *)

ViaRing(s) == s \in OnNode /\ ~Dynamic

\* a notification of s is appended to the queue s reaches the owner through
Arrive(s, t) ==
  LET n == [source |-> s, tag |-> t, num |-> arrived[s] + 1] IN
  /\ arrived[s] < MaxSend
  /\ arrived' = [arrived EXCEPT ![s] = @ + 1]
  /\ IF ViaRing(s) THEN ring' = Append(ring, n) /\ UNCHANGED cq
     ELSE cq' = Append(cq, n) /\ UNCHANGED ring
  /\ UNCHANGED <<uq, found, active, op, place, req, anyVars, got, used, pending, enough>>

Matches(r, n) == Want[r].source \in {n.source, AnySource} /\ Want[r].tag \in {n.tag, AnyTag}

\* which queues a request makes its calls look at
Local(r) == ~Dynamic /\ Want[r].source \in OnNode \cup {AnySource}
Remote(r) == ~Local(r) \/ Want[r].source = AnySource

Missing(r) == Want[r].count - found[r]

Take(r, n) ==
  /\ found' = [found EXCEPT ![r] = @ + 1]
  /\ got' = [got EXCEPT ![r] = @ \cup {n}]

\* what has arrived and no request has counted
Queued == ToSet(ring) \cup ToSet(cq) \cup ToSet(uq)
Available(r) == {n \in Queued : Matches(r, n)}

\* Test_Wait on an active request, up to the search of uq
BeginMatch(r) ==
  /\ active[r]
  /\ place' = "uq" /\ req' = r
  /\ enough' = (Cardinality(Available(r)) >= Missing(r))

---------------------------------------------------------------------------
(* Start, and the beginning of the four completion calls.                  *)

\* _foMPI_Notification_activate
Activate(r) ==
  IF found[r] = Want[r].count
  THEN /\ found' = [found EXCEPT ![r] = 0]
       /\ got' = [got EXCEPT ![r] = {}]
       /\ used' = used \cup got[r]
  ELSE UNCHANGED <<found, got, used>>

\* foMPI_Start, on a request that is not under way
Start(r) ==
  /\ place = "idle"
  /\ r \notin pending
  /\ Activate(r)
  /\ active' = [active EXCEPT ![r] = TRUE]
  /\ pending' = pending \cup {r}
  /\ UNCHANGED <<arrived, queueVars, op, place, req, anyVars, enough>>

\* foMPI_Test and foMPI_Wait; on an inactive request they do nothing
Test(r) ==
  /\ place = "idle" /\ op' = "test"
  /\ BeginMatch(r)
  /\ UNCHANGED <<arrived, queueVars, found, active, anyVars, got, used, pending>>

Wait(r) ==
  /\ place = "idle" /\ op' = "wait"
  /\ BeginMatch(r)
  /\ UNCHANGED <<arrived, queueVars, found, active, anyVars, got, used, pending>>

\* the loop of Testany_internal starts at a random index
BeginAny ==
  /\ place' = "next"
  /\ first' \in Requests /\ next' = 0 /\ inactive' = 0
  /\ UNCHANGED <<arrived, queueVars, found, active, req, got, used, pending, enough>>

\* foMPI_Testany and foMPI_Waitany on the array of all requests
Testany == place = "idle" /\ op' = "testany" /\ BeginAny
Waitany == place = "idle" /\ op' = "waitany" /\ BeginAny

Current == (next + first) % NRequest

AnySkip ==
  /\ place = "next" /\ next < NRequest
  /\ ~active[Current]
  /\ next' = next + 1 /\ inactive' = inactive + 1
  /\ UNCHANGED <<arrived, queueVars, found, active, op, place, req, first, got, used, pending, enough>>

AnyTest ==
  /\ place = "next" /\ next < NRequest
  /\ BeginMatch(Current)
  /\ UNCHANGED <<arrived, queueVars, found, active, op, anyVars, got, used, pending>>

\* nothing complete: Waitany tries again, unless all requests are inactive
AnyEnd ==
  /\ place = "next" /\ next = NRequest
  /\ IF op = "waitany" /\ inactive < NRequest
     THEN BeginAny /\ UNCHANGED op
     ELSE /\ place' = "idle" /\ op' = "none"
          /\ UNCHANGED <<arrived, queueVars, found, active, req, anyVars, got, used, pending, enough>>

---------------------------------------------------------------------------
(* NotificationReceived_direct: the search of uq.                          *)

Fitting == {i \in DOMAIN uq : Matches(req, uq[i])}

\* mutant: the search starts at the head, the newest
SearchUqNewest ==
  /\ place = "uq" /\ Missing(req) > 0
  /\ \E i \in Fitting : /\ \A j \in Fitting : j <= i
                        /\ Take(req, uq[i])
                        /\ uq' = RemoveAt(uq, i)
  /\ UNCHANGED <<arrived, ring, cq, active, op, place, req, anyVars, used, pending, enough>>

\* the oldest that matches is taken out and counted
SearchUq ==
  /\ place = "uq" /\ Missing(req) > 0
  /\ \E i \in Fitting : /\ \A j \in Fitting : i <= j
                        /\ Take(req, uq[i])
                        /\ uq' = RemoveAt(uq, i)
  /\ UNCHANGED <<arrived, ring, cq, active, op, place, req, anyVars, used, pending, enough>>

\* until there is none, or no more is needed
UqSearched ==
  /\ place = "uq" /\ place' = "poll"
  /\ Missing(req) = 0 \/ Fitting = {}
  /\ UNCHANGED <<arrived, queueVars, found, active, op, req, anyVars, got, used, pending, enough>>

---------------------------------------------------------------------------
(* NotificationReceived_direct: the poll loop.                             *)

\* an event: it is counted, or kept for another request
Event(n) ==
  IF Matches(req, n) THEN Take(req, n) /\ UNCHANGED uq
  ELSE uq' = Append(uq, n) /\ UNCHANGED <<found, got>>

PollRing ==
  /\ place = "poll" /\ Missing(req) > 0
  /\ Local(req) /\ ring # << >>
  /\ Event(Head(ring))
  /\ ring' = Tail(ring)
  /\ UNCHANGED <<arrived, cq, active, op, place, req, anyVars, used, pending, enough>>

RingEmpty ==
  /\ place = "poll" /\ place' = "cq" /\ Missing(req) > 0
  /\ Local(req) => ring = << >>
  /\ UNCHANGED <<arrived, queueVars, found, active, op, req, anyVars, got, used, pending, enough>>

\* mutant: what does not match is dropped
PollCqDrops ==
  /\ place = "cq" /\ place' = "poll"
  /\ Remote(req) /\ cq # << >>
  /\ IF Matches(req, Head(cq)) THEN Take(req, Head(cq)) ELSE UNCHANGED <<found, got>>
  /\ cq' = Tail(cq)
  /\ UNCHANGED <<arrived, ring, uq, active, op, req, anyVars, used, pending, enough>>

PollCq ==
  /\ place = "cq" /\ place' = "poll"
  /\ Remote(req) /\ cq # << >>
  /\ Event(Head(cq))
  /\ cq' = Tail(cq)
  /\ UNCHANGED <<arrived, ring, active, op, req, anyVars, used, pending, enough>>

NothingRemote == place = "cq" /\ (Remote(req) => cq = << >>)

PollAgain ==
  /\ NothingRemote /\ op = "wait"
  /\ place' = "poll"
  /\ UNCHANGED <<arrived, queueVars, found, active, op, req, anyVars, got, used, pending, enough>>

\* mutant: a test gives up after the first event, too
TestGivesUpEarly ==
  /\ place = "cq" /\ op = "test"
  /\ op' = "none" /\ place' = "idle"
  /\ UNCHANGED <<arrived, queueVars, found, active, req, anyVars, got, used, pending, enough>>

\* a test answers false
TestGivesUp ==
  /\ NothingRemote /\ op = "test"
  /\ op' = "none" /\ place' = "idle"
  /\ UNCHANGED <<arrived, queueVars, found, active, req, anyVars, got, used, pending, enough>>

\* so does the one inside Testany_internal, which starts the request and goes on
AnyGivesUp ==
  /\ NothingRemote /\ op \in AnyCalls
  /\ place' = "next" /\ next' = next + 1
  /\ Activate(req)
  /\ active' = [active EXCEPT ![req] = TRUE]
  /\ UNCHANGED <<arrived, queueVars, op, req, first, inactive, pending, enough>>

\* all found.  The request becomes inactive, except in Wait, which leaves
\* the flag that Test_Wait looks at unset
Completes ==
  /\ place = "poll" /\ Missing(req) = 0
  /\ op' = "none" /\ place' = "idle"
  /\ active' = [active EXCEPT ![req] = @ /\ op = "wait"]
  /\ pending' = pending \ {req}
  /\ UNCHANGED <<arrived, queueVars, found, req, anyVars, got, used, enough>>

---------------------------------------------------------------------------
CallStep ==
  \/ AnySkip \/ AnyTest \/ AnyEnd
  \/ SearchUq \/ UqSearched
  \/ PollRing \/ RingEmpty \/ PollCq \/ PollAgain \/ TestGivesUp \/ AnyGivesUp \/ Completes

NotifNext ==
  \/ \E s \in Source, t \in Tag : Arrive(s, t)
  \/ \E r \in Requests : Start(r) \/ Test(r) \/ Wait(r)
  \/ Testany \/ Waitany
  \/ CallStep

NotifSpec == NotifInit /\ [][NotifNext]_notifVars

---------------------------------------------------------------------------
Is(n, s, k) == n.source = s /\ n.num = k
Among(q, s, k) == {i \in DOMAIN q : Is(q[i], s, k)}
Used(s, k) == {n \in used : Is(n, s, k)}
Counted(s, k) == {c \in Requests \X Notif : c[2] \in got[c[1]] /\ Is(c[2], s, k)}

\* how many places hold number k of s
Places(s, k) ==
  Cardinality(Among(ring, s, k)) + Cardinality(Among(cq, s, k)) + Cardinality(Among(uq, s, k))
    + Cardinality(Used(s, k)) + Cardinality(Counted(s, k))

(* No notification is lost and none is counted twice, by whatever requests *)
(* and calls compete for it: each that has arrived is in one queue or      *)
(* counted by one request, a request that it matches (lines 83-202).       *)
(* The types of the variables are part of the invariant.                   *)
CountedOnce ==
  /\ NotifTypeOK
  /\ \A s \in Source, k \in 1 .. MaxSend : Places(s, k) = IF k <= arrived[s] THEN 1 ELSE 0
  /\ \A r \in Requests : /\ found[r] = Cardinality(got[r])
                         /\ \A n \in got[r] : Matches(r, n)

(* Notifications of one source are matched in the order they arrived: when *)
(* a request counts one, no older one of that source which would match is  *)
(* left ("oldest available", lines 86, 95, 107), although the older may be *)
(* in uq and the newer still in a queue, and calls for other requests have *)
(* moved them about.                                                       *)
OldestFirst ==
  [][\A r \in Requests : \A n \in got'[r] \ got[r] :
       ~ \E m \in Queued' : m.source = n.source /\ m.num < n.num /\ Matches(r, m)]_notifVars

(* A test that answers false is right: what the request wants had not all  *)
(* arrived when the call began (the loop of lines 154-259 goes on while    *)
(* there are events, even in a test).                                      *)
FalseMeansMissing ==
  [][place = "cq" /\ place' \in {"idle", "next"} => ~enough]_notifVars
===========================================================================
