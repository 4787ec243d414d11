------------------------ MODULE HermesConnectorProofs ------------------------
(***************************************************************************)
(* What is proved of the link to Hermes, for any jobs and bounds: its type, *)
(* that a job is begun at most once, that a job which was withdrawn as not *)
(* started was not, that a stored result is durable, and that a ready      *)
(* connection has settled those before it.  They share one inductive       *)
(* invariant.                                                              *)
(***************************************************************************)
EXTENDS HermesConnector, SequenceTheorems, TLAPS

UpTypes == {"hello", "accepted", "result", "failed", "cancelled", "not_started",
            "close"}
DownTypes == {"hello_ack", "job", "cancel", "result_stored", "superseded", "error"}

UpMsg == [type : UpTypes, job : Jobs \cup {NoJob}, lease : Nat]
DownMsg == [type : DownTypes, job : Jobs \cup {NoJob}, lease : Nat]

Ups == [Connections -> Seq(UpMsg)]
Downs == [Connections -> Seq(DownMsg)]

\* Message m is in flight in one direction.
InFlight(q, m) == \E k \in Connections : \E i \in 1..Len(q[k]) : q[k][i] = m

-----------------------------------------------------------------------------
(* The inductive invariant.                                                *)

TableTypes ==
  /\ status \in [Jobs -> JobStatus]
  /\ lease \in [Jobs -> 0..MaxAttempts] /\ gen \in [Jobs -> 0..MaxAttempts]
  /\ owner \in [Jobs -> 0..MaxBreaks + 1]
  /\ carrier \in [Jobs -> 0..MaxConnections]
  /\ quarantined \in BOOLEAN

ServerTypes ==
  /\ sock \in [Connections -> {"unused", "open", "ready", "fenced"}]
  /\ active \in {0} \cup {k \in Connections : sock[k] = "ready"}
  /\ cid \in [Connections -> 0..MaxBreaks + 1]
  /\ handled \in [Connections -> BOOLEAN]
  /\ cancels \in Nat /\ failures \in Nat

NetTypes ==
  /\ link \in [Connections -> {"unused", "up", "cut"}]
  /\ up \in Ups /\ down \in Downs

TaskTypes ==
  /\ task \in [Jobs -> {"none", "new", "accepting", "rejecting"}]
  /\ taskWs \in [Jobs -> 0..MaxConnections]
  /\ \A j \in Jobs : task[j] # "none" => taskWs[j] \in Connections
  /\ offer \in [Jobs -> 0..MaxAttempts] /\ rejected \in [Jobs -> 0..MaxAttempts]
  /\ offerCancel \subseteq Jobs /\ rejCancel \subseteq Jobs
  /\ started \in [Jobs -> Nat]

HermesTypes ==
  /\ breaks \in 0..MaxBreaks /\ pid \in 1..breaks + 1
  /\ ws \in 0..MaxConnections /\ ready \in BOOLEAN
  /\ held \in [Jobs -> 0..MaxAttempts]
  /\ source \subseteq Jobs /\ cancelled \subseteq Jobs /\ final \subseteq Jobs
  /\ run \in [Jobs -> {"none", "running", "sending"}]

Types == TableTypes /\ ServerTypes /\ NetTypes /\ TaskTypes /\ HermesTypes

\* A connection nobody opened has no frames.
UnusedIsEmpty ==
  \A k \in Connections :
    /\ link[k] = "unused" => sock[k] = "unused"
    /\ sock[k] = "unused" => link[k] # "up" /\ up[k] = <<>> /\ down[k] = <<>>

\* A hello is the first frame of a connection whose generation is not yet valid,
\* and names a process of Hermes.
HelloIsFirst ==
  \A k \in Connections : \A i \in 1..Len(up[k]) : up[k][i].type = "hello" =>
    i = 1 /\ sock[k] = "open" /\ up[k][i].lease \in 1..MaxBreaks + 1

ReadyIsActive == \A k \in Connections : sock[k] = "ready" => active = k

HandledIsFenced == \A k \in Connections : handled[k] => sock[k] = "fenced"

\* The jobs that are active belong to the active connection.
ActiveBelong ==
  failures = 0 => \A j \in Jobs : status[j] \in Active =>
    active # 0 /\ carrier[j] = active /\ owner[j] = cid[active]

SocketInv ==
  UnusedIsEmpty /\ HelloIsFirst /\ ReadyIsActive /\ HandledIsFenced /\ ActiveBelong

IsJob(m, j) == m.type = "job" /\ m.job = j

\* No frame, or at most one, brings job j to the adapter.
NoneBrings(dn, j) ==
  \A k \in Connections : \A i \in 1..Len(dn[k]) : ~IsJob(dn[k][i], j)
OneBrings(dn, j) ==
  \A k, l \in Connections : \A i \in 1..Len(dn[k]), h \in 1..Len(dn[l]) :
    IsJob(dn[k][i], j) /\ IsJob(dn[l][h], j) => k = l /\ i = h

\* The job was not begun and will not be.
Harmless(j) ==
  /\ started[j] = 0
  /\ NoneBrings(down, j)
  /\ task[j] \in {"new", "accepting"} => j \in offerCancel

NotStartedSent(j) ==
  \E k \in Connections : \E i \in 1..Len(up[k]) :
    up[k][i].type = "not_started" /\ up[k][i].job = j

\* A job that may be claimed was never sent.
AckedIsFresh(j) ==
  status[j] = "Acked" =>
    /\ NoneBrings(down, j)
    /\ task[j] = "none" /\ started[j] = 0 /\ offer[j] = 0 /\ rejected[j] = 0
    /\ ~NotStartedSent(j)

\* The one thing that may begin a job: a frame, a task, or its beginning.
BegunByOne(j) ==
  /\ OneBrings(down, j)
  /\ NoneBrings(down, j) \/ (task[j] = "none" /\ started[j] = 0)
  /\ task[j] = "none" \/ started[j] = 0
  /\ started[j] <= 1
  /\ offer[j] # 0 => task[j] \in {"new", "accepting"}
  /\ rejected[j] # 0 => task[j] = "rejecting"

WithdrawnIsHarmless(j) == status[j] = "Cancelled" \/ NotStartedSent(j) => Harmless(j)

JobInv(j) == AckedIsFresh(j) /\ BegunByOne(j) /\ WithdrawnIsHarmless(j)

\* What the table st, with leases ls, says of a result_stored frame.
Durable(m, st, ls) ==
  m.type = "result_stored" =>
    m.job \in Jobs /\ st[m.job] \in {"Succeeded", "Failed"} /\ ls[m.job] = m.lease
StoredInv ==
  \A k \in Connections : \A i \in 1..Len(down[k]) : Durable(down[k][i], status, lease)

IInv == Types /\ SocketInv /\ StoredInv /\ \A j \in Jobs : JobInv(j)

LEMMA Bounds ==
  /\ NoJob \notin Jobs
  /\ MaxConnections \in Nat /\ MaxAttempts \in Nat /\ MaxBreaks \in Nat
  /\ 0 \notin Connections
  /\ \A k \in Connections : k \in 0..MaxConnections /\ k # 0
BY ConnectorAssumption DEF ConnectorAssumption, Connections

LEMMA TypesMeanTypeOK == ASSUME Types PROVE TypeOK
<1>1. ASSUME NEW k \in Connections, NEW i \in DOMAIN up[k]
      PROVE  up[k][i].type \in UpTypes
  <2>1. up[k] \in Seq(UpMsg)
    BY DEF Types, NetTypes, Ups
  <2>2. up[k][i] \in UpMsg
    BY <2>1, <1>1, ElementOfSeq, LenProperties
  <2> QED  BY <2>2 DEF UpMsg
<1>2. ASSUME NEW k \in Connections, NEW i \in DOMAIN down[k]
      PROVE  down[k][i].type \in DownTypes
  <2>1. down[k] \in Seq(DownMsg)
    BY DEF Types, NetTypes, Downs
  <2>2. down[k][i] \in DownMsg
    BY <2>1, <1>2, ElementOfSeq, LenProperties
  <2> QED  BY <2>2 DEF DownMsg
<1>3. {offerCancel, source, cancelled, final, rejCancel} \subseteq SUBSET Jobs
  BY DEF Types, TaskTypes, HermesTypes
<1>4. task \in [Jobs -> {"none", "new", "accepting", "rejecting"}]
      /\ taskWs \in [Jobs -> 0..MaxConnections]
      /\ offer \in [Jobs -> 0..MaxAttempts] /\ rejected \in [Jobs -> 0..MaxAttempts]
  BY DEF Types, TaskTypes
<1>5. ws \in 0..MaxConnections /\ ready \in BOOLEAN /\ held \in [Jobs -> 0..MaxAttempts]
      /\ run \in [Jobs -> {"none", "running", "sending"}]
  BY DEF Types, HermesTypes
<1>6. TableTypes /\ ServerTypes /\ link \in [Connections -> {"unused", "up", "cut"}]
  BY DEF Types, NetTypes
<1> QED  BY <1>1, <1>2, <1>3, <1>4, <1>5, <1>6
         DEF TypeOK, UpTypes, DownTypes, TableTypes, ServerTypes

-----------------------------------------------------------------------------
(* The queues.                                                             *)

\* Frames dn2 are those of dn, without some at the front of each queue.
Shrinks(dn, dn2) ==
  /\ dn2 \in Downs
  /\ \A k \in Connections : \E n \in Nat :
       /\ Len(dn2[k]) + n = Len(dn[k])
       /\ \A i \in 1..Len(dn2[k]) : dn2[k][i] = dn[k][i + n]

LEMMA ShrinksKeeps ==
  ASSUME NEW dn \in Downs, NEW dn2, Shrinks(dn, dn2)
  PROVE  /\ \A k \in Connections : dn[k] = <<>> => dn2[k] = <<>>
         /\ \A k \in Connections : \A i \in 1..Len(dn2[k]) :
              \E h \in 1..Len(dn[k]) : dn2[k][i] = dn[k][h]
         /\ \A j \in Jobs : NoneBrings(dn, j) => NoneBrings(dn2, j)
         /\ \A j \in Jobs : OneBrings(dn, j) => OneBrings(dn2, j)
<1> DEFINE Skip(k, n) == /\ Len(dn2[k]) + n = Len(dn[k])
                         /\ \A i \in 1..Len(dn2[k]) : dn2[k][i] = dn[k][i + n]
<1>1. \A k \in Connections : Len(dn[k]) \in Nat /\ Len(dn2[k]) \in Nat
  BY LenProperties DEF Shrinks, Downs
<1>2. ASSUME NEW k \in Connections, dn[k] = <<>> PROVE dn2[k] = <<>>
  <2>1. Len(dn[k]) = 0
    BY <1>2, EmptySeq
  <2>2. Len(dn2[k]) = 0
    BY <1>1, <2>1 DEF Shrinks
  <2>3. dn2[k] \in Seq(DownMsg)
    BY DEF Shrinks, Downs
  <2> QED  BY <2>2, <2>3, EmptySeq
<1>3. ASSUME NEW k \in Connections, NEW n \in Nat, Skip(k, n), NEW i \in 1..Len(dn2[k])
      PROVE  i + n \in 1..Len(dn[k]) /\ dn2[k][i] = dn[k][i + n]
  BY <1>1, <1>3
<1>4. ASSUME NEW k \in Connections PROVE \E n \in Nat : Skip(k, n)
  BY DEF Shrinks
<1>5. ASSUME NEW k \in Connections, NEW i \in 1..Len(dn2[k])
      PROVE  \E h \in 1..Len(dn[k]) : dn2[k][i] = dn[k][h]
  <2>1. PICK n \in Nat : Skip(k, n)
    BY <1>4
  <2> QED  BY <2>1, <1>3
<1>6. ASSUME NEW j \in Jobs, NoneBrings(dn, j) PROVE NoneBrings(dn2, j)
  BY <1>5, <1>6 DEF NoneBrings
<1>7. ASSUME NEW j \in Jobs, OneBrings(dn, j) PROVE OneBrings(dn2, j)
  <2>1. SUFFICES ASSUME NEW k \in Connections, NEW l \in Connections,
                        NEW i \in 1..Len(dn2[k]), NEW h \in 1..Len(dn2[l]),
                        IsJob(dn2[k][i], j), IsJob(dn2[l][h], j)
                 PROVE  k = l /\ i = h
    BY DEF OneBrings
  <2>2. PICK n \in Nat : Skip(k, n)
    BY <1>4
  <2>3. PICK m \in Nat : Skip(l, m)
    BY <1>4
  <2>4. i + n \in 1..Len(dn[k]) /\ IsJob(dn[k][i + n], j)
    BY <2>1, <2>2, <1>3
  <2>5. h + m \in 1..Len(dn[l]) /\ IsJob(dn[l][h + m], j)
    BY <2>1, <2>3, <1>3
  <2>6. k = l /\ i + n = h + m
    BY <2>4, <2>5, <1>7 DEF OneBrings
  <2>7. n = m
    BY <2>2, <2>3, <2>6, <1>1
  <2> QED  BY <2>6, <2>7, <1>1
<1> QED  BY <1>2, <1>5, <1>6, <1>7

LEMMA SameShrinks == ASSUME NEW dn \in Downs PROVE Shrinks(dn, dn)
<1>1. \A k \in Connections : Len(dn[k]) \in Nat
  BY LenProperties DEF Downs
<1>2. ASSUME NEW k \in Connections
      PROVE  \E n \in Nat : /\ Len(dn[k]) + n = Len(dn[k])
                            /\ \A i \in 1..Len(dn[k]) : dn[k][i] = dn[k][i + n]
  <2>1. \A i \in 1..Len(dn[k]) : dn[k][i] = dn[k][i + 0]
    BY <1>1
  <2> QED  BY <1>1, <2>1
<1> QED  BY <1>2 DEF Shrinks

LEMMA TailShrinks ==
  ASSUME NEW dn \in Downs, NEW c \in Connections, dn[c] # <<>>
  PROVE  Shrinks(dn, [dn EXCEPT ![c] = Tail(@)])
<1> DEFINE dn2 == [dn EXCEPT ![c] = Tail(@)]
<1>1. dn[c] \in Seq(DownMsg)
  BY DEF Downs
<1>2. /\ Tail(dn[c]) \in Seq(DownMsg) /\ Len(Tail(dn[c])) = Len(dn[c]) - 1
      /\ \A i \in 1..Len(Tail(dn[c])) : Tail(dn[c])[i] = dn[c][i + 1]
  BY <1>1, HeadTailProperties
<1>3. dn2 \in Downs
  BY <1>2 DEF Downs
<1>4. Shrinks(dn, dn)
  BY SameShrinks
<1>5. Len(dn[c]) \in Nat /\ dn2[c] = Tail(dn[c]) /\ \A k \in Connections \ {c} : dn2[k] = dn[k]
  BY <1>1, LenProperties DEF Downs
<1> HIDE DEF dn2
<1>6. Len(dn2[c]) + 1 = Len(dn[c]) /\ \A i \in 1..Len(dn2[c]) : dn2[c][i] = dn[c][i + 1]
  BY <1>2, <1>5
<1>7. ASSUME NEW k \in Connections
      PROVE  \E n \in Nat : /\ Len(dn2[k]) + n = Len(dn[k])
                            /\ \A i \in 1..Len(dn2[k]) : dn2[k][i] = dn[k][i + n]
  <2>1. CASE k = c
    BY <1>6, <2>1
  <2>2. CASE k # c
    <3>1. \E n \in Nat : /\ Len(dn[k]) + n = Len(dn[k])
                         /\ \A i \in 1..Len(dn[k]) : dn[k][i] = dn[k][i + n]
      BY <1>4 DEF Shrinks
    <3>2. dn2[k] = dn[k]
      BY <1>5, <2>2
    <3> QED  BY <3>1, <3>2, Zenon
  <2> QED  BY <2>1, <2>2
<1> QED  BY <1>3, <1>7 DEF Shrinks, dn2

LEMMA ClearShrinks ==
  ASSUME NEW dn \in Downs, NEW c \in Connections
  PROVE  Shrinks(dn, [dn EXCEPT ![c] = <<>>])
<1> DEFINE dn2 == [dn EXCEPT ![c] = <<>>]
<1>1. dn[c] \in Seq(DownMsg) /\ Len(dn[c]) \in Nat
  BY LenProperties DEF Downs
<1>2. <<>> \in Seq(DownMsg) /\ Len(<<>>) = 0
  BY EmptySeq
<1>3. dn2 \in Downs /\ dn2[c] = <<>> /\ \A k \in Connections \ {c} : dn2[k] = dn[k]
  BY <1>2 DEF Downs
<1>4. Shrinks(dn, dn)
  BY SameShrinks
<1>5. ASSUME NEW k \in Connections
      PROVE  \E n \in Nat : /\ Len(dn2[k]) + n = Len(dn[k])
                            /\ \A i \in 1..Len(dn2[k]) : dn2[k][i] = dn[k][i + n]
  <2>1. CASE k = c
    <3>1. Len(dn2[k]) + Len(dn[k]) = Len(dn[k]) /\ 1..Len(dn2[k]) = {}
      BY <1>1, <1>2, <1>3, <2>1
    <3> QED  BY <3>1, <1>1, <2>1
  <2>2. CASE k # c
    BY <1>4, <1>3, <2>2 DEF Shrinks
  <2> QED  BY <2>1, <2>2
<1> QED  BY <1>3, <1>5 DEF Shrinks

\* What the daemon sends: one frame more on connection c, if its link is up.
LEMMA SentAdds ==
  ASSUME NEW dn \in Downs, NEW c \in Connections, NEW m \in DownMsg
  PROVE  /\ Sent(dn, c, m) \in Downs
         /\ \A k \in Connections : link[k] # "up" => Sent(dn, c, m)[k] = dn[k]
         /\ \A k \in Connections : \A i \in 1..Len(Sent(dn, c, m)[k]) :
              \/ i \in 1..Len(dn[k]) /\ Sent(dn, c, m)[k][i] = dn[k][i]
              \/ k = c /\ i = Len(dn[k]) + 1 /\ Sent(dn, c, m)[k][i] = m
<1> DEFINE dn2 == Sent(dn, c, m)
<1>1. dn[c] \in Seq(DownMsg) /\ \A k \in Connections : Len(dn[k]) \in Nat
  BY LenProperties DEF Downs
<1>2. /\ Append(dn[c], m) \in Seq(DownMsg)
      /\ Len(Append(dn[c], m)) = Len(dn[c]) + 1
      /\ \A i \in 1..Len(dn[c]) : Append(dn[c], m)[i] = dn[c][i]
      /\ Append(dn[c], m)[Len(dn[c]) + 1] = m
  BY <1>1, AppendProperties
<1>3. CASE link[c] = "up"
  <2>1. dn2 = [dn EXCEPT ![c] = Append(@, m)]
    BY <1>3 DEF Sent
  <2>2. dn2 \in Downs /\ dn2[c] = Append(dn[c], m) /\ \A k \in Connections \ {c} : dn2[k] = dn[k]
    BY <1>2, <2>1 DEF Downs
  <2>3. ASSUME NEW k \in Connections, NEW i \in 1..Len(dn2[k])
        PROVE  \/ i \in 1..Len(dn[k]) /\ dn2[k][i] = dn[k][i]
               \/ k = c /\ i = Len(dn[k]) + 1 /\ dn2[k][i] = m
    <3>1. CASE k = c
      BY <1>1, <1>2, <2>2, <2>3, <3>1
    <3>2. CASE k # c
      BY <2>2, <2>3, <3>2
    <3> QED  BY <3>1, <3>2
  <2> QED  BY <1>3, <2>2, <2>3
<1>4. CASE link[c] # "up"
  BY <1>4 DEF Sent
<1> QED  BY <1>3, <1>4

LEMMA SentBrings ==
  ASSUME NEW dn \in Downs, NEW c \in Connections, NEW m \in DownMsg, NEW j \in Jobs
  PROVE  /\ NoneBrings(dn, j) => OneBrings(Sent(dn, c, m), j)
         /\ ~IsJob(m, j) /\ NoneBrings(dn, j) => NoneBrings(Sent(dn, c, m), j)
         /\ ~IsJob(m, j) /\ OneBrings(dn, j) => OneBrings(Sent(dn, c, m), j)
<1> DEFINE dn2 == Sent(dn, c, m)
<1>1. \A k \in Connections : \A i \in 1..Len(dn2[k]) :
        \/ i \in 1..Len(dn[k]) /\ dn2[k][i] = dn[k][i]
        \/ k = c /\ i = Len(dn[k]) + 1 /\ dn2[k][i] = m
  BY SentAdds
<1> HIDE DEF dn2
<1>2. ASSUME NoneBrings(dn, j) PROVE OneBrings(dn2, j)
  BY <1>1, <1>2 DEF NoneBrings, OneBrings
<1>3. ASSUME ~IsJob(m, j), NoneBrings(dn, j) PROVE NoneBrings(dn2, j)
  BY <1>1, <1>3 DEF NoneBrings
<1>4. ASSUME ~IsJob(m, j), OneBrings(dn, j) PROVE OneBrings(dn2, j)
  BY <1>1, <1>4 DEF OneBrings
<1> QED  BY <1>2, <1>3, <1>4 DEF dn2

\* What becomes of the adapter's frames: no hello is added or moved, a
\* not_started is an old one or m, and a dead empty queue stays empty.
UpKeeps(u, v, m) ==
  /\ v \in Ups
  /\ \A k \in Connections : link[k] # "up" /\ u[k] = <<>> => v[k] = <<>>
  /\ \A k \in Connections : \A i \in 1..Len(v[k]) :
       /\ v[k][i].type = "hello" => i \in 1..Len(u[k]) /\ v[k][i] = u[k][i]
       /\ v[k][i].type = "not_started" =>
            v[k][i] = m \/ \E h \in 1..Len(u[k]) : v[k][i] = u[k][h]

LEMMA SameUpKeeps == ASSUME NEW u \in Ups, NEW m PROVE UpKeeps(u, u, m)
BY DEF UpKeeps

LEMMA UpKeepsTwice ==
  ASSUME NEW u, NEW v, NEW w, NEW m, UpKeeps(u, v, m), UpKeeps(v, w, m)
  PROVE  UpKeeps(u, w, m)
<1>1. \A k \in Connections : link[k] # "up" /\ u[k] = <<>> => w[k] = <<>>
  BY DEF UpKeeps
<1>2. ASSUME NEW k \in Connections, NEW i \in 1..Len(w[k]), w[k][i].type = "hello"
      PROVE  i \in 1..Len(u[k]) /\ w[k][i] = u[k][i]
  BY <1>2 DEF UpKeeps
<1>3. ASSUME NEW k \in Connections, NEW i \in 1..Len(w[k]), w[k][i].type = "not_started",
             w[k][i] # m
      PROVE  \E h \in 1..Len(u[k]) : w[k][i] = u[k][h]
  <2>1. PICK h \in 1..Len(v[k]) : w[k][i] = v[k][h]
    BY <1>3 DEF UpKeeps
  <2> QED  BY <1>3, <2>1 DEF UpKeeps
<1> QED  BY <1>1, <1>2, <1>3 DEF UpKeeps

LEMMA PushKeeps ==
  ASSUME NEW u \in Ups, NEW c \in 0..MaxConnections, NEW m \in UpMsg, m.type # "hello"
  PROVE  UpKeeps(u, Push(u, c, m), m)
<1> DEFINE v == Push(u, c, m)
<1>1. CASE c # 0 /\ link[c] = "up"
  <2>1. c \in Connections
    BY <1>1, Bounds DEF Connections
  <2>2. v = [u EXCEPT ![c] = Append(@, m)]
    BY <1>1 DEF Push
  <2>3. u[c] \in Seq(UpMsg) /\ Len(u[c]) \in Nat
    BY <2>1, LenProperties DEF Ups
  <2>4. /\ Append(u[c], m) \in Seq(UpMsg)
        /\ Len(Append(u[c], m)) = Len(u[c]) + 1
        /\ \A i \in 1..Len(u[c]) : Append(u[c], m)[i] = u[c][i]
        /\ Append(u[c], m)[Len(u[c]) + 1] = m
    BY <2>3, AppendProperties
  <2>5. v \in Ups /\ v[c] = Append(u[c], m) /\ \A k \in Connections \ {c} : v[k] = u[k]
    BY <2>1, <2>2, <2>4 DEF Ups
  <2> HIDE DEF v
  <2>6. ASSUME NEW k \in Connections, NEW i \in 1..Len(v[k])
        PROVE  (i \in 1..Len(u[k]) /\ v[k][i] = u[k][i]) \/ v[k][i] = m
    <3>1. CASE k = c
      <4>1. v[k] = Append(u[c], m) /\ u[k] = u[c]
        BY <2>5, <3>1
      <4>2. i \in 1..Len(u[c]) \/ i = Len(u[c]) + 1
        BY <2>3, <2>4, <2>6, <4>1
      <4>3. CASE i \in 1..Len(u[c])
        BY <2>4, <4>1, <4>3
      <4>4. CASE i = Len(u[c]) + 1
        BY <2>4, <4>1, <4>4
      <4> QED  BY <4>2, <4>3, <4>4
    <3>2. CASE k # c
      BY <2>5, <2>6, <3>2
    <3> QED  BY <3>1, <3>2
  <2>7. \A k \in Connections : link[k] # "up" /\ u[k] = <<>> => v[k] = <<>>
    BY <1>1, <2>5
  <2>8. UpKeeps(u, v, m)
    BY <2>5, <2>6, <2>7 DEF UpKeeps
  <2> QED  BY <2>8 DEF v
<1>2. CASE ~(c # 0 /\ link[c] = "up")
  BY <1>2, SameUpKeeps DEF Push
<1> QED  BY <1>1, <1>2

LEMMA CutKeeps ==
  ASSUME NEW u \in Ups, NEW c \in Connections, NEW v \in Cut(u, c), NEW m
  PROVE  UpKeeps(u, v, m)
<1> DEFINE close == Msg("close", NoJob, 0)
<1>1. CASE link[c] = "up"
  <2>1. PICK n \in 0..Len(u[c]) : v = [u EXCEPT ![c] = Append(SubSeq(@, 1, n), close)]
    BY <1>1 DEF Cut
  <2>2. u[c] \in Seq(UpMsg) /\ Len(u[c]) \in Nat /\ \A i \in 1..Len(u[c]) : u[c][i] \in UpMsg
    BY LenProperties, ElementOfSeq DEF Ups
  <2> DEFINE s == SubSeq(u[c], 1, n)
  <2>3. n \in Nat /\ 1..n \subseteq 1..Len(u[c])
    BY <2>1, <2>2
  <2>4. s \in Seq(UpMsg) /\ Len(s) = n /\ \A i \in 1..n : s[i] = u[c][i]
    <3>1. \A i \in 1..n : u[c][i] \in UpMsg
      BY <2>2, <2>3
    <3>2. /\ s \in Seq(UpMsg) /\ Len(s) = (IF 1 <= n THEN n - 1 + 1 ELSE 0)
          /\ \A i \in 1..n - 1 + 1 : s[i] = u[c][1 + i - 1]
      BY <2>3, <3>1, SubSeqProperties
    <3> QED  BY <2>3, <3>2
  <2>5. close \in UpMsg /\ close.type = "close"
    BY DEF UpMsg, UpTypes, Msg
  <2> HIDE DEF s, close
  <2>6. /\ Append(s, close) \in Seq(UpMsg) /\ Len(Append(s, close)) = n + 1
        /\ \A i \in 1..n : Append(s, close)[i] = s[i]
        /\ Append(s, close)[n + 1] = close
    BY <2>4, <2>5, AppendProperties
  <2>7. v \in Ups /\ v[c] = Append(s, close) /\ \A k \in Connections \ {c} : v[k] = u[k]
    BY <2>1, <2>6 DEF Ups, s
  <2>8. ASSUME NEW k \in Connections, NEW i \in 1..Len(v[k])
        PROVE  (i \in 1..Len(u[k]) /\ v[k][i] = u[k][i]) \/ v[k][i] = close
    <3>1. CASE k = c
      BY <2>3, <2>4, <2>6, <2>7, <2>8, <3>1
    <3>2. CASE k # c
      BY <2>7, <2>8, <3>2
    <3> QED  BY <3>1, <3>2
  <2>9. \A k \in Connections : link[k] # "up" /\ u[k] = <<>> => v[k] = <<>>
    BY <1>1, <2>7
  <2> QED  BY <2>5, <2>7, <2>8, <2>9 DEF UpKeeps
<1>2. CASE link[c] # "up"
  BY <1>2, SameUpKeeps DEF Cut
<1> QED  BY <1>1, <1>2

LEMMA RestKeeps ==
  ASSUME up \in Ups, HelloIsFirst, NEW c \in Connections, up[c] # <<>>, NEW m
  PROVE  /\ UpKeeps(up, Rest(c), m)
         /\ \A i \in 1..Len(Rest(c)[c]) : Rest(c)[c][i].type # "hello"
         /\ 1 \in 1..Len(up[c]) /\ Head(up[c]) = up[c][1] /\ Head(up[c]) \in UpMsg
<1> DEFINE v == Rest(c)
<1>1. up[c] \in Seq(UpMsg) /\ Len(up[c]) \in Nat \ {0}
  BY EmptySeq, LenProperties DEF Ups
<1>2. /\ Tail(up[c]) \in Seq(UpMsg) /\ Len(Tail(up[c])) = Len(up[c]) - 1
      /\ \A i \in 1..Len(Tail(up[c])) : Tail(up[c])[i] = up[c][i + 1]
      /\ Head(up[c]) \in UpMsg
  BY <1>1, HeadTailProperties
<1>3. v \in Ups /\ v[c] = Tail(up[c]) /\ \A k \in Connections \ {c} : v[k] = up[k]
  BY <1>2 DEF Rest, Ups
<1>4. Head(up[c]) = up[c][1]
  BY <1>1
<1> HIDE DEF v
<1>5. ASSUME NEW i \in 1..Len(v[c])
      PROVE  i + 1 \in 1..Len(up[c]) /\ v[c][i] = up[c][i + 1] /\ i + 1 # 1
  BY <1>1, <1>2, <1>3, <1>5
<1>6. ASSUME NEW i \in 1..Len(v[c]) PROVE v[c][i].type # "hello"
  BY <1>5 DEF HelloIsFirst
<1>7. ASSUME NEW k \in Connections, NEW i \in 1..Len(v[k])
      PROVE  /\ v[k][i].type = "hello" => i \in 1..Len(up[k]) /\ v[k][i] = up[k][i]
             /\ \E h \in 1..Len(up[k]) : v[k][i] = up[k][h]
  <2>1. CASE k = c
    <3>1. i + 1 \in 1..Len(up[k]) /\ v[k][i] = up[k][i + 1] /\ v[k][i].type # "hello"
      BY <1>5, <1>6, <1>7, <2>1
    <3> QED  BY <3>1
  <2>2. CASE k # c
    BY <1>3, <1>7, <2>2
  <2> QED  BY <2>1, <2>2
<1>8. \A k \in Connections : up[k] = <<>> => v[k] = <<>>
  BY <1>3
<1>9. UpKeeps(up, v, m)
  BY <1>3, <1>7, <1>8 DEF UpKeeps
<1>10. 1 \in 1..Len(up[c])
  BY <1>1
<1> QED  BY <1>2, <1>4, <1>6, <1>9, <1>10 DEF v

\* The frames after a step, of connections whose sockets move on.
LEMMA NetKeeps ==
  ASSUME IInv, NEW m, UpKeeps(up, up', m),
         \A k \in Connections : link'[k] = link[k] \/ link'[k] = "cut",
         \A k \in Connections : link[k] # "up" /\ down[k] = <<>> => down'[k] = <<>>,
         \A k \in Connections : sock'[k] = "unused" <=> sock[k] = "unused",
         \A k \in Connections : sock[k] = "open" =>
           sock'[k] = "open" \/ \A i \in 1..Len(up'[k]) : up'[k][i].type # "hello"
  PROVE  UnusedIsEmpty' /\ HelloIsFirst'
<1>1. UnusedIsEmpty /\ HelloIsFirst
  BY DEF IInv, SocketInv
<1>2. UnusedIsEmpty'
  BY <1>1 DEF UnusedIsEmpty, UpKeeps
<1>3. ASSUME NEW k \in Connections, NEW i \in 1..Len(up'[k]), up'[k][i].type = "hello"
      PROVE  i = 1 /\ sock'[k] = "open" /\ up'[k][i].lease \in 1..MaxBreaks + 1
  <2>1. i \in 1..Len(up[k]) /\ up'[k][i] = up[k][i]
    BY <1>3 DEF UpKeeps
  <2>2. i = 1 /\ sock[k] = "open" /\ up[k][i].lease \in 1..MaxBreaks + 1
    BY <1>1, <1>3, <2>1 DEF HelloIsFirst
  <2> QED  BY <1>3, <2>1, <2>2
<1>4. HelloIsFirst'
  BY <1>3 DEF HelloIsFirst
<1> QED  BY <1>2, <1>4

LEMMA NotStartedKeeps ==
  ASSUME NEW m, UpKeeps(up, up', m), NEW j \in Jobs, NotStartedSent(j)',
         m.type = "not_started" => m.job # j
  PROVE  NotStartedSent(j)
<1>1. PICK k \in Connections : \E i \in 1..Len(up'[k]) :
        up'[k][i].type = "not_started" /\ up'[k][i].job = j
  BY DEF NotStartedSent
<1>2. PICK i \in 1..Len(up'[k]) : up'[k][i].type = "not_started" /\ up'[k][i].job = j
  BY <1>1
<1>3. PICK h \in 1..Len(up[k]) : up'[k][i] = up[k][h]
  BY <1>2 DEF UpKeeps
<1> QED  BY <1>2, <1>3 DEF NotStartedSent

-----------------------------------------------------------------------------
(* The daemon: dispatchPending, and what its caller leaves it.             *)

Dispatched(st, dn) ==
  /\ status' \in [Jobs -> JobStatus]
  /\ lease' \in [Jobs -> 0..MaxAttempts] /\ gen' \in [Jobs -> 0..MaxAttempts]
  /\ down' \in Downs
  /\ \A k \in Connections : link[k] # "up" => down'[k] = dn[k]
  /\ \A k \in Connections : \A i \in 1..Len(down'[k]) :
       (i \in 1..Len(dn[k]) /\ down'[k][i] = dn[k][i]) \/ down'[k][i].type = "job"
  /\ \A j \in Jobs :
       \/ /\ status'[j] = st[j] /\ (st[j] # "Acked" => lease'[j] = lease[j])
          /\ NoneBrings(dn, j) => NoneBrings(down', j)
          /\ OneBrings(dn, j) => OneBrings(down', j)
       \/ /\ st[j] = "Acked" /\ status'[j] = "Dispatching"
          /\ NoneBrings(dn, j) => OneBrings(down', j)

\* Whose the active jobs are, after a dispatch to act with connector id, as long
\* as no settlement was refused.
Belong(st, act, id) ==
  /\ owner' \in [Jobs -> 0..MaxBreaks + 1]
  /\ carrier' \in [Jobs -> 0..MaxConnections]
  /\ \A j \in Jobs : failures = 0 /\ status'[j] \in Active =>
       \/ status'[j] = st[j] /\ owner'[j] = owner[j] /\ carrier'[j] = carrier[j]
       \/ act # 0 /\ owner'[j] = id /\ carrier'[j] = act

LEMMA NoDispatch ==
  ASSUME Types, NEW st \in [Jobs -> JobStatus], NEW dn \in Downs,
         status' = st, down' = dn, UNCHANGED <<lease, gen>>
  PROVE  Dispatched(st, dn)
BY DEF Dispatched, Types, TableTypes

LEMMA DispatchPendingDispatches ==
  ASSUME Types, NEW st \in [Jobs -> JobStatus], NEW act \in {0} \cup Connections,
         NEW id \in 0..MaxBreaks + 1, NEW fence, NEW dn \in Downs,
         DispatchPending(st, act, id, fence, dn)
  PROVE  Dispatched(st, dn) /\ Belong(st, act, id)
<1>1. CASE status' = st /\ down' = dn /\ UNCHANGED <<lease, gen, owner, carrier>>
  <2>1. Dispatched(st, dn)
    BY <1>1, NoDispatch
  <2>2. Belong(st, act, id)
    BY <1>1 DEF Belong, Types, TableTypes
  <2> QED  BY <2>1, <2>2
<1>2. ASSUME NEW c \in Claimable(st, act, fence), NEW submitted \in Submitted(act),
             gen' = [gen EXCEPT ![c] = @ + 1],
             status' = IF submitted THEN [st EXCEPT ![c] = "Dispatching"] ELSE st,
             lease' = [lease EXCEPT ![c] = IF submitted THEN gen[c] + 1 ELSE 0],
             owner' = [owner EXCEPT ![c] = IF submitted THEN id ELSE 0],
             carrier' = [carrier EXCEPT ![c] = act],
             down' = Sent(dn, act, Msg("job", c, gen[c] + 1))
      PROVE  Dispatched(st, dn) /\ Belong(st, act, id)
  <2> DEFINE m == Msg("job", c, gen[c] + 1)
  <2>1. /\ c \in Jobs /\ act \in Connections /\ act # 0 /\ st[c] = "Acked"
        /\ gen[c] \in 0..MaxAttempts /\ gen[c] < MaxAttempts
        /\ \A j \in Jobs : st[j] \notin Active
    BY <1>2, Bounds DEF Claimable, ActiveIn, Types, TableTypes
  <2>2. gen[c] + 1 \in 0..MaxAttempts /\ gen[c] + 1 \in Nat /\ 0 \in 0..MaxAttempts
    BY <2>1, Bounds
  <2>3. m \in DownMsg /\ m.type = "job" /\ m.job = c
    BY <2>1, <2>2 DEF DownMsg, DownTypes, Msg
  <2>4. submitted \in BOOLEAN /\ (~submitted => link[act] # "up")
    BY <1>2 DEF Submitted
  <2>5. "Dispatching" \in JobStatus
    BY DEF JobStatus, Active
  <2>6. status' \in [Jobs -> JobStatus]
    BY <1>2, <2>5
  <2>7. lease' \in [Jobs -> 0..MaxAttempts] /\ gen' \in [Jobs -> 0..MaxAttempts]
    BY <1>2, <2>2 DEF Types, TableTypes
  <2>8. owner' \in [Jobs -> 0..MaxBreaks + 1]
    <3>1. 0 \in 0..MaxBreaks + 1
      BY Bounds
    <3>2. (IF submitted THEN id ELSE 0) \in 0..MaxBreaks + 1
      BY <3>1
    <3> QED  BY <1>2, <3>2 DEF Types, TableTypes
  <2>9. carrier' \in [Jobs -> 0..MaxConnections]
    BY <1>2, <2>1, Bounds DEF Types, TableTypes
  <2> HIDE DEF m
  <2>10. /\ down' \in Downs
         /\ \A k \in Connections : link[k] # "up" => down'[k] = dn[k]
         /\ \A k \in Connections : \A i \in 1..Len(down'[k]) :
              (i \in 1..Len(dn[k]) /\ down'[k][i] = dn[k][i]) \/ down'[k][i].type = "job"
    BY <1>2, <2>1, <2>3, SentAdds DEF m
  <2>11. \A j \in Jobs \ {c} : /\ NoneBrings(dn, j) => NoneBrings(down', j)
                               /\ OneBrings(dn, j) => OneBrings(down', j)
    <3>1. ASSUME NEW j \in Jobs \ {c} PROVE ~IsJob(m, j)
      BY <2>3 DEF IsJob
    <3>2. down' = Sent(dn, act, m)
      BY <1>2 DEF m
    <3> QED  BY <2>1, <2>3, <3>1, <3>2, SentBrings
  <2>12. NoneBrings(dn, c) => OneBrings(down', c)
    BY <1>2, <2>1, <2>3, SentBrings DEF m
  <2>13. \A j \in Jobs \ {c} : status'[j] = st[j] /\ lease'[j] = lease[j]
    BY <1>2 DEF Types, TableTypes
  <2>14. CASE submitted
    <3>1. status'[c] = "Dispatching"
      BY <1>2, <2>1, <2>14
    <3>2. Dispatched(st, dn)
      BY <2>1, <2>6, <2>7, <2>10, <2>11, <2>12, <2>13, <3>1 DEF Dispatched
    <3>3. owner'[c] = id /\ carrier'[c] = act
      BY <1>2, <2>1, <2>14 DEF Types, TableTypes
    <3>4. Belong(st, act, id)
      BY <2>1, <2>8, <2>9, <2>13, <3>3 DEF Belong
    <3> QED  BY <3>2, <3>4
  <2>15. CASE ~submitted
    <3>1. status' = st /\ down' = dn
      BY <1>2, <2>4, <2>15 DEF Sent
    <3>2. Dispatched(st, dn)
      BY <2>1, <2>6, <2>7, <2>10, <2>13, <3>1 DEF Dispatched
    <3>3. Belong(st, act, id)
      BY <2>1, <2>8, <2>9, <3>1 DEF Belong
    <3> QED  BY <3>2, <3>3
  <2> QED  BY <2>4, <2>14, <2>15
<1> QED  BY <1>1, <1>2 DEF DispatchPending

\* The job table st and frames dn that a handler leaves to dispatchPending.
Answers(st, dn) ==
  /\ st \in [Jobs -> JobStatus] /\ dn \in Downs
  /\ \A j \in Jobs :
       /\ st[j] = "Acked" => status[j] = "Acked"
       /\ st[j] = "Cancelled" => status[j] \in {"Cancelled", "Acked"} \/ NotStartedSent(j)
       /\ NoneBrings(down, j) => NoneBrings(dn, j)
       /\ OneBrings(down, j) => OneBrings(dn, j)
  /\ \A k \in Connections : link[k] # "up" => dn[k] = down[k]
  /\ \A k \in Connections : \A i \in 1..Len(dn[k]) : Durable(dn[k][i], st, lease)

LEMMA DaemonKeepsJobs ==
  ASSUME IInv, NEW st, NEW dn, Answers(st, dn), Dispatched(st, dn),
         NEW m, UpKeeps(up, up', m), m.type # "not_started",
         UNCHANGED <<task, started, offer, offerCancel, rejected>>
  PROVE  StoredInv' /\ \A j \in Jobs : JobInv(j)'
<1>1. ASSUME NEW k \in Connections, NEW i \in 1..Len(down'[k])
      PROVE  Durable(down'[k][i], status', lease')
  <2>1. CASE down'[k][i].type = "job"
    BY <2>1 DEF Durable
  <2>2. CASE i \in 1..Len(dn[k]) /\ down'[k][i] = dn[k][i]
    <3> DEFINE f == dn[k][i]
    <3>1. SUFFICES ASSUME f.type = "result_stored"
                   PROVE  f.job \in Jobs /\ status'[f.job] \in {"Succeeded", "Failed"}
                          /\ lease'[f.job] = f.lease
      BY <2>2 DEF Durable
    <3>2. f.job \in Jobs /\ st[f.job] \in {"Succeeded", "Failed"} /\ lease[f.job] = f.lease
      BY <2>2, <3>1 DEF Answers, Durable
    <3>3. status'[f.job] = st[f.job] /\ lease'[f.job] = lease[f.job]
      BY <3>2 DEF Dispatched
    <3> QED  BY <3>2, <3>3
  <2> QED  BY <1>1, <2>1, <2>2 DEF Dispatched
<1>2. ASSUME NEW j \in Jobs PROVE JobInv(j)'
  <2>1. AckedIsFresh(j) /\ BegunByOne(j) /\ WithdrawnIsHarmless(j)
    BY DEF IInv, JobInv
  <2>2. NotStartedSent(j)' => NotStartedSent(j)
    BY NotStartedKeeps
  <2>3. CASE /\ status'[j] = st[j]
             /\ NoneBrings(dn, j) => NoneBrings(down', j)
             /\ OneBrings(dn, j) => OneBrings(down', j)
    <3>1. /\ NoneBrings(down, j) => NoneBrings(down', j)
          /\ OneBrings(down, j) => OneBrings(down', j)
      BY <2>3 DEF Answers
    <3>2. status'[j] = "Acked" => status[j] = "Acked"
      BY <2>3 DEF Answers
    <3>3. AckedIsFresh(j)'
      BY <2>1, <2>2, <3>1, <3>2 DEF AckedIsFresh
    <3>4. BegunByOne(j)'
      BY <2>1, <3>1 DEF BegunByOne
    <3>5. status[j] = "Acked" => Harmless(j)
      BY <2>1 DEF AckedIsFresh, Harmless
    <3>6. status'[j] = "Cancelled" \/ NotStartedSent(j)' => Harmless(j)
      BY <2>1, <2>2, <2>3, <3>5 DEF Answers, WithdrawnIsHarmless
    <3>7. Harmless(j) => Harmless(j)'
      BY <3>1 DEF Harmless
    <3>8. WithdrawnIsHarmless(j)'
      BY <3>6, <3>7 DEF WithdrawnIsHarmless
    <3> QED  BY <3>3, <3>4, <3>8 DEF JobInv
  <2>4. CASE /\ st[j] = "Acked" /\ status'[j] = "Dispatching"
             /\ NoneBrings(dn, j) => OneBrings(down', j)
    <3>1. status[j] = "Acked"
      BY <2>4 DEF Answers
    <3>2. /\ NoneBrings(down, j) /\ task[j] = "none" /\ started[j] = 0
          /\ offer[j] = 0 /\ rejected[j] = 0 /\ ~NotStartedSent(j)'
      BY <2>1, <2>2, <3>1 DEF AckedIsFresh
    <3>3. OneBrings(down', j)
      BY <2>4, <3>2 DEF Answers
    <3>4. BegunByOne(j)'
      BY <3>2, <3>3 DEF BegunByOne
    <3>5. AckedIsFresh(j)' /\ WithdrawnIsHarmless(j)'
      BY <2>4, <3>2 DEF AckedIsFresh, WithdrawnIsHarmless
    <3> QED  BY <3>4, <3>5 DEF JobInv
  <2> QED  BY <2>3, <2>4 DEF Dispatched
<1> QED  BY <1>1, <1>2 DEF StoredInv

\* The daemon's own types, and who an active job belongs to, after a dispatch.
LEMMA TableAfterDispatch ==
  ASSUME NEW st, NEW dn, NEW act, NEW id, Dispatched(st, dn), Belong(st, act, id),
         quarantined' \in BOOLEAN
  PROVE  TableTypes'
BY DEF Dispatched, Belong, TableTypes

LEMMA AnswerSent ==
  ASSUME IInv, NEW st, Answers(st, down), NEW k \in Connections, NEW j \in Jobs,
         NEW type \in DownTypes, type # "job",
         type = "result_stored" => st[j] \in {"Succeeded", "Failed"}
  PROVE  Answers(st, Reply(k, type, j))
<1> DEFINE m == Msg(type, j, lease[j])
<1>1. down \in Downs /\ lease[j] \in Nat
  BY Bounds DEF IInv, Types, NetTypes, TableTypes
<1>2. m \in DownMsg /\ m.type = type /\ m.job = j /\ m.lease = lease[j]
  BY <1>1 DEF DownMsg, Msg
<1>3. \A i \in Jobs : ~IsJob(m, i)
  BY <1>2 DEF IsJob
<1>4. Durable(m, st, lease)
  BY <1>2 DEF Durable
<1> HIDE DEF m
<1> DEFINE dn == Sent(down, k, m)
<1>5. /\ dn \in Downs
      /\ \A c \in Connections : link[c] # "up" => dn[c] = down[c]
      /\ \A c \in Connections : \A i \in 1..Len(dn[c]) :
           (i \in 1..Len(down[c]) /\ dn[c][i] = down[c][i]) \/ dn[c][i] = m
  BY <1>1, <1>2, SentAdds
<1>6. \A i \in Jobs : /\ NoneBrings(down, i) => NoneBrings(dn, i)
                      /\ OneBrings(down, i) => OneBrings(dn, i)
  BY <1>1, <1>2, <1>3, SentBrings
<1> HIDE DEF dn
<1>7. \A c \in Connections : \A i \in 1..Len(dn[c]) : Durable(dn[c][i], st, lease)
  BY <1>4, <1>5 DEF Answers
<1>8. Answers(st, dn)
  BY <1>5, <1>6, <1>7 DEF Answers
<1> QED  BY <1>8 DEF dn, m, Reply

\* A table that differs from status only in job j.
LEMMA AnswerTable ==
  ASSUME IInv, NEW st \in [Jobs -> JobStatus], NEW j \in Jobs,
         \A i \in Jobs : i # j => st[i] = status[i],
         st[j] = status[j] \/ st[j] \in {"Running", "Cancelling", "CancelUnknown", "Interrupted",
                                          "Succeeded", "Failed", "Cancelled"},
         st[j] = "Cancelled" => status[j] \in {"Cancelled", "Acked"} \/ NotStartedSent(j),
         status[j] \in {"Succeeded", "Failed"} => st[j] \in {"Succeeded", "Failed"}
  PROVE  Answers(st, down)
<1>1. down \in Downs
  BY DEF IInv, Types, NetTypes
<1>2. \A k \in Connections : \A i \in 1..Len(down[k]) : Durable(down[k][i], st, lease)
  <2>1. ASSUME NEW m, Durable(m, status, lease) PROVE Durable(m, st, lease)
    BY <2>1 DEF Durable
  <2> QED  BY <2>1 DEF IInv, StoredInv
<1>3. \A i \in Jobs : st[i] = "Acked" => status[i] = "Acked"
  OBVIOUS
<1>4. \A i \in Jobs : st[i] = "Cancelled" => status[i] \in {"Cancelled", "Acked"} \/ NotStartedSent(i)
  OBVIOUS
<1> QED  BY <1>1, <1>2, <1>3, <1>4 DEF Answers

\* A handler of the active connection's frames, or of the relay's, that leaves
\* the server's sockets alone.
HandlerStep ==
  /\ UNCHANGED <<sock, active, cid, handled, link, adapterVars, started, breaks, failures>>
  /\ cancels' \in Nat /\ quarantined' \in BOOLEAN
  /\ UpKeeps(up, up', Msg("close", NoJob, 0))

LEMMA HandlerKeeps ==
  ASSUME IInv, HandlerStep, NEW st, NEW dn, Answers(st, dn), Dispatched(st, dn),
         NEW id, Belong(st, active, id), id = IF active = 0 THEN 0 ELSE cid[active],
         \A j \in Jobs : st[j] \in Active => status[j] \in Active
  PROVE  IInv'
<1>1. Types'
  <2>1. TableTypes'
    BY TableAfterDispatch DEF HandlerStep
  <2>2. ServerTypes'
    BY DEF HandlerStep, IInv, Types, ServerTypes
  <2>3. NetTypes'
    BY DEF HandlerStep, Dispatched, UpKeeps, IInv, Types, NetTypes
  <2>4. TaskTypes' /\ HermesTypes'
    BY DEF HandlerStep, adapterVars, IInv, Types, TaskTypes, HermesTypes
  <2> QED  BY <2>1, <2>2, <2>3, <2>4 DEF Types
<1>2. UnusedIsEmpty' /\ HelloIsFirst'
  <2>1. \A k \in Connections : link[k] # "up" /\ down[k] = <<>> => down'[k] = <<>>
    BY DEF Dispatched, Answers
  <2> QED  BY <2>1, NetKeeps DEF HandlerStep
<1>3. ReadyIsActive' /\ HandledIsFenced'
  BY DEF HandlerStep, IInv, SocketInv, ReadyIsActive, HandledIsFenced
<1>4. ActiveBelong'
  <2>1. SUFFICES ASSUME failures = 0, NEW j \in Jobs, status'[j] \in Active
                 PROVE  active # 0 /\ carrier'[j] = active /\ owner'[j] = cid[active]
    BY DEF ActiveBelong, HandlerStep
  <2>2. CASE status'[j] = st[j] /\ owner'[j] = owner[j] /\ carrier'[j] = carrier[j]
    BY <2>1, <2>2 DEF IInv, SocketInv, ActiveBelong
  <2>3. CASE active # 0 /\ owner'[j] = id /\ carrier'[j] = active
    BY <2>3
  <2> QED  BY <2>1, <2>2, <2>3 DEF Belong
<1>5. StoredInv' /\ \A j \in Jobs : JobInv(j)'
  <2>1. Msg("close", NoJob, 0).type # "not_started"
    BY DEF Msg
  <2> QED  BY <2>1, DaemonKeepsJobs DEF HandlerStep, adapterVars
<1> QED  BY <1>1, <1>2, <1>3, <1>4, <1>5 DEF IInv, SocketInv

LEMMA RedispatchKeeps ==
  ASSUME IInv, HandlerStep, NEW st, NEW dn, Answers(st, dn), Redispatch(st, dn),
         \A j \in Jobs : st[j] \in Active => status[j] \in Active
  PROVE  IInv'
<1> DEFINE id == IF active = 0 THEN 0 ELSE cid[active]
<1>1. Types /\ st \in [Jobs -> JobStatus] /\ dn \in Downs
  BY DEF IInv, Answers
<1>2. active \in {0} \cup Connections
  BY DEF IInv, Types, ServerTypes
<1>3. 0 \in 0..MaxBreaks + 1
  BY Bounds
<1>4. id \in 0..MaxBreaks + 1
  BY <1>2, <1>3 DEF IInv, Types, ServerTypes
<1>5. DispatchPending(st, active, id, quarantined, dn)
  BY DEF Redispatch
<1> HIDE DEF id
<1>6. Dispatched(st, dn) /\ Belong(st, active, id)
  BY <1>1, <1>2, <1>4, <1>5, DispatchPendingDispatches
<1>7. id = IF active = 0 THEN 0 ELSE cid[active]
  BY DEF id
<1> QED  BY <1>6, <1>7, HandlerKeeps

LEMMA QuietKeeps ==
  ASSUME IInv, HandlerStep, Answers(status', down'), UNCHANGED <<lease, gen, carrier>>,
         owner' \in [Jobs -> 0..MaxBreaks + 1],
         \A j \in Jobs : failures = 0 /\ status'[j] \in Active => owner'[j] = owner[j],
         \A j \in Jobs : status'[j] \in Active => status[j] \in Active
  PROVE  IInv'
<1> DEFINE id == IF active = 0 THEN 0 ELSE cid[active]
<1>1. status' \in [Jobs -> JobStatus] /\ down' \in Downs
  BY DEF Answers
<1>2. Dispatched(status', down')
  BY <1>1, NoDispatch DEF IInv
<1>3. Belong(status', active, id)
  BY DEF Belong, IInv, Types, TableTypes
<1> QED  BY <1>2, <1>3, HandlerKeeps

LEMMA SameAnswers == ASSUME IInv PROVE Answers(status, down)
BY DEF Answers, IInv, Types, TableTypes, NetTypes, StoredInv

LEMMA OnRelayIncomingKeeps == ASSUME IInv, OnRelayIncoming PROVE IInv'
<1>1. HandlerStep
  <2>1. UpKeeps(up, up', Msg("close", NoJob, 0))
    BY SameUpKeeps DEF OnRelayIncoming, IInv, Types, NetTypes
  <2> QED  BY <2>1 DEF HandlerStep, OnRelayIncoming, sockVars, boundVars, IInv, Types,
                       ServerTypes, TableTypes
<1>2. Redispatch(status, down)
  BY DEF OnRelayIncoming
<1> QED  BY <1>1, <1>2, SameAnswers, RedispatchKeeps

LEMMA OnRelayCancelKeeps ==
  ASSUME IInv, NEW j \in Jobs, OnRelayCancel(j)
  PROVE  IInv'
<1>1. HandlerStep
  <2>1. UpKeeps(up, up', Msg("close", NoJob, 0))
    BY SameUpKeeps DEF OnRelayCancel, IInv, Types, NetTypes
  <2>2. quarantined' \in BOOLEAN
    BY DEF OnRelayCancel, IInv, Types, TableTypes
  <2>3. cancels' \in Nat
    BY DEF OnRelayCancel, IInv, Types, ServerTypes
  <2> QED  BY <2>1, <2>2, <2>3 DEF HandlerStep, OnRelayCancel, sockVars, boundVars
<1>2. UNCHANGED <<lease, gen, owner, carrier>>
  BY DEF OnRelayCancel
<1>3. Answers(status', down') /\ \A i \in Jobs : status'[i] \in Active => status[i] \in Active
  <2>1. CASE status[j] = "Acked" /\ status' = [status EXCEPT ![j] = "Cancelled"] /\ UNCHANGED down
    <3>1. /\ status' \in [Jobs -> JobStatus] /\ status'[j] = "Cancelled"
          /\ \A i \in Jobs : i # j => status'[i] = status[i]
      BY <2>1 DEF IInv, Types, TableTypes, JobStatus
    <3>2. "Cancelled" \notin Active /\ Answers(status', down)
      BY <2>1, <3>1, AnswerTable DEF Active
    <3> QED  BY <2>1, <3>1, <3>2
  <2>2. ASSUME status[j] \in Active, NEW submitted \in BOOLEAN,
               submitted => active # 0,
               status' = [status EXCEPT ![j] = IF submitted THEN "Cancelling"
                                               ELSE "CancelUnknown"],
               down' = IF submitted THEN Sent(down, active, Msg("cancel", j, lease[j]))
                       ELSE down
        PROVE  Answers(status', down')
               /\ \A i \in Jobs : status'[i] \in Active => status[i] \in Active
    <3>1. /\ status' \in [Jobs -> JobStatus] /\ status'[j] \in {"Cancelling", "CancelUnknown"}
          /\ \A i \in Jobs : i # j => status'[i] = status[i]
      BY <2>2 DEF IInv, Types, TableTypes, JobStatus, Active
    <3>2. Answers(status', down)
      BY <2>2, <3>1, AnswerTable DEF Active
    <3>3. submitted => active \in Connections /\ down' = Reply(active, "cancel", j)
      BY <2>2 DEF Reply, IInv, Types, ServerTypes
    <3>4. "cancel" \in DownTypes
      BY DEF DownTypes
    <3>5. submitted => Answers(status', down')
      BY <3>2, <3>3, <3>4, AnswerSent
    <3> QED  BY <2>2, <3>1, <3>2, <3>5
  <2>3. ASSUME active = 0, NEW s, s \in {FALSE} PROVE s \in BOOLEAN /\ (s => active # 0)
    BY <2>3
  <2>4. ASSUME active # 0, NEW s \in Submitted(active) PROVE s \in BOOLEAN
    BY <2>4 DEF Submitted
  <2> QED  BY <2>1, <2>2, <2>3, <2>4 DEF OnRelayCancel
<1> QED  BY <1>1, <1>2, <1>3, QuietKeeps DEF IInv, Types, TableTypes

-----------------------------------------------------------------------------
(* The daemon: the frames of the active connection.                        *)

LEMMA FrameTaken ==
  ASSUME IInv, NEW k \in Connections, up[k] # <<>>, up' = Rest(k), NEW m
  PROVE  /\ UpKeeps(up, up', m)
         /\ \A i \in 1..Len(up'[k]) : up'[k][i].type # "hello"
         /\ 1 \in 1..Len(up[k]) /\ Head(up[k]) = up[k][1] /\ Head(up[k]) \in UpMsg
         /\ sock[k] # "unused"
<1>1. up \in Ups /\ HelloIsFirst /\ UnusedIsEmpty
  BY DEF IInv, SocketInv, Types, NetTypes
<1> QED  BY <1>1, RestKeeps DEF UnusedIsEmpty

LEMMA HandlesStep ==
  ASSUME IInv, NEW k \in Connections, NEW type, NEW j \in Jobs, Handles(k, type, j),
         quarantined' \in BOOLEAN
  PROVE  /\ HandlerStep /\ active = k
         /\ type = "not_started" => NotStartedSent(j)
<1>1. up[k] # <<>> /\ Head(up[k]).type = type /\ up' = Rest(k) /\ Head(up[k]).job = j
  BY DEF Handles, Queued
<1>2. UpKeeps(up, up', Msg("close", NoJob, 0)) /\ 1 \in 1..Len(up[k]) /\ Head(up[k]) = up[k][1]
  BY <1>1, FrameTaken
<1>3. type = "not_started" => NotStartedSent(j)
  BY <1>1, <1>2 DEF NotStartedSent
<1>4. HandlerStep
  BY <1>2 DEF Handles, HandlerStep, sockVars, boundVars, IInv, Types, ServerTypes
<1> QED  BY <1>3, <1>4 DEF Handles

LEMMA StaleFrameKeeps ==
  ASSUME IInv, NEW k \in Connections, StaleFrame(k)
  PROVE  IInv'
<1>1. UpKeeps(up, up', Msg("close", NoJob, 0))
  BY FrameTaken DEF StaleFrame
<1>2. HandlerStep
  BY <1>1 DEF HandlerStep, StaleFrame, jobVars, sockVars, boundVars, IInv, Types,
              ServerTypes, TableTypes
<1>3. status' = status /\ down' = down /\ UNCHANGED <<lease, gen, owner, carrier>>
  BY DEF StaleFrame, jobVars
<1>4. Answers(status', down')
  BY <1>3, SameAnswers
<1> QED  BY <1>2, <1>3, <1>4, QuietKeeps DEF IInv, Types, TableTypes

\* A handler that refuses: the table stays, and a frame may answer.
LEMMA RefusalKeeps ==
  ASSUME IInv, HandlerStep, Unchanged, NEW k \in Connections, NEW j \in Jobs,
         NEW type \in {"error", "superseded"}, down' \in {down, Reply(k, type, j)}
  PROVE  IInv'
<1>1. Answers(status, down) /\ type \in DownTypes /\ type # "job" /\ type # "result_stored"
  BY SameAnswers DEF DownTypes
<1>2. Answers(status, Reply(k, type, j))
  BY <1>1, AnswerSent
<1>3. Answers(status', down')
  BY <1>1, <1>2 DEF Unchanged
<1> QED  BY <1>3, QuietKeeps DEF Unchanged, IInv, Types, TableTypes

LEMMA OnExecutionAcceptedKeeps ==
  ASSUME IInv, NEW k \in Connections, NEW j \in Jobs, OnExecutionAccepted(k, j)
  PROVE  IInv'
<1>1. quarantined' \in BOOLEAN
  BY DEF OnExecutionAccepted, Unchanged, IInv, Types, TableTypes
<1>2. HandlerStep /\ active = k
  BY <1>1, HandlesStep DEF OnExecutionAccepted
<1>3. CASE HasLease(k, j) /\ status[j] \in {"Dispatching", "Running"}
  <2>1. /\ status' = [status EXCEPT ![j] = "Running"]
        /\ owner' = [owner EXCEPT ![j] = IF status[j] = "Dispatching" THEN cid[k] ELSE @]
        /\ UNCHANGED <<lease, gen, carrier, down>>
    BY <1>3 DEF OnExecutionAccepted
  <2>2. /\ status' \in [Jobs -> JobStatus] /\ status'[j] = "Running"
        /\ \A i \in Jobs : i # j => status'[i] = status[i]
    BY <2>1 DEF IInv, Types, TableTypes, JobStatus, Active
  <2>3. Answers(status', down)
    BY <1>3, <2>2, AnswerTable
  <2>4. owner' \in [Jobs -> 0..MaxBreaks + 1]
    BY <2>1 DEF IInv, Types, TableTypes, ServerTypes
  <2>5. failures = 0 => owner[j] = cid[k]
    BY <1>2, <1>3 DEF IInv, SocketInv, ActiveBelong, Active
  <2>6. \A i \in Jobs : failures = 0 /\ status'[i] \in Active => owner'[i] = owner[i]
    BY <2>1, <2>5 DEF IInv, Types, TableTypes
  <2>7. \A i \in Jobs : status'[i] \in Active => status[i] \in Active
    BY <1>3, <2>2 DEF Active
  <2> QED  BY <1>2, <2>1, <2>3, <2>4, <2>6, <2>7, QuietKeeps
<1>4. CASE ~(HasLease(k, j) /\ status[j] \in {"Dispatching", "Running"})
  <2>1. Unchanged /\ down' = Reply(k, "error", j)
    BY <1>4 DEF OnExecutionAccepted
  <2> QED  BY <1>2, <2>1, RefusalKeeps
<1> QED  BY <1>3, <1>4

LEMMA OnExecutionResultKeeps ==
  ASSUME IInv, NEW k \in Connections, NEW j \in Jobs, OnExecutionResult(k, j)
  PROVE  IInv'
<1>1. quarantined' \in BOOLEAN
  BY DEF OnExecutionResult, Unchanged, IInv, Types, TableTypes
<1>2. HandlerStep
  BY <1>1, HandlesStep DEF OnExecutionResult
<1>3. CASE Unchanged /\ down' \in {Reply(k, "error", j), Reply(k, "superseded", j)}
  BY <1>2, <1>3, RefusalKeeps
<1>4. CASE /\ status[j] \in {"Dispatching", "Running", "Succeeded"}
           /\ Redispatch([status EXCEPT ![j] = "Succeeded"], Reply(k, "result_stored", j))
  <2> DEFINE st == [status EXCEPT ![j] = "Succeeded"]
  <2>1. /\ st \in [Jobs -> JobStatus] /\ st[j] = "Succeeded"
        /\ \A i \in Jobs : i # j => st[i] = status[i]
    BY DEF IInv, Types, TableTypes, JobStatus
  <2> HIDE DEF st
  <2>2. Answers(st, down)
    BY <1>4, <2>1, AnswerTable
  <2>3. Answers(st, Reply(k, "result_stored", j))
    BY <2>1, <2>2, AnswerSent DEF DownTypes
  <2>4. \A i \in Jobs : st[i] \in Active => status[i] \in Active
    BY <2>1 DEF Active
  <2> QED  BY <1>2, <1>4, <2>3, <2>4, RedispatchKeeps DEF st
<1> QED  BY <1>3, <1>4 DEF OnExecutionResult

LEMMA OnExecutionFailedKeeps ==
  ASSUME IInv, NEW k \in Connections, NEW j \in Jobs, OnExecutionFailed(k, j)
  PROVE  IInv'
<1>1. quarantined' \in BOOLEAN
  BY DEF OnExecutionFailed, Unchanged, IInv, Types, TableTypes
<1>2. HandlerStep
  BY <1>1, HandlesStep DEF OnExecutionFailed
<1>3. CASE Unchanged /\ down' \in {Reply(k, "error", j), Reply(k, "superseded", j)}
  BY <1>2, <1>3, RefusalKeeps
<1> DEFINE ended == status[j] \in {"Succeeded", "Failed", "Interrupted"}
           stored == status[j] # "Interrupted"
           st == IF ended THEN status ELSE [status EXCEPT ![j] = "Failed"]
<1>4. CASE ~CancelRequested(j) /\ Redispatch(st, IF stored THEN Reply(k, "result_stored", j) ELSE down)
  <2>1. /\ st \in [Jobs -> JobStatus]
        /\ \A i \in Jobs : i # j => st[i] = status[i]
        /\ st[j] = IF ended THEN status[j] ELSE "Failed"
    BY DEF IInv, Types, TableTypes, JobStatus
  <2> HIDE DEF st
  <2>2. st[j] = "Cancelled" => status[j] \in {"Cancelled", "Acked"} \/ NotStartedSent(j)
    BY <2>1
  <2>3. Answers(st, down)
    BY <2>1, <2>2, AnswerTable
  <2>4. stored => Answers(st, Reply(k, "result_stored", j))
    BY <2>1, <2>3, AnswerSent DEF DownTypes
  <2>5. \A i \in Jobs : st[i] \in Active => status[i] \in Active
    BY <2>1 DEF Active
  <2> QED  BY <1>2, <1>4, <2>3, <2>4, <2>5, RedispatchKeeps
<1> QED  BY <1>3, <1>4 DEF OnExecutionFailed

LEMMA OnExecutionCancelledKeeps ==
  ASSUME IInv, NEW k \in Connections, NEW j \in Jobs, OnExecutionCancelled(k, j)
  PROVE  IInv'
<1>1. quarantined' \in BOOLEAN
  BY DEF OnExecutionCancelled, NoReply, Unchanged, IInv, Types, TableTypes
<1>2. HandlerStep
  BY <1>1, HandlesStep DEF OnExecutionCancelled
<1>3. CASE /\ status[j] = "Cancelling" /\ status' = [status EXCEPT ![j] = "CancelUnknown"]
           /\ UNCHANGED <<lease, gen, owner, carrier, down>>
  <2>1. /\ status' \in [Jobs -> JobStatus] /\ status'[j] = "CancelUnknown"
        /\ \A i \in Jobs : i # j => status'[i] = status[i]
    BY <1>3 DEF IInv, Types, TableTypes, JobStatus
  <2>2. Answers(status', down)
    BY <1>3, <2>1, AnswerTable
  <2>3. \A i \in Jobs : status'[i] \in Active => status[i] \in Active
    BY <2>1 DEF Active
  <2> QED  BY <1>2, <1>3, <2>2, <2>3, QuietKeeps DEF IInv, Types, TableTypes
<1>4. CASE NoReply
  BY <1>2, <1>4, RefusalKeeps DEF NoReply
<1> QED  BY <1>3, <1>4 DEF OnExecutionCancelled

LEMMA OnExecutionNotStartedKeeps ==
  ASSUME IInv, NEW k \in Connections, NEW j \in Jobs, OnExecutionNotStarted(k, j)
  PROVE  IInv'
<1>1. quarantined' \in BOOLEAN
  BY DEF OnExecutionNotStarted, NoReply, Unchanged, IInv, Types, TableTypes
<1>2. HandlerStep /\ NotStartedSent(j)
  BY <1>1, HandlesStep DEF OnExecutionNotStarted
<1>3. CASE /\ status[j] = "Cancelling" /\ Redispatch([status EXCEPT ![j] = "Cancelled"], down)
  <2> DEFINE st == [status EXCEPT ![j] = "Cancelled"]
  <2>1. /\ st \in [Jobs -> JobStatus] /\ st[j] = "Cancelled"
        /\ \A i \in Jobs : i # j => st[i] = status[i]
    BY DEF IInv, Types, TableTypes, JobStatus
  <2> HIDE DEF st
  <2>2. Answers(st, down)
    BY <1>2, <1>3, <2>1, AnswerTable
  <2>3. \A i \in Jobs : st[i] \in Active => status[i] \in Active
    BY <2>1 DEF Active
  <2> QED  BY <1>2, <1>3, <2>2, <2>3, RedispatchKeeps DEF st
<1>4. CASE NoReply
  BY <1>2, <1>4, RefusalKeeps DEF NoReply
<1> QED  BY <1>3, <1>4 DEF OnExecutionNotStarted

-----------------------------------------------------------------------------
(* The daemon: closes and hellos.                                          *)

\* What every transition of the sockets has in common.
Transition ==
  /\ UNCHANGED <<adapterVars, started, breaks>>
  /\ UpKeeps(up, up', Msg("close", NoJob, 0))
  /\ \A k \in Connections : link'[k] = link[k] \/ link'[k] = "cut"
  /\ \A k \in Connections : sock'[k] = "unused" <=> sock[k] = "unused"
  /\ \A k \in Connections : sock[k] = "open" =>
       sock'[k] = "open" \/ \A i \in 1..Len(up'[k]) : up'[k][i].type # "hello"

LEMMA TransitionKeeps ==
  ASSUME IInv, Transition, NEW st, NEW dn, Answers(st, dn), Dispatched(st, dn),
         TableTypes', ServerTypes', link' \in [Connections -> {"unused", "up", "cut"}],
         ReadyIsActive', HandledIsFenced', ActiveBelong'
  PROVE  IInv'
<1>1. Types'
  <2>1. NetTypes'
    BY DEF Transition, Dispatched, UpKeeps, NetTypes
  <2>2. TaskTypes' /\ HermesTypes'
    BY DEF Transition, adapterVars, IInv, Types, TaskTypes, HermesTypes
  <2> QED  BY <2>1, <2>2 DEF Types
<1>2. UnusedIsEmpty' /\ HelloIsFirst'
  <2>1. \A k \in Connections : link[k] # "up" /\ down[k] = <<>> => down'[k] = <<>>
    BY DEF Dispatched, Answers
  <2> QED  BY <2>1, NetKeeps DEF Transition
<1>3. StoredInv' /\ \A j \in Jobs : JobInv(j)'
  <2>1. Msg("close", NoJob, 0).type # "not_started"
    BY DEF Msg
  <2> QED  BY <2>1, DaemonKeepsJobs DEF Transition, adapterVars
<1> QED  BY <1>1, <1>2, <1>3 DEF IInv, SocketInv

\* settleDisconnected leaves no active job to the generation.
LEMMA SettledAnswers ==
  ASSUME IInv, NEW k \in Connections
  PROVE  /\ Answers(Settled(k), down)
         /\ \A j \in Jobs : Settled(k)[j] \in Active =>
              Settled(k)[j] = status[j] /\ (handled[k] \/ owner[j] # cid[k])
<1> DEFINE st == Settled(k)
<1>1. \A j \in Jobs : \/ st[j] = status[j] /\ (st[j] \in Active => handled[k] \/ owner[j] # cid[k])
                      \/ status[j] \in Active /\ st[j] \in {"CancelUnknown", "Interrupted"}
  BY DEF Settled, Affected
<1>2. st \in [Jobs -> JobStatus]
  <2>1. \A j \in Jobs : st[j] \in JobStatus
    BY <1>1 DEF IInv, Types, TableTypes, JobStatus
  <2>2. st = [j \in Jobs |-> st[j]]
    BY DEF Settled
  <2> HIDE DEF st
  <2> QED  BY <2>1, <2>2
<1> HIDE DEF st
<1>3. \A c \in Connections : \A i \in 1..Len(down[c]) : Durable(down[c][i], st, lease)
  <2>1. ASSUME NEW m, Durable(m, status, lease) PROVE Durable(m, st, lease)
    BY <1>1, <2>1 DEF Durable, Active
  <2> QED  BY <2>1 DEF IInv, StoredInv
<1>4. Answers(st, down)
  BY <1>1, <1>2, <1>3 DEF Answers, IInv, Types, NetTypes
<1>5. \A j \in Jobs : st[j] \in Active => st[j] = status[j] /\ (handled[k] \/ owner[j] # cid[k])
  BY <1>1 DEF Active
<1> QED  BY <1>4, <1>5 DEF st

LEMMA SettleTypes ==
  ASSUME IInv, NEW k \in Connections, SettleDisconnected(k)
  PROVE  /\ quarantined' \in BOOLEAN /\ handled' \in [Connections -> BOOLEAN]
         /\ failures' \in Nat
         /\ \A c \in Connections : c # k => handled'[c] = handled[c]
         /\ \/ handled'[k] /\ failures' = failures
            \/ handled' = handled /\ ~handled[k] /\ failures' = failures + 1
<1>1. handled \in [Connections -> BOOLEAN] /\ quarantined \in BOOLEAN /\ failures \in Nat
  BY DEF IInv, Types, TableTypes, ServerTypes
<1>2. CASE /\ quarantined' = (quarantined \/ (~handled[k] /\ Affected(k) # {}))
           /\ handled' = [handled EXCEPT ![k] = TRUE] /\ failures' = failures
  <2>1. quarantined' \in BOOLEAN
    BY <1>2
  <2> QED  BY <1>1, <1>2, <2>1
<1>3. CASE /\ ~handled[k] /\ failures' = failures + 1
           /\ UNCHANGED <<quarantined, handled>>
  BY <1>1, <1>3
<1> QED  BY <1>2, <1>3 DEF SettleDisconnected

LEMMA OnCloseKeeps ==
  ASSUME IInv, NEW k \in Connections, OnClose(k)
  PROVE  IInv'
<1>1. up[k] # <<>> /\ Head(up[k]).type = "close" /\ up' = Rest(k)
  BY DEF OnClose, Queued
<1>2. /\ UpKeeps(up, up', Msg("close", NoJob, 0)) /\ sock[k] # "unused"
      /\ \A i \in 1..Len(up'[k]) : up'[k][i].type # "hello"
  BY <1>1, FrameTaken
<1>3. /\ sock' = [sock EXCEPT ![k] = IF active = k THEN "fenced" ELSE @]
      /\ active' = IF active = k THEN 0 ELSE active
      /\ UNCHANGED <<lease, gen, owner, cid, link, down, adapterVars, started, carrier,
                     cancels, breaks>>
  BY DEF OnClose
<1>4. /\ sock \in [Connections -> {"unused", "open", "ready", "fenced"}]
      /\ active \in {0} \cup {c \in Connections : sock[c] = "ready"}
      /\ ReadyIsActive /\ HandledIsFenced /\ ActiveBelong
  BY DEF IInv, SocketInv, Types, ServerTypes
<1>5. /\ sock' \in [Connections -> {"unused", "open", "ready", "fenced"}]
      /\ \A c \in Connections : c # k => sock'[c] = sock[c]
      /\ sock'[k] = IF active = k THEN "fenced" ELSE sock[k]
  BY <1>3, <1>4
<1>6. active' \in {0} \cup {c \in Connections : sock'[c] = "ready"}
  BY <1>3, <1>4, <1>5
<1>7. ReadyIsActive'
  BY <1>3, <1>4, <1>5 DEF ReadyIsActive
<1>8. Transition
  BY <1>2, <1>3, <1>4, <1>5 DEF Transition
<1>9. link' \in [Connections -> {"unused", "up", "cut"}]
  BY <1>3 DEF IInv, Types, NetTypes
<1>10. CASE sock[k] = "open"
  <2>1. UNCHANGED <<status, quarantined, handled, failures>> /\ active # k
    BY <1>4, <1>10, Bounds DEF OnClose
  <2>2. TableTypes' /\ ServerTypes'
    BY <1>3, <1>5, <1>6, <2>1 DEF IInv, Types, TableTypes, ServerTypes
  <2>3. HandledIsFenced'
    BY <1>4, <1>5, <2>1 DEF HandledIsFenced
  <2>4. ActiveBelong'
    BY <1>3, <1>4, <2>1 DEF ActiveBelong
  <2>5. Answers(status, down) /\ status \in [Jobs -> JobStatus] /\ down \in Downs
    BY SameAnswers DEF Answers
  <2>6. Dispatched(status, down)
    BY <1>3, <2>1, <2>5, NoDispatch DEF IInv
  <2> QED  BY <1>7, <1>8, <1>9, <2>2, <2>3, <2>4, <2>5, <2>6, TransitionKeeps
<1>11. CASE sock[k] # "open"
  <2>1. SettleDisconnected(k) /\ status' = IF handled'[k] THEN Settled(k) ELSE status
    BY <1>11 DEF OnClose
  <2>2. /\ quarantined' \in BOOLEAN /\ handled' \in [Connections -> BOOLEAN]
        /\ failures' \in Nat
        /\ \A c \in Connections : c # k => handled'[c] = handled[c]
        /\ \/ handled'[k] /\ failures' = failures
           \/ handled' = handled /\ ~handled[k] /\ failures' = failures + 1
    BY <2>1, SettleTypes
  <2>3. Answers(status, down) /\ Answers(Settled(k), down)
    BY SameAnswers, SettledAnswers
  <2>4. Answers(status', down) /\ status' \in [Jobs -> JobStatus] /\ down \in Downs
    BY <2>1, <2>3 DEF Answers
  <2>5. TableTypes' /\ ServerTypes'
    BY <1>3, <1>5, <1>6, <2>2, <2>4 DEF IInv, Types, TableTypes, ServerTypes
  <2>6. sock'[k] = "fenced"
    BY <1>2, <1>4, <1>5, <1>11 DEF ReadyIsActive
  <2>7. HandledIsFenced'
    BY <1>4, <1>5, <2>2, <2>6 DEF HandledIsFenced
  <2>8. ActiveBelong'
    <3>1. SUFFICES ASSUME failures' = 0, NEW j \in Jobs, status'[j] \in Active
                   PROVE  active' # 0 /\ carrier'[j] = active' /\ owner'[j] = cid'[active']
      BY DEF ActiveBelong
    <3>2. handled'[k] /\ failures = 0 /\ failures \in Nat
      BY <2>2, <3>1 DEF IInv, Types, ServerTypes
    <3>3. status[j] \in Active /\ (handled[k] \/ owner[j] # cid[k])
      BY <2>1, <3>1, <3>2, SettledAnswers
    <3>4. active # 0 /\ carrier[j] = active /\ owner[j] = cid[active]
      BY <1>4, <3>2, <3>3 DEF ActiveBelong
    <3>5. active # k
      BY <1>4, <3>3, <3>4 DEF HandledIsFenced
    <3> QED  BY <1>3, <3>4, <3>5
  <2>9. Dispatched(status', down)
    BY <1>3, <2>4, NoDispatch DEF IInv
  <2> QED  BY <1>7, <1>8, <1>9, <2>4, <2>5, <2>7, <2>8, <2>9, TransitionKeeps
<1> QED  BY <1>10, <1>11

LEMMA ConflictHelloKeeps ==
  ASSUME IInv, NEW k \in Connections, ConflictHello(k)
  PROVE  IInv'
<1>1. up[k] # <<>> /\ up' \in Cut(Rest(k), k) /\ link' = [link EXCEPT ![k] = "cut"]
      /\ UNCHANGED <<jobVars, sockVars, down, adapterVars, started, carrier, boundVars>>
  BY DEF ConflictHello, Queued
<1>2. up \in Ups /\ HelloIsFirst
  BY DEF IInv, SocketInv, Types, NetTypes
<1>3. UpKeeps(up, Rest(k), Msg("close", NoJob, 0))
  BY <1>1, <1>2, RestKeeps
<1>4. Rest(k) \in Ups
  BY <1>3 DEF UpKeeps
<1>5. UpKeeps(Rest(k), up', Msg("close", NoJob, 0))
  BY <1>1, <1>4, CutKeeps
<1>6. UpKeeps(up, up', Msg("close", NoJob, 0))
  BY <1>3, <1>5, UpKeepsTwice
<1>7. /\ link' \in [Connections -> {"unused", "up", "cut"}]
      /\ \A c \in Connections : link'[c] = link[c] \/ link'[c] = "cut"
  BY <1>1 DEF IInv, Types, NetTypes
<1>8. Transition
  BY <1>1, <1>6, <1>7 DEF Transition, sockVars, boundVars
<1>9. TableTypes' /\ ServerTypes'
  BY <1>1 DEF jobVars, sockVars, boundVars, IInv, Types, TableTypes, ServerTypes
<1>10. ReadyIsActive' /\ HandledIsFenced' /\ ActiveBelong'
  BY <1>1 DEF jobVars, sockVars, boundVars, IInv, SocketInv, ReadyIsActive, HandledIsFenced,
              ActiveBelong
<1>11. Answers(status, down) /\ status \in [Jobs -> JobStatus] /\ down \in Downs
  BY SameAnswers DEF Answers
<1>12. Dispatched(status, down)
  BY <1>1, <1>11, NoDispatch DEF jobVars, IInv
<1> QED  BY <1>7, <1>8, <1>9, <1>10, <1>11, <1>12, TransitionKeeps

\* A hello is at the head of an open connection, and names its process.
LEMMA HelloIsOpen ==
  ASSUME IInv, NEW k \in Connections, Queued(k, "hello")
  PROVE  /\ up[k] # <<>> /\ sock[k] = "open" /\ active # k
         /\ Head(up[k]).lease \in 1..MaxBreaks + 1 /\ Head(up[k]).lease \in 0..MaxBreaks + 1
         /\ UpKeeps(up, Rest(k), Msg("close", NoJob, 0))
         /\ \A i \in 1..Len(Rest(k)[k]) : Rest(k)[k][i].type # "hello"
<1>1. up[k] # <<>> /\ up \in Ups /\ HelloIsFirst
  BY DEF Queued, IInv, SocketInv, Types, NetTypes
<1>2. /\ UpKeeps(up, Rest(k), Msg("close", NoJob, 0))
      /\ \A i \in 1..Len(Rest(k)[k]) : Rest(k)[k][i].type # "hello"
      /\ 1 \in 1..Len(up[k]) /\ Head(up[k]) = up[k][1]
  BY <1>1, RestKeeps
<1>3. sock[k] = "open" /\ Head(up[k]).lease \in 1..MaxBreaks + 1
  BY <1>1, <1>2 DEF HelloIsFirst, Queued
<1>4. Head(up[k]).lease \in 0..MaxBreaks + 1
  BY <1>3, Bounds
<1>5. active # k
  BY <1>3, Bounds DEF IInv, Types, ServerTypes
<1> QED  BY <1>1, <1>2, <1>3, <1>4, <1>5

\* The new generation is ready, with st the table after the settlement of the old.
LEMMA BecomeReadyKeeps ==
  ASSUME IInv, NEW k \in Connections, NEW st, Answers(st, down), BecomeReady(k, st),
         sock[k] = "open", Head(up[k]).lease \in 0..MaxBreaks + 1,
         Transition, quarantined' \in BOOLEAN,
         sock' \in [Connections -> {"unused", "open", "ready", "fenced"}],
         \A c \in Connections : sock'[c] = "ready" <=> c = k,
         handled' \in [Connections -> BOOLEAN], HandledIsFenced',
         link' \in [Connections -> {"unused", "up", "cut"}],
         UNCHANGED <<cancels, failures>>,
         failures = 0 => \A j \in Jobs : st[j] \notin Active
  PROVE  IInv'
<1> DEFINE id == Head(up[k]).lease
           m == Msg("hello_ack", NoJob, 0)
           dn == Sent(down, k, m)
<1>1. /\ cid' = [cid EXCEPT ![k] = id] /\ active' = k
      /\ DispatchPending(st, k, id, quarantined', dn)
  BY DEF BecomeReady
<1>2. m \in DownMsg /\ m.type = "hello_ack"
  BY DEF DownMsg, DownTypes, Msg
<1>3. down \in Downs /\ Types /\ st \in [Jobs -> JobStatus]
  BY DEF IInv, Types, NetTypes, Answers
<1> HIDE DEF id, m
<1>4. /\ dn \in Downs
      /\ \A c \in Connections : link[c] # "up" => dn[c] = down[c]
      /\ \A c \in Connections : \A i \in 1..Len(dn[c]) :
           (i \in 1..Len(down[c]) /\ dn[c][i] = down[c][i]) \/ dn[c][i] = m
  BY <1>2, <1>3, SentAdds
<1>5. \A j \in Jobs : /\ NoneBrings(down, j) => NoneBrings(dn, j)
                      /\ OneBrings(down, j) => OneBrings(dn, j)
  <2>1. \A j \in Jobs : ~IsJob(m, j)
    BY <1>2 DEF IsJob
  <2> QED  BY <1>2, <1>3, <2>1, SentBrings
<1> HIDE DEF dn
<1>6. \A c \in Connections : \A i \in 1..Len(dn[c]) : Durable(dn[c][i], st, lease)
  <2>1. Durable(m, st, lease)
    BY <1>2 DEF Durable
  <2> QED  BY <1>4, <2>1 DEF Answers
<1>7. Answers(st, dn)
  BY <1>4, <1>5, <1>6 DEF Answers
<1>8. Dispatched(st, dn) /\ Belong(st, k, id)
  <2>1. k \in {0} \cup Connections /\ id \in 0..MaxBreaks + 1
    BY DEF id
  <2> QED  BY <1>1, <1>3, <1>4, <2>1, DispatchPendingDispatches
<1>9. TableTypes'
  BY <1>8, TableAfterDispatch
<1>10. ServerTypes'
  <2>1. cid' \in [Connections -> 0..MaxBreaks + 1]
    BY <1>1 DEF id, IInv, Types, ServerTypes
  <2>2. active' \in {0} \cup {c \in Connections : sock'[c] = "ready"}
    BY <1>1
  <2> QED  BY <2>1, <2>2 DEF IInv, Types, ServerTypes
<1>11. ReadyIsActive'
  BY <1>1 DEF ReadyIsActive
<1>12. ActiveBelong'
  <2>1. cid'[k] = id /\ k # 0
    BY <1>1, Bounds DEF IInv, Types, ServerTypes
  <2> QED  BY <1>1, <1>8, <2>1 DEF ActiveBelong, Belong
<1> QED  BY <1>7, <1>8, <1>9, <1>10, <1>11, <1>12, TransitionKeeps

LEMMA AcceptHelloKeeps ==
  ASSUME IInv, NEW k \in Connections, AcceptHello(k)
  PROVE  IInv'
<1>1. /\ Queued(k, "hello") /\ active = 0 /\ up' = Rest(k)
      /\ sock' = [sock EXCEPT ![k] = "ready"] /\ UNCHANGED quarantined
      /\ BecomeReady(k, status)
      /\ UNCHANGED <<handled, link, adapterVars, started, boundVars>>
  BY DEF AcceptHello
<1>2. /\ sock[k] = "open" /\ Head(up[k]).lease \in 0..MaxBreaks + 1
      /\ UpKeeps(up, up', Msg("close", NoJob, 0))
      /\ \A i \in 1..Len(up'[k]) : up'[k][i].type # "hello"
  BY <1>1, HelloIsOpen
<1>3. /\ sock \in [Connections -> {"unused", "open", "ready", "fenced"}]
      /\ ReadyIsActive /\ HandledIsFenced /\ ActiveBelong
      /\ handled \in [Connections -> BOOLEAN]
  BY DEF IInv, SocketInv, Types, ServerTypes
<1>4. /\ sock' \in [Connections -> {"unused", "open", "ready", "fenced"}]
      /\ \A c \in Connections : c # k => sock'[c] = sock[c]
      /\ sock'[k] = "ready"
  BY <1>1, <1>3
<1>5. Transition
  BY <1>1, <1>2, <1>4 DEF Transition, boundVars
<1>6. \A c \in Connections : sock'[c] = "ready" <=> c = k
  BY <1>1, <1>3, <1>4, Bounds DEF ReadyIsActive
<1>7. HandledIsFenced'
  BY <1>1, <1>2, <1>3, <1>4 DEF HandledIsFenced
<1>8. failures = 0 => \A j \in Jobs : status[j] \notin Active
  BY <1>1, <1>3 DEF ActiveBelong
<1>9. /\ quarantined' \in BOOLEAN /\ link' \in [Connections -> {"unused", "up", "cut"}]
      /\ handled' \in [Connections -> BOOLEAN] /\ UNCHANGED <<cancels, failures>>
  BY <1>1, <1>3 DEF boundVars, IInv, Types, TableTypes, NetTypes
<1> QED  BY <1>1, <1>2, <1>4, <1>5, <1>6, <1>7, <1>8, <1>9, SameAnswers, BecomeReadyKeeps

LEMMA TakeoverHelloKeeps ==
  ASSUME IInv, NEW k \in Connections, TakeoverHello(k)
  PROVE  IInv'
<1> DEFINE a == active
<1>1. /\ Queued(k, "hello") /\ a # 0
      /\ up' \in Cut(Rest(k), a) /\ link' = [link EXCEPT ![a] = "cut"]
      /\ SettleDisconnected(a)
      /\ UNCHANGED <<adapterVars, started, cancels, breaks>>
  BY DEF TakeoverHello
<1>2. /\ up[k] # <<>> /\ sock[k] = "open" /\ a # k
      /\ Head(up[k]).lease \in 0..MaxBreaks + 1
      /\ UpKeeps(up, Rest(k), Msg("close", NoJob, 0))
      /\ \A i \in 1..Len(Rest(k)[k]) : Rest(k)[k][i].type # "hello"
  BY <1>1, HelloIsOpen
<1>3. /\ sock \in [Connections -> {"unused", "open", "ready", "fenced"}]
      /\ a \in Connections /\ sock[a] = "ready"
      /\ ReadyIsActive /\ HandledIsFenced /\ ActiveBelong /\ UnusedIsEmpty
      /\ handled \in [Connections -> BOOLEAN] /\ failures \in Nat
      /\ link \in [Connections -> {"unused", "up", "cut"}]
  BY <1>1 DEF IInv, SocketInv, Types, ServerTypes, NetTypes
<1> HIDE DEF a
<1>4. Rest(k) \in Ups
  BY <1>2 DEF UpKeeps
<1>5. UpKeeps(Rest(k), up', Msg("close", NoJob, 0))
  BY <1>1, <1>3, <1>4, CutKeeps
<1>6. UpKeeps(up, up', Msg("close", NoJob, 0))
  BY <1>2, <1>5, UpKeepsTwice
<1>7. \A i \in 1..Len(up'[k]) : up'[k][i].type # "hello"
  BY <1>2, <1>5 DEF UpKeeps
<1>8. /\ link' \in [Connections -> {"unused", "up", "cut"}]
      /\ \A c \in Connections : link'[c] = link[c] \/ link'[c] = "cut"
  BY <1>1, <1>3
<1>9. /\ quarantined' \in BOOLEAN /\ handled' \in [Connections -> BOOLEAN]
      /\ failures' \in Nat
      /\ \A c \in Connections : c # a => handled'[c] = handled[c]
      /\ \/ handled'[a] /\ failures' = failures
         \/ handled' = handled /\ ~handled[a] /\ failures' = failures + 1
  BY <1>1, <1>3, SettleTypes
<1>10. ~handled[a]
  BY <1>3 DEF HandledIsFenced
<1>11. CASE handled'[a]
  <2>1. /\ sock' = [sock EXCEPT ![a] = "fenced", ![k] = "ready"]
        /\ BecomeReady(k, Settled(a))
    BY <1>11 DEF TakeoverHello, a
  <2>2. /\ sock' \in [Connections -> {"unused", "open", "ready", "fenced"}]
        /\ \A c \in Connections : c # k /\ c # a => sock'[c] = sock[c]
        /\ sock'[k] = "ready" /\ sock'[a] = "fenced"
    BY <1>2, <1>3, <2>1
  <2>3. Transition
    BY <1>1, <1>2, <1>3, <1>6, <1>7, <1>8, <2>2 DEF Transition
  <2>4. \A c \in Connections : sock'[c] = "ready" <=> c = k
    BY <1>2, <1>3, <2>2 DEF ReadyIsActive, a
  <2>5. HandledIsFenced'
    BY <1>2, <1>3, <1>9, <2>2 DEF HandledIsFenced
  <2>6. UNCHANGED <<cancels, failures>>
    BY <1>1, <1>9, <1>10, <1>11
  <2>7. Answers(Settled(a), down)
    BY <1>3, SettledAnswers
  <2>8. ASSUME failures = 0, NEW j \in Jobs, Settled(a)[j] \in Active PROVE FALSE
    <3>1. status[j] \in Active /\ owner[j] # cid[a]
      BY <1>3, <1>10, <2>8, SettledAnswers
    <3> QED  BY <1>3, <2>8, <3>1 DEF ActiveBelong, a
  <2> QED  BY <1>2, <1>8, <1>9, <2>1, <2>2, <2>3, <2>4, <2>5, <2>6, <2>7, <2>8,
              BecomeReadyKeeps
<1>12. CASE ~handled'[a]
  <2>1. /\ sock' = [sock EXCEPT ![a] = "fenced"] /\ active' = 0
        /\ UNCHANGED <<status, lease, gen, owner, cid, down, carrier>>
    BY <1>12 DEF TakeoverHello, a
  <2>2. /\ sock' \in [Connections -> {"unused", "open", "ready", "fenced"}]
        /\ \A c \in Connections : c # a => sock'[c] = sock[c]
        /\ sock'[a] = "fenced"
    BY <1>3, <2>1
  <2>3. Transition
    BY <1>1, <1>3, <1>6, <1>8, <2>2 DEF Transition
  <2>4. ReadyIsActive'
    BY <1>3, <2>2 DEF ReadyIsActive, a
  <2>5. HandledIsFenced'
    BY <1>3, <1>9, <2>2 DEF HandledIsFenced
  <2>6. ActiveBelong'
    BY <1>3, <1>9, <1>12 DEF ActiveBelong
  <2>7. TableTypes' /\ ServerTypes'
    BY <1>1, <1>9, <2>1, <2>2 DEF IInv, Types, TableTypes, ServerTypes
  <2>8. Answers(status, down) /\ status \in [Jobs -> JobStatus] /\ down \in Downs
    BY SameAnswers DEF Answers
  <2>9. Dispatched(status, down)
    BY <2>1, <2>8, NoDispatch DEF IInv
  <2> QED  BY <1>8, <2>3, <2>4, <2>5, <2>6, <2>7, <2>8, <2>9, TransitionKeeps
<1> QED  BY <1>11, <1>12

-----------------------------------------------------------------------------
(* The adapter.                                                            *)

LinkStep ==
  /\ link' \in [Connections -> {"unused", "up", "cut"}]
  /\ \A k \in Connections : link'[k] = link[k] \/ link'[k] = "cut"

\* What every step of the adapter and of the network has in common; m is the
\* frame it may send.
AdapterStep(m) ==
  /\ UNCHANGED <<daemonVars, sock, cancels, failures>>
  /\ LinkStep /\ UpKeeps(up, up', m) /\ Shrinks(down, down')
  /\ TaskTypes' /\ HermesTypes'

JobStays(j) ==
  /\ task'[j] = task[j] /\ started'[j] = started[j]
  /\ offer'[j] = offer[j] /\ rejected'[j] = rejected[j]
  /\ j \in offerCancel' <=> j \in offerCancel

LEMMA JobKeeps ==
  ASSUME IInv, NEW j \in Jobs, NEW m, AdapterStep(m), BegunByOne(j)',
         status[j] = "Acked" => JobStays(j),
         Harmless(j) => Harmless(j)',
         m.type = "not_started" /\ m.job = j => status[j] # "Acked" /\ Harmless(j)'
  PROVE  JobInv(j)'
<1>1. AckedIsFresh(j) /\ WithdrawnIsHarmless(j) /\ down \in Downs /\ status' = status
  BY DEF IInv, JobInv, Types, NetTypes, AdapterStep, daemonVars, jobVars
<1>2. NoneBrings(down, j) => NoneBrings(down', j)
  BY <1>1, ShrinksKeeps DEF AdapterStep
<1>3. NotStartedSent(j)' => NotStartedSent(j) \/ (m.type = "not_started" /\ m.job = j)
  BY NotStartedKeeps DEF AdapterStep
<1>4. AckedIsFresh(j)'
  BY <1>1, <1>2, <1>3 DEF AckedIsFresh, JobStays
<1>5. WithdrawnIsHarmless(j)'
  BY <1>1, <1>3 DEF WithdrawnIsHarmless
<1> QED  BY <1>4, <1>5 DEF JobInv

LEMMA StaysKeeps ==
  ASSUME IInv, NEW j \in Jobs, NEW m, AdapterStep(m), JobStays(j),
         m.type = "not_started" => m.job # j
  PROVE  JobInv(j)'
<1>1. BegunByOne(j) /\ down \in Downs
  BY DEF IInv, JobInv, Types, NetTypes
<1>2. /\ NoneBrings(down, j) => NoneBrings(down', j)
      /\ OneBrings(down, j) => OneBrings(down', j)
  BY <1>1, ShrinksKeeps DEF AdapterStep
<1>3. BegunByOne(j)'
  BY <1>1, <1>2 DEF BegunByOne, JobStays
<1>4. Harmless(j) => Harmless(j)'
  BY <1>2 DEF Harmless, JobStays
<1> QED  BY <1>3, <1>4, JobKeeps

LEMMA AdapterKeeps ==
  ASSUME IInv, NEW m, AdapterStep(m), \A j \in Jobs : JobInv(j)'
  PROVE  IInv'
<1>1. UNCHANGED <<status, lease, gen, owner, quarantined, carrier, active, cid, handled, sock,
                  cancels, failures>>
  BY DEF AdapterStep, daemonVars, jobVars
<1>2. down \in Downs /\ StoredInv /\ SocketInv /\ Types
  BY DEF IInv, Types, NetTypes
<1>3. Types'
  <2>1. TableTypes' /\ ServerTypes'
    BY <1>1, <1>2 DEF Types, TableTypes, ServerTypes
  <2>2. NetTypes'
    BY DEF AdapterStep, LinkStep, UpKeeps, Shrinks, NetTypes
  <2> QED  BY <2>1, <2>2 DEF AdapterStep, Types
<1>4. UnusedIsEmpty' /\ HelloIsFirst'
  <2>1. \A k \in Connections : down[k] = <<>> => down'[k] = <<>>
    BY <1>2, ShrinksKeeps DEF AdapterStep
  <2> QED  BY <1>1, <2>1, NetKeeps DEF AdapterStep, LinkStep
<1>5. ReadyIsActive' /\ HandledIsFenced' /\ ActiveBelong'
  BY <1>1, <1>2 DEF SocketInv, ReadyIsActive, HandledIsFenced, ActiveBelong
<1>6. StoredInv'
  <2>1. \A k \in Connections : \A i \in 1..Len(down'[k]) :
          \E h \in 1..Len(down[k]) : down'[k][i] = down[k][h]
    BY <1>2, ShrinksKeeps DEF AdapterStep
  <2>2. ASSUME NEW k \in Connections, NEW i \in 1..Len(down'[k])
        PROVE  Durable(down'[k][i], status', lease')
    <3>1. PICK h \in 1..Len(down[k]) : down'[k][i] = down[k][h]
      BY <2>1
    <3>2. Durable(down[k][h], status, lease)
      BY <1>2 DEF StoredInv
    <3> QED  BY <1>1, <3>1, <3>2
  <2> QED  BY <2>2 DEF StoredInv
<1> QED  BY <1>3, <1>4, <1>5, <1>6 DEF IInv, SocketInv

\* A step that begins, ends and cancels nothing.
LEMMA IdleStepKeeps ==
  ASSUME IInv, NEW m, AdapterStep(m), m.type # "not_started",
         UNCHANGED <<task, started, offer, offerCancel, rejected>>
  PROVE  IInv'
<1>1. \A j \in Jobs : JobStays(j)
  BY DEF JobStays
<1> QED  BY <1>1, StaysKeeps, AdapterKeeps

LEMMA TaskMeans ==
  ASSUME IInv, NEW j \in Jobs, task[j] # "none"
  PROVE  /\ status[j] # "Acked" /\ NoneBrings(down, j) /\ started[j] = 0
         /\ taskWs[j] \in Connections
         /\ offer[j] # 0 => task[j] \in {"new", "accepting"}
         /\ rejected[j] # 0 => task[j] = "rejecting"
BY DEF IInv, JobInv, AckedIsFresh, BegunByOne, Types, TaskTypes

\* A step of job j's task, or a frame that finds it.
LEMMA TaskStepKeeps ==
  ASSUME IInv, NEW j \in Jobs, NEW m, AdapterStep(m), task[j] # "none",
         \A i \in Jobs \ {j} : JobStays(i),
         started'[j] \in {0, 1}, started'[j] = 1 => task'[j] = "none",
         offer'[j] # 0 => task'[j] \in {"new", "accepting"},
         rejected'[j] # 0 => task'[j] = "rejecting",
         m.type = "not_started" => m.job = j,
         (task[j] \in {"new", "accepting"} => j \in offerCancel) \/ m.type = "not_started" =>
           started'[j] = 0 /\ (task'[j] \in {"new", "accepting"} => j \in offerCancel')
  PROVE  IInv'
<1>1. /\ status[j] # "Acked" /\ NoneBrings(down, j) /\ started[j] = 0 /\ down \in Downs
  BY TaskMeans DEF IInv, Types, NetTypes
<1>2. NoneBrings(down', j)
  BY <1>1, ShrinksKeeps DEF AdapterStep
<1>3. OneBrings(down', j)
  BY <1>2 DEF NoneBrings, OneBrings
<1>4. BegunByOne(j)'
  BY <1>2, <1>3 DEF BegunByOne
<1>5. (task[j] \in {"new", "accepting"} => j \in offerCancel) \/ m.type = "not_started"
        => Harmless(j)'
  BY <1>2 DEF Harmless
<1>6. JobInv(j)'
  BY <1>1, <1>4, <1>5, JobKeeps DEF Harmless
<1>7. \A i \in Jobs \ {j} : JobInv(i)'
  BY StaysKeeps
<1> QED  BY <1>6, <1>7, AdapterKeeps

LEMMA PushSends ==
  ASSUME IInv, NEW c \in 0..MaxConnections, NEW type \in UpTypes, type # "hello",
         NEW j \in Jobs, NEW l \in 0..MaxAttempts, up' = Push(up, c, Msg(type, j, l))
  PROVE  /\ UpKeeps(up, up', Msg(type, j, l))
         /\ Msg(type, j, l).type = type /\ Msg(type, j, l).job = j
<1> DEFINE m == Msg(type, j, l)
<1>1. l \in Nat /\ up \in Ups
  BY Bounds DEF IInv, Types, NetTypes
<1>2. m \in UpMsg /\ m.type = type /\ m.job = j
  BY <1>1 DEF UpMsg, Msg
<1> HIDE DEF m
<1>3. UpKeeps(up, Push(up, c, m), m)
  BY <1>1, <1>2, PushKeeps
<1> QED  BY <1>2, <1>3 DEF m

LEMMA CutSends ==
  ASSUME IInv, NEW c \in Connections, CutLink(c), NEW m
  PROVE  LinkStep /\ UpKeeps(up, up', m)
<1>1. up \in Ups
  BY DEF IInv, Types, NetTypes
<1>2. UpKeeps(up, up', m)
  BY <1>1, CutKeeps DEF CutLink
<1> QED  BY <1>2 DEF CutLink, LinkStep, IInv, Types, NetTypes

LEMMA NetStays ==
  ASSUME IInv, NEW m
  PROVE  /\ UNCHANGED up => UpKeeps(up, up', m)
         /\ UNCHANGED down => Shrinks(down, down')
         /\ UNCHANGED link => LinkStep
BY SameUpKeeps, SameShrinks DEF LinkStep, IInv, Types, NetTypes

NoMsg == Msg("close", NoJob, 0)

LEMMA NoMsgSays == NoMsg.type = "close"
BY DEF NoMsg, Msg

LEMMA LostConnectionKeeps == ASSUME IInv, LostConnection PROVE IInv'
<1>1. ws \in Connections /\ down \in Downs /\ TaskTypes /\ HermesTypes
  BY Bounds DEF LostConnection, IInv, Types, HermesTypes, NetTypes, Connections
<1>2. Shrinks(down, down')
  BY <1>1, ClearShrinks DEF LostConnection
<1>3. TaskTypes'
  BY <1>1 DEF LostConnection, boundVars, TaskTypes
<1>4. HermesTypes'
  <2>1. 0 \in 0..MaxConnections
    BY Bounds
  <2> QED  BY <1>1, <2>1 DEF LostConnection, boundVars, HermesTypes
<1>5. AdapterStep(NoMsg)
  BY <1>2, <1>3, <1>4, NetStays DEF AdapterStep, LostConnection, boundVars
<1> QED  BY <1>5, NoMsgSays, IdleStepKeeps DEF LostConnection

LEMMA ReceivesMeans ==
  ASSUME IInv, NEW type, Receives(type)
  PROVE  /\ ws \in Connections /\ down[ws] # <<>> /\ Head(down[ws]).type = type
         /\ Shrinks(down, down') /\ UNCHANGED <<daemonVars, sock, cancels, failures>>
         /\ UNCHANGED <<pid, ws, started, breaks>>
<1>1. ws \in Connections /\ down[ws] # <<>> /\ down \in Downs
  BY Bounds DEF Receives, IInv, Types, HermesTypes, NetTypes, Connections
<1>2. Shrinks(down, down')
  BY <1>1, TailShrinks DEF Receives
<1> QED  BY <1>1, <1>2 DEF Receives, boundVars

LEMMA ReceiveHelloAckKeeps == ASSUME IInv, ReceiveHelloAck PROVE IInv'
<1>1. Receives("hello_ack")
  BY DEF ReceiveHelloAck
<1>2. TaskTypes' /\ HermesTypes'
  BY DEF ReceiveHelloAck, Receives, boundVars, IInv, Types, TaskTypes, HermesTypes
<1>3. AdapterStep(NoMsg)
  BY <1>1, <1>2, ReceivesMeans, NetStays DEF AdapterStep, ReceiveHelloAck
<1>4. UNCHANGED <<task, started, offer, offerCancel, rejected>>
  BY <1>1, ReceivesMeans DEF ReceiveHelloAck
<1> QED  BY <1>3, <1>4, NoMsgSays, IdleStepKeeps

-----------------------------------------------------------------------------
(* The adapter: its listener.                                              *)

\* The frame that brought job j was the only one.
LEMMA JobFrameTaken ==
  ASSUME IInv, NEW j \in Jobs, NEW c \in Connections, down[c] # <<>>,
         IsJob(Head(down[c]), j), down' = [down EXCEPT ![c] = Tail(@)]
  PROVE  ~NoneBrings(down, j) /\ NoneBrings(down', j)
<1>1. down \in Downs /\ OneBrings(down, j)
  BY DEF IInv, JobInv, BegunByOne, Types, NetTypes
<1>2. down[c] \in Seq(DownMsg) /\ Len(down[c]) \in Nat \ {0}
  BY <1>1, EmptySeq, LenProperties DEF Downs
<1>3. Head(down[c]) = down[c][1] /\ 1 \in 1..Len(down[c])
  BY <1>2
<1>4. /\ Tail(down[c]) \in Seq(DownMsg) /\ Len(Tail(down[c])) = Len(down[c]) - 1
      /\ \A i \in 1..Len(Tail(down[c])) : Tail(down[c])[i] = down[c][i + 1]
  BY <1>2, HeadTailProperties
<1> DEFINE t == Tail(down[c])
<1>5. down'[c] = t /\ \A k \in Connections \ {c} : down'[k] = down[k]
  BY <1>1 DEF Downs
<1> HIDE DEF t
<1>6. ASSUME NEW i \in 1..Len(down'[c])
      PROVE  i + 1 \in 1..Len(down[c]) /\ down'[c][i] = down[c][i + 1] /\ i + 1 # 1
  <2>1. i \in 1..Len(t) /\ Len(t) = Len(down[c]) - 1 /\ down'[c][i] = t[i]
    BY <1>4, <1>5, <1>6 DEF t
  <2>2. t[i] = down[c][i + 1]
    BY <1>4, <2>1 DEF t
  <2> QED  BY <1>2, <2>1, <2>2
<1>7. ASSUME NEW k \in Connections, NEW i \in 1..Len(down'[k]) PROVE ~IsJob(down'[k][i], j)
  <2>1. CASE k = c
    BY <1>1, <1>3, <1>6, <1>7, <2>1 DEF OneBrings
  <2>2. CASE k # c
    BY <1>1, <1>3, <1>5, <1>7, <2>2 DEF OneBrings
  <2> QED  BY <2>1, <2>2
<1> QED  BY <1>3, <1>7 DEF NoneBrings

LEMMA ReceiveJobKeeps ==
  ASSUME IInv, NEW j \in Jobs, NEW l \in 1..MaxAttempts, ReceiveJob(j, l)
  PROVE  IInv'
<1>1. Receives("job") /\ Head(down[ws]).job = j /\ down' = [down EXCEPT ![ws] = Tail(@)]
  BY DEF ReceiveJob, Receives
<1>2. /\ ws \in Connections /\ down[ws] # <<>> /\ IsJob(Head(down[ws]), j)
      /\ Shrinks(down, down') /\ UNCHANGED <<daemonVars, sock, cancels, failures>>
      /\ UNCHANGED <<pid, ws, started, breaks>>
  BY <1>1, ReceivesMeans DEF IsJob
<1>3. ~NoneBrings(down, j) /\ NoneBrings(down', j)
  BY <1>1, <1>2, JobFrameTaken
<1>4. /\ AckedIsFresh(j) /\ BegunByOne(j) /\ WithdrawnIsHarmless(j)
      /\ TaskTypes /\ HermesTypes
  BY DEF IInv, JobInv, Types
<1>5. task[j] = "none" /\ started[j] = 0 /\ offer[j] = 0 /\ rejected[j] = 0
  BY <1>3, <1>4 DEF BegunByOne, TaskTypes
<1>6. /\ offer' = [offer EXCEPT ![j] = l] /\ task' = [task EXCEPT ![j] = "new"]
      /\ taskWs' = [taskWs EXCEPT ![j] = ws]
      /\ UNCHANGED <<link, up, ready, offerCancel, held, source, cancelled, final, rejected,
                     rejCancel, run>>
  BY <1>5 DEF ReceiveJob
<1>7. /\ task'[j] = "new" /\ taskWs'[j] = ws /\ offer'[j] = l
      /\ \A i \in Jobs \ {j} : task'[i] = task[i] /\ taskWs'[i] = taskWs[i] /\ offer'[i] = offer[i]
  BY <1>4, <1>6 DEF TaskTypes
<1>8. TaskTypes'
  <2>1. l \in 0..MaxAttempts /\ ws \in 0..MaxConnections
    BY <1>2, Bounds
  <2>2. \A i \in Jobs : task'[i] # "none" => taskWs'[i] \in Connections
    BY <1>2, <1>4, <1>7 DEF TaskTypes
  <2>3. /\ task' \in [Jobs -> {"none", "new", "accepting", "rejecting"}]
        /\ taskWs' \in [Jobs -> 0..MaxConnections]
        /\ offer' \in [Jobs -> 0..MaxAttempts]
    BY <1>4, <1>6, <2>1 DEF TaskTypes
  <2> QED  BY <1>2, <1>4, <1>6, <2>2, <2>3 DEF TaskTypes
<1>9. HermesTypes'
  BY <1>2, <1>4, <1>6 DEF HermesTypes
<1>10. AdapterStep(NoMsg)
  BY <1>2, <1>6, <1>8, <1>9, NetStays DEF AdapterStep
<1>11. JobInv(j)'
  <2>1. ~Harmless(j) /\ status[j] # "Acked"
    BY <1>3, <1>4 DEF Harmless, AckedIsFresh
  <2>2. OneBrings(down', j)
    BY <1>3 DEF NoneBrings, OneBrings
  <2>3. BegunByOne(j)'
    BY <1>2, <1>3, <1>5, <1>6, <1>7, <2>2 DEF BegunByOne
  <2> QED  BY <1>10, <2>1, <2>3, NoMsgSays, JobKeeps
<1>12. \A i \in Jobs \ {j} : JobInv(i)'
  <2>1. \A i \in Jobs \ {j} : JobStays(i)
    BY <1>2, <1>6, <1>7 DEF JobStays
  <2> QED  BY <1>10, <2>1, NoMsgSays, StaysKeeps
<1> QED  BY <1>10, <1>11, <1>12, AdapterKeeps

LEMMA ReceiveCancelKeeps ==
  ASSUME IInv, NEW j \in Jobs, NEW l \in 1..MaxAttempts, ReceiveCancel(j, l)
  PROVE  IInv'
<1> DEFINE isRejected == rejected[j] = l
           isOffered == ~isRejected /\ offer[j] = l
           isStarted == ~isRejected /\ ~isOffered /\ held[j] = l /\ j \in source
<1>1. /\ Receives("cancel")
      /\ rejCancel' = IF isRejected THEN rejCancel \cup {j} ELSE rejCancel
      /\ offerCancel' = IF isOffered THEN offerCancel \cup {j} ELSE offerCancel
      /\ cancelled' = IF isStarted THEN cancelled \cup {j} ELSE cancelled
      /\ up' = IF isStarted THEN Push(up, ws, Msg("cancelled", j, l))
               ELSE IF isRejected \/ isOffered THEN Push(up, ws, Msg("not_started", j, l))
               ELSE up
      /\ UNCHANGED <<link, ready, task, taskWs, offer, held, source, final, rejected, run>>
  BY DEF ReceiveCancel
<1>2. /\ ws \in Connections /\ ws \in 0..MaxConnections
      /\ Shrinks(down, down') /\ UNCHANGED <<daemonVars, sock, cancels, failures>>
      /\ UNCHANGED <<pid, ws, started, breaks>>
  BY <1>1, ReceivesMeans, Bounds
<1>3. TaskTypes' /\ HermesTypes'
  <2>1. TaskTypes /\ HermesTypes
    BY DEF IInv, Types
  <2>2. rejCancel' \subseteq Jobs /\ offerCancel' \subseteq Jobs /\ cancelled' \subseteq Jobs
    BY <1>1, <2>1 DEF TaskTypes, HermesTypes
  <2> HIDE DEF isRejected, isOffered, isStarted
  <2> QED  BY <1>1, <1>2, <2>1, <2>2 DEF TaskTypes, HermesTypes
<1>4. l \in 0..MaxAttempts /\ l # 0
  BY Bounds
<1>5. CASE isStarted
  <2> DEFINE m == Msg("cancelled", j, l)
  <2>1. UpKeeps(up, up', m) /\ m.type = "cancelled"
    BY <1>1, <1>2, <1>4, <1>5, PushSends DEF UpTypes
  <2> HIDE DEF m
  <2>2. AdapterStep(m)
    BY <1>1, <1>2, <1>3, <2>1, NetStays DEF AdapterStep
  <2>3. UNCHANGED <<task, started, offer, offerCancel, rejected>>
    BY <1>1, <1>2, <1>5
  <2> QED  BY <2>1, <2>2, <2>3, IdleStepKeeps
<1>6. CASE ~isStarted /\ (isRejected \/ isOffered)
  <2> DEFINE m == Msg("not_started", j, l)
  <2>1. UpKeeps(up, up', m) /\ m.type = "not_started" /\ m.job = j
    BY <1>1, <1>2, <1>4, <1>6, PushSends DEF UpTypes
  <2> HIDE DEF m
  <2>2. AdapterStep(m)
    BY <1>1, <1>2, <1>3, <2>1, NetStays DEF AdapterStep
  <2>3. /\ offer[j] # 0 => task[j] \in {"new", "accepting"}
        /\ rejected[j] # 0 => task[j] = "rejecting"
    BY DEF IInv, JobInv, BegunByOne
  <2>4. task[j] # "none" /\ (task[j] \in {"new", "accepting"} => isOffered)
    BY <1>4, <1>6, <2>3
  <2>5. started[j] = 0
    BY <2>4, TaskMeans
  <2>6. \A i \in Jobs \ {j} : JobStays(i)
    BY <1>1, <1>2 DEF JobStays
  <2>7. task[j] \in {"new", "accepting"} => j \in offerCancel'
    BY <1>1, <2>4
  <2> QED  BY <1>1, <1>2, <2>1, <2>2, <2>3, <2>4, <2>5, <2>6, <2>7, TaskStepKeeps
<1>7. CASE ~isStarted /\ ~isRejected /\ ~isOffered
  <2>1. UNCHANGED <<task, started, offer, offerCancel, rejected, up>>
    BY <1>1, <1>2, <1>7
  <2>2. AdapterStep(NoMsg)
    BY <1>1, <1>2, <1>3, <2>1, NetStays DEF AdapterStep
  <2> QED  BY <2>1, <2>2, NoMsgSays, IdleStepKeeps
<1> QED  BY <1>5, <1>6, <1>7

\* The end of a rejection, with or without a last frame.
LEMMA EndRejectionKeeps ==
  ASSUME IInv, NEW j \in Jobs, task[j] = "rejecting", EndRejection(j),
         NEW m, LinkStep, UpKeeps(up, up', m), m.type = "not_started" => m.job = j,
         Shrinks(down, down'), UNCHANGED <<daemonVars, sock, cancels, failures>>,
         UNCHANGED <<pid, ws, started, breaks, ready, taskWs, offer, offerCancel, held, final>>,
         cancelled' \subseteq Jobs, source' \subseteq Jobs,
         run' \in [Jobs -> {"none", "running", "sending"}]
  PROVE  IInv'
<1>1. TaskTypes /\ HermesTypes
  BY DEF IInv, Types
<1>2. /\ task' = [task EXCEPT ![j] = "none"] /\ rejected' = [rejected EXCEPT ![j] = 0]
      /\ rejCancel' = rejCancel \ {j}
  BY DEF EndRejection
<1>3. /\ task'[j] = "none" /\ rejected'[j] = 0
      /\ \A i \in Jobs \ {j} : task'[i] = task[i] /\ rejected'[i] = rejected[i]
  BY <1>1, <1>2 DEF TaskTypes
<1>4. TaskTypes'
  <2>1. 0 \in 0..MaxAttempts
    BY Bounds
  <2>2. \A i \in Jobs : task'[i] # "none" => taskWs'[i] \in Connections
    BY <1>1, <1>3 DEF TaskTypes
  <2>3. /\ task' \in [Jobs -> {"none", "new", "accepting", "rejecting"}]
        /\ rejected' \in [Jobs -> 0..MaxAttempts] /\ rejCancel' \subseteq Jobs
    BY <1>1, <1>2, <2>1 DEF TaskTypes
  <2> QED  BY <1>1, <2>2, <2>3 DEF TaskTypes
<1>5. HermesTypes'
  BY <1>1 DEF HermesTypes
<1>6. AdapterStep(m)
  BY <1>4, <1>5 DEF AdapterStep
<1>7. \A i \in Jobs \ {j} : JobStays(i)
  BY <1>3 DEF JobStays
<1>8. started[j] = 0 /\ offer[j] = 0
  <2>1. started[j] = 0 /\ (offer[j] # 0 => task[j] \in {"new", "accepting"})
    BY TaskMeans
  <2> QED  BY <2>1
<1> QED  BY <1>3, <1>6, <1>7, <1>8, TaskStepKeeps

LEMMA WiderRange ==
  ASSUME NEW m \in Nat, NEW a \in 0..m, NEW b \in 0..m, a <= b, NEW p \in 1..a + 1
  PROVE  p \in 1..b + 1
OBVIOUS

\* A step of what Hermes processes: the job's task is not involved.
LEMMA ProcessingKeeps ==
  ASSUME IInv, NEW m, LinkStep, UpKeeps(up, up', m), m.type # "not_started",
         Shrinks(down, down'), UNCHANGED <<daemonVars, sock, cancels, failures>>,
         UNCHANGED <<pid, ws, started, ready, task, taskWs, offer, offerCancel,
                     rejected, rejCancel>>,
         breaks' \in 0..MaxBreaks, breaks <= breaks', held' \in [Jobs -> 0..MaxAttempts],
         final' \subseteq Jobs, cancelled' \subseteq Jobs, source' \subseteq Jobs,
         run' \in [Jobs -> {"none", "running", "sending"}]
  PROVE  IInv'
<1>1. TaskTypes /\ HermesTypes
  BY DEF IInv, Types
<1>2. TaskTypes'
  BY <1>1 DEF TaskTypes
<1>3. HermesTypes'
  <2>1. pid \in 1..breaks + 1 /\ breaks \in 0..MaxBreaks /\ pid' = pid
    BY <1>1 DEF HermesTypes
  <2>2. MaxBreaks \in Nat /\ breaks' \in 0..MaxBreaks /\ breaks <= breaks'
    BY Bounds
  <2>3. pid \in 1..breaks' + 1
    BY <2>1, <2>2, WiderRange
  <2> QED  BY <1>1, <2>1, <2>2, <2>3 DEF HermesTypes
<1>4. AdapterStep(m)
  BY <1>2, <1>3 DEF AdapterStep
<1> QED  BY <1>4, IdleStepKeeps

LEMMA HermesTypesNow ==
  ASSUME IInv
  PROVE  /\ breaks \in 0..MaxBreaks /\ breaks <= breaks
         /\ held \in [Jobs -> 0..MaxAttempts] /\ ws \in 0..MaxConnections
         /\ final \subseteq Jobs /\ cancelled \subseteq Jobs /\ source \subseteq Jobs
         /\ run \in [Jobs -> {"none", "running", "sending"}]
BY Bounds DEF IInv, Types, HermesTypes

LEMMA ReceiveStoredKeeps ==
  ASSUME IInv, NEW j \in Jobs, ReceiveStored(j)
  PROVE  IInv'
<1>1. Receives("result_stored")
      /\ UNCHANGED <<ready, taskWs, offer, offerCancel, held, cancelled, final>>
  BY DEF ReceiveStored
<1>2. /\ Shrinks(down, down') /\ UNCHANGED <<daemonVars, sock, cancels, failures>>
      /\ UNCHANGED <<pid, ws, started, breaks>>
  BY <1>1, ReceivesMeans
<1>3. CASE /\ task[j] = "rejecting" /\ EndRejection(j)
           /\ CutLink(taskWs[j]) \/ UNCHANGED <<link, up>>
           /\ UNCHANGED <<source, run>>
  <2>1. taskWs[j] \in Connections
    BY <1>3, TaskMeans
  <2>2. LinkStep /\ UpKeeps(up, up', NoMsg)
    BY <1>3, <2>1, CutSends, NetStays
  <2> QED  BY <1>1, <1>2, <1>3, <2>2, HermesTypesNow, NoMsgSays, EndRejectionKeeps
<1>4. CASE /\ run' \in {run, [run EXCEPT ![j] = "running"]} /\ source' \in {source, source \ {j}}
           /\ UNCHANGED <<task, rejected, rejCancel, link, up>>
  <2>1. LinkStep /\ UpKeeps(up, up', NoMsg)
    BY <1>4, NetStays
  <2>2. run' \in [Jobs -> {"none", "running", "sending"}] /\ source' \subseteq Jobs
    BY <1>4, HermesTypesNow
  <2> QED  BY <1>1, <1>2, <1>4, <2>1, <2>2, HermesTypesNow, NoMsgSays, ProcessingKeeps
<1> QED  BY <1>3, <1>4 DEF ReceiveStored

LEMMA ReceiveSupersededKeeps ==
  ASSUME IInv, NEW j \in Jobs, ReceiveSuperseded(j)
  PROVE  IInv'
<1>1. Receives("superseded")
      /\ UNCHANGED <<link, ready, taskWs, offer, offerCancel, held, final>>
  BY DEF ReceiveSuperseded
<1>2. /\ Shrinks(down, down') /\ UNCHANGED <<daemonVars, sock, cancels, failures>>
      /\ UNCHANGED <<pid, ws, started, breaks>>
  BY <1>1, ReceivesMeans
<1>3. LinkStep
  BY <1>1, NetStays
<1>4. CASE /\ task[j] = "rejecting" /\ EndRejection(j)
           /\ up' = IF j \in rejCancel THEN up
                    ELSE Push(up, taskWs[j], Msg("not_started", j, rejected[j]))
           /\ UNCHANGED <<source, cancelled, run>>
  <2>1. taskWs[j] \in 0..MaxConnections /\ rejected[j] \in 0..MaxAttempts
    BY DEF IInv, Types, TaskTypes
  <2>2. CASE up' = up
    BY <1>1, <1>2, <1>3, <1>4, <2>2, HermesTypesNow, NetStays, NoMsgSays, EndRejectionKeeps
  <2>3. CASE up' = Push(up, taskWs[j], Msg("not_started", j, rejected[j]))
    <3> DEFINE m == Msg("not_started", j, rejected[j])
    <3>1. UpKeeps(up, up', m) /\ m.job = j
      BY <2>1, <2>3, PushSends DEF UpTypes
    <3> HIDE DEF m
    <3> QED  BY <1>1, <1>2, <1>3, <1>4, <3>1, HermesTypesNow, EndRejectionKeeps
  <2> QED  BY <1>4, <2>2, <2>3
<1>5. CASE /\ cancelled' \in {cancelled, cancelled \cup {j}} /\ source' \in {source, source \ {j}}
           /\ run' \in {run, [run EXCEPT ![j] = "running"]}
           /\ UNCHANGED <<task, rejected, rejCancel, up>>
  <2>1. UpKeeps(up, up', NoMsg)
    BY <1>5, NetStays
  <2>2. /\ run' \in [Jobs -> {"none", "running", "sending"}] /\ source' \subseteq Jobs
        /\ cancelled' \subseteq Jobs
    BY <1>5, HermesTypesNow
  <2> QED  BY <1>1, <1>2, <1>3, <1>5, <2>1, <2>2, HermesTypesNow, NoMsgSays, ProcessingKeeps
<1> QED  BY <1>4, <1>5 DEF ReceiveSuperseded

\* A waiter that fails, wherever its error comes from.
LEMMA UnavailableKeeps ==
  ASSUME IInv, NEW j \in Jobs,
         Unavailable(j) \/ UNCHANGED <<task, rejected, rejCancel, link, up, run>>,
         Shrinks(down, down'), UNCHANGED <<daemonVars, sock, cancels, failures>>,
         UNCHANGED <<pid, ws, started, breaks>>,
         UNCHANGED <<ready, taskWs, offer, offerCancel, held, source, cancelled, final>>
  PROVE  IInv'
<1>1. CASE task[j] = "rejecting" /\ EndRejection(j) /\ CutLink(taskWs[j]) /\ UNCHANGED run
  <2>1. taskWs[j] \in Connections
    BY <1>1, TaskMeans
  <2>2. LinkStep /\ UpKeeps(up, up', NoMsg)
    BY <1>1, <2>1, CutSends
  <2> QED  BY <1>1, <2>2, HermesTypesNow, NoMsgSays, EndRejectionKeeps
<1>2. CASE /\ run' \in {run, [run EXCEPT ![j] = "running"]}
           /\ UNCHANGED <<task, rejected, rejCancel, link, up>>
  <2>1. LinkStep /\ UpKeeps(up, up', NoMsg)
    BY <1>2, NetStays
  <2>2. run' \in [Jobs -> {"none", "running", "sending"}]
    BY <1>2, HermesTypesNow
  <2> QED  BY <1>2, <2>1, <2>2, HermesTypesNow, NoMsgSays, ProcessingKeeps
<1> QED  BY <1>1, <1>2 DEF Unavailable

LEMMA ReceiveErrorKeeps ==
  ASSUME IInv, NEW j \in Jobs, ReceiveError(j)
  PROVE  IInv'
<1>1. /\ Receives("error")
      /\ UNCHANGED <<ready, taskWs, offer, offerCancel, held, source, cancelled, final>>
      /\ Unavailable(j) \/ UNCHANGED <<task, rejected, rejCancel, link, up, run>>
  BY DEF ReceiveError
<1>2. /\ Shrinks(down, down') /\ UNCHANGED <<daemonVars, sock, cancels, failures>>
      /\ UNCHANGED <<pid, ws, started, breaks>>
  BY <1>1, ReceivesMeans
<1> QED  BY <1>1, <1>2, UnavailableKeeps

LEMMA StoreTimeoutKeeps ==
  ASSUME IInv, NEW j \in Jobs, StoreTimeout(j)
  PROVE  IInv'
<1>1. /\ Unavailable(j)
      /\ UNCHANGED <<daemonVars, sock, down, pid, ws, ready, taskWs, offer, offerCancel, held,
                     source, cancelled, final, started, boundVars>>
  BY DEF StoreTimeout
<1> QED  BY <1>1, NetStays, UnavailableKeeps DEF boundVars

-----------------------------------------------------------------------------
(* The adapter: the task of a job, and Hermes.                             *)

\* What a step of a task leaves alone.
LEMMA JobStepMeans ==
  ASSUME IInv, JobStep
  PROVE  /\ UNCHANGED <<daemonVars, sock, cancels, failures, breaks>>
         /\ UNCHANGED <<pid, ws, ready, taskWs>> /\ Shrinks(down, down')
         /\ TaskTypes /\ HermesTypes /\ 0 \in 0..MaxAttempts
BY NetStays, Bounds DEF JobStep, boundVars, IInv, Types

LEMMA ReleaseOfferMeans ==
  ASSUME IInv, NEW j \in Jobs, ReleaseOffer(j)
  PROVE  /\ offer' \in [Jobs -> 0..MaxAttempts] /\ offerCancel' \subseteq Jobs
         /\ offer'[j] = 0
         /\ \A i \in Jobs \ {j} : offer'[i] = offer[i] /\ (i \in offerCancel' <=> i \in offerCancel)
<1>1. offer \in [Jobs -> 0..MaxAttempts] /\ offerCancel \subseteq Jobs
  BY DEF IInv, Types, TaskTypes
<1> QED  BY <1>1, Bounds DEF ReleaseOffer

\* What a step of a task does to its job, when it does not begin it.
LEMMA TaskMoves ==
  ASSUME IInv, NEW j \in Jobs, task[j] \in {"new", "accepting"}, JobStep,
         NEW t \in {"none", "accepting", "rejecting"}, task' = [task EXCEPT ![j] = t],
         ReleaseOffer(j) \/ UNCHANGED <<offer, offerCancel>>,
         t # "accepting" => ReleaseOffer(j),
         t = "accepting" => j \notin offerCancel,
         rejected' \in {rejected, [rejected EXCEPT ![j] = offer[j]]},
         rejected' # rejected => t = "rejecting",
         UNCHANGED <<rejCancel, started>>,
         held' \in [Jobs -> 0..MaxAttempts], source' \subseteq Jobs, cancelled' \subseteq Jobs,
         final' \subseteq Jobs, run' = run,
         LinkStep, NEW m, UpKeeps(up, up', m), m.type # "not_started"
  PROVE  IInv'
<1>1. /\ UNCHANGED <<daemonVars, sock, cancels, failures, breaks>>
      /\ UNCHANGED <<pid, ws, ready, taskWs>> /\ Shrinks(down, down')
      /\ TaskTypes /\ HermesTypes
  BY JobStepMeans
<1>2. /\ offer' \in [Jobs -> 0..MaxAttempts] /\ offerCancel' \subseteq Jobs
      /\ \A i \in Jobs \ {j} : offer'[i] = offer[i] /\ (i \in offerCancel' <=> i \in offerCancel)
      /\ t # "accepting" => offer'[j] = 0
  BY <1>1, ReleaseOfferMeans DEF TaskTypes
<1>3. /\ started[j] = 0 /\ taskWs[j] \in Connections /\ rejected[j] = 0
  <2>1. /\ started[j] = 0 /\ taskWs[j] \in Connections
        /\ rejected[j] # 0 => task[j] = "rejecting"
    BY TaskMeans
  <2> QED  BY <2>1
<1>4. /\ task' \in [Jobs -> {"none", "new", "accepting", "rejecting"}]
      /\ task'[j] = t /\ \A i \in Jobs \ {j} : task'[i] = task[i]
  BY <1>1 DEF TaskTypes
<1>5. /\ rejected' \in [Jobs -> 0..MaxAttempts]
      /\ \A i \in Jobs \ {j} : rejected'[i] = rejected[i]
  BY <1>1 DEF TaskTypes
<1>6. TaskTypes'
  <2>1. \A i \in Jobs : task'[i] # "none" => taskWs'[i] \in Connections
    BY <1>1, <1>3, <1>4 DEF TaskTypes
  <2> QED  BY <1>1, <1>2, <1>4, <1>5, <2>1 DEF TaskTypes
<1>7. HermesTypes'
  BY <1>1 DEF HermesTypes
<1>8. AdapterStep(m)
  BY <1>1, <1>6, <1>7 DEF AdapterStep
<1>9. \A i \in Jobs \ {j} : JobStays(i)
  BY <1>2, <1>4, <1>5 DEF JobStays
<1>10. /\ started'[j] = 0
       /\ offer'[j] # 0 => task'[j] \in {"new", "accepting"}
       /\ rejected'[j] # 0 => task'[j] = "rejecting"
  BY <1>2, <1>3, <1>4
<1>11. (task[j] \in {"new", "accepting"} => j \in offerCancel)
         => (task'[j] \in {"new", "accepting"} => j \in offerCancel')
  BY <1>4
<1> QED  BY <1>8, <1>9, <1>10, <1>11, TaskStepKeeps

LEMMA DropOfferKeeps ==
  ASSUME IInv, NEW j \in Jobs, DropOffer(j)
  PROVE  IInv'
<1>1. /\ task[j] \in {"new", "accepting"} /\ ReleaseOffer(j)
      /\ task' = [task EXCEPT ![j] = "none"] /\ JobStep
      /\ UNCHANGED <<link, up, held, source, cancelled, final, rejected, rejCancel, run, started>>
  BY DEF DropOffer
<1>2. LinkStep /\ UpKeeps(up, up', NoMsg)
  BY <1>1, NetStays
<1> QED  BY <1>1, <1>2, HermesTypesNow, NoMsgSays, TaskMoves

LEMMA RejectJobKeeps ==
  ASSUME IInv, NEW j \in Jobs, RejectJob(j)
  PROVE  IInv'
<1>1. /\ task[j] \in {"new", "accepting"} /\ ReleaseOffer(j) /\ JobStep
      /\ UNCHANGED <<held, source, cancelled, final, rejCancel, run, started>>
  BY DEF RejectJob
<1>2. taskWs[j] \in Connections /\ offer[j] \in 0..MaxAttempts /\ ws \in 0..MaxConnections
  <2>1. taskWs[j] \in Connections
    BY <1>1, TaskMeans
  <2> QED  BY <2>1 DEF IInv, Types, TaskTypes, HermesTypes
<1>3. CASE /\ \/ /\ task' = [task EXCEPT ![j] = "rejecting"]
                 /\ rejected' = [rejected EXCEPT ![j] = offer[j]]
              \/ task' = [task EXCEPT ![j] = "none"] /\ UNCHANGED rejected
           /\ up' = Push(up, ws, Msg("failed", j, offer[j]))
           /\ UNCHANGED link
  <2> DEFINE m == Msg("failed", j, offer[j])
  <2>1. LinkStep /\ UpKeeps(up, up', m) /\ m.type = "failed"
    BY <1>2, <1>3, NetStays, PushSends DEF UpTypes
  <2> HIDE DEF m
  <2>2. CASE /\ task' = [task EXCEPT ![j] = "rejecting"]
             /\ rejected' = [rejected EXCEPT ![j] = offer[j]]
    BY <1>1, <2>1, <2>2, HermesTypesNow, TaskMoves
  <2>3. CASE task' = [task EXCEPT ![j] = "none"] /\ UNCHANGED rejected
    BY <1>1, <2>1, <2>3, HermesTypesNow, TaskMoves
  <2> QED  BY <1>3, <2>2, <2>3
<1>4. CASE /\ task' = [task EXCEPT ![j] = "none"]
           /\ CutLink(taskWs[j]) /\ UNCHANGED rejected
  <2>1. LinkStep /\ UpKeeps(up, up', NoMsg)
    BY <1>2, <1>4, CutSends
  <2> QED  BY <1>1, <1>4, <2>1, HermesTypesNow, NoMsgSays, TaskMoves
<1> QED  BY <1>3, <1>4 DEF RejectJob

LEMMA ReleaseMapsMeans ==
  ASSUME IInv, NEW j \in Jobs, ReleaseMaps(j)
  PROVE  /\ held' \in [Jobs -> 0..MaxAttempts]
         /\ source' \subseteq Jobs /\ final' \subseteq Jobs /\ cancelled' \subseteq Jobs
BY HermesTypesNow, Bounds DEF ReleaseMaps

LEMMA AdmitJobKeeps ==
  ASSUME IInv, NEW j \in Jobs, AdmitJob(j)
  PROVE  IInv'
<1>1. /\ task[j] \in {"new", "accepting"} /\ j \notin offerCancel /\ JobStep
      /\ UNCHANGED <<link, rejected, rejCancel, run, started>>
  BY DEF AdmitJob
<1>2. taskWs[j] \in 0..MaxConnections /\ offer[j] \in 0..MaxAttempts /\ LinkStep
  BY <1>1, NetStays DEF IInv, Types, TaskTypes
<1>3. CASE /\ task' = [task EXCEPT ![j] = "accepting"]
           /\ held' = [held EXCEPT ![j] = offer[j]] /\ source' = source \cup {j}
           /\ up' = Push(up, taskWs[j], Msg("accepted", j, offer[j]))
           /\ UNCHANGED <<offer, offerCancel, cancelled, final>>
  <2> DEFINE m == Msg("accepted", j, offer[j])
  <2>1. UpKeeps(up, up', m) /\ m.type = "accepted"
    BY <1>2, <1>3, PushSends DEF UpTypes
  <2> HIDE DEF m
  <2>2. held' \in [Jobs -> 0..MaxAttempts] /\ source' \subseteq Jobs
    BY <1>2, <1>3, HermesTypesNow
  <2> QED  BY <1>1, <1>2, <1>3, <2>1, <2>2, HermesTypesNow, TaskMoves
<1>4. CASE /\ task' = [task EXCEPT ![j] = "none"]
           /\ ReleaseMaps(j) /\ ReleaseOffer(j) /\ UNCHANGED up
  <2>1. UpKeeps(up, up', NoMsg)
    BY <1>4, NetStays
  <2> QED  BY <1>1, <1>2, <1>4, <2>1, ReleaseMapsMeans, NoMsgSays, TaskMoves
<1> QED  BY <1>3, <1>4 DEF AdmitJob

LEMMA AbandonJobKeeps ==
  ASSUME IInv, NEW j \in Jobs, AbandonJob(j)
  PROVE  IInv'
<1>1. /\ task[j] \in {"new", "accepting"} /\ task' = [task EXCEPT ![j] = "none"]
      /\ ReleaseMaps(j) /\ ReleaseOffer(j) /\ JobStep
      /\ UNCHANGED <<link, up, rejected, rejCancel, run, started>>
  BY DEF AbandonJob
<1>2. LinkStep /\ UpKeeps(up, up', NoMsg)
  BY <1>1, NetStays
<1> QED  BY <1>1, <1>2, ReleaseMapsMeans, NoMsgSays, TaskMoves

LEMMA StartJobKeeps ==
  ASSUME IInv, NEW j \in Jobs, StartJob(j)
  PROVE  IInv'
<1>1. /\ task[j] = "accepting" /\ j \notin offerCancel /\ task' = [task EXCEPT ![j] = "none"]
      /\ ReleaseOffer(j) /\ JobStep
      /\ UNCHANGED <<link, held, source, cancelled, final, rejected, rejCancel>>
  BY DEF StartJob
<1>2. LinkStep
  BY <1>1, NetStays
<1>3. CASE /\ run' = [run EXCEPT ![j] = "running"] /\ started' = [started EXCEPT ![j] = @ + 1]
           /\ UNCHANGED up
  <2>1. /\ UNCHANGED <<daemonVars, sock, cancels, failures, breaks>>
        /\ UNCHANGED <<pid, ws, ready, taskWs>> /\ Shrinks(down, down')
        /\ TaskTypes /\ HermesTypes
    BY <1>1, JobStepMeans
  <2>2. started[j] = 0 /\ (rejected[j] # 0 => task[j] = "rejecting")
    BY <1>1, TaskMeans
  <2>3. /\ offer' \in [Jobs -> 0..MaxAttempts] /\ offerCancel' \subseteq Jobs
        /\ offer'[j] = 0
        /\ \A i \in Jobs \ {j} : /\ offer'[i] = offer[i]
                                 /\ i \in offerCancel' <=> i \in offerCancel
    BY <1>1, ReleaseOfferMeans
  <2>4. /\ task' \in [Jobs -> {"none", "new", "accepting", "rejecting"}]
        /\ task'[j] = "none" /\ \A i \in Jobs \ {j} : task'[i] = task[i]
        /\ started' \in [Jobs -> Nat]
        /\ started'[j] = 1 /\ \A i \in Jobs \ {j} : started'[i] = started[i]
    BY <1>1, <1>3, <2>1, <2>2 DEF TaskTypes
  <2>5. TaskTypes'
    BY <1>1, <2>1, <2>3, <2>4 DEF TaskTypes
  <2>6. HermesTypes'
    BY <1>1, <1>3, <2>1 DEF HermesTypes
  <2>7. UpKeeps(up, up', NoMsg)
    BY <1>3, NetStays
  <2>8. AdapterStep(NoMsg)
    BY <1>2, <2>1, <2>5, <2>6, <2>7 DEF AdapterStep
  <2>9. \A i \in Jobs \ {j} : JobStays(i)
    BY <1>1, <2>3, <2>4 DEF JobStays
  <2>10. rejected'[j] = 0
    BY <1>1, <2>2
  <2> QED  BY <1>1, <2>3, <2>4, <2>8, <2>9, <2>10, NoMsgSays, TaskStepKeeps
<1>4. CASE up' = Push(up, taskWs[j], Msg("failed", j, held[j])) /\ UNCHANGED <<run, started>>
  <2> DEFINE m == Msg("failed", j, held[j])
  <2>1. taskWs[j] \in 0..MaxConnections /\ held[j] \in 0..MaxAttempts
    BY DEF IInv, Types, TaskTypes, HermesTypes
  <2>2. UpKeeps(up, up', m) /\ m.type = "failed"
    BY <1>4, <2>1, PushSends DEF UpTypes
  <2> HIDE DEF m
  <2> QED  BY <1>1, <1>2, <1>4, <2>2, HermesTypesNow, TaskMoves
<1> QED  BY <1>3, <1>4 DEF StartJob

LEMMA SendFinalKeeps ==
  ASSUME IInv, NEW j \in Jobs, SendFinal(j)
  PROVE  IInv'
<1>1. /\ final' = final \cup {j} /\ JobStep
      /\ UNCHANGED <<link, task, offer, offerCancel, held, source, cancelled, rejected,
                     rejCancel, started>>
  BY DEF SendFinal
<1>2. LinkStep
  BY <1>1, NetStays
<1>3. final' \subseteq Jobs
  BY <1>1, HermesTypesNow
<1>4. CASE run' = [run EXCEPT ![j] = "sending"] /\ up' = Push(up, ws, Msg("result", j, held[j]))
  <2> DEFINE m == Msg("result", j, held[j])
  <2>1. held[j] \in 0..MaxAttempts /\ run' \in [Jobs -> {"none", "running", "sending"}]
    BY <1>4, HermesTypesNow
  <2>2. UpKeeps(up, up', m) /\ m.type = "result"
    BY <1>4, <2>1, HermesTypesNow, PushSends DEF UpTypes
  <2> HIDE DEF m
  <2> QED  BY <1>1, <1>2, <1>3, <2>1, <2>2, HermesTypesNow, JobStepMeans, ProcessingKeeps
<1>5. CASE UNCHANGED <<run, up>>
  <2>1. UpKeeps(up, up', NoMsg)
    BY <1>5, NetStays
  <2> QED  BY <1>1, <1>2, <1>3, <1>5, <2>1, HermesTypesNow, JobStepMeans, NoMsgSays,
              ProcessingKeeps
<1> QED  BY <1>4, <1>5 DEF SendFinal

LEMMA CompleteKeeps ==
  ASSUME IInv, NEW j \in Jobs, Complete(j)
  PROVE  IInv'
<1>1. /\ run' = [run EXCEPT ![j] = "none"] /\ ReleaseMaps(j) /\ JobStep
      /\ UNCHANGED <<link, task, offer, offerCancel, rejected, rejCancel, started>>
      /\ \/ UNCHANGED up
         \/ \E type \in {"cancelled", "failed"} : up' = Push(up, ws, Msg(type, j, held[j]))
  BY DEF Complete
<1>2. LinkStep /\ held[j] \in 0..MaxAttempts /\ run' \in [Jobs -> {"none", "running", "sending"}]
  BY <1>1, NetStays, HermesTypesNow
<1>3. PICK m : UpKeeps(up, up', m) /\ m.type # "not_started"
  <2>1. CASE UNCHANGED up
    BY <2>1, NetStays, NoMsgSays
  <2>2. ASSUME NEW type \in {"cancelled", "failed"}, up' = Push(up, ws, Msg(type, j, held[j]))
        PROVE  /\ UpKeeps(up, up', Msg(type, j, held[j]))
               /\ Msg(type, j, held[j]).type # "not_started"
    BY <1>2, <2>2, HermesTypesNow, PushSends DEF UpTypes
  <2> QED  BY <1>1, <2>1, <2>2
<1> QED  BY <1>1, <1>2, <1>3, HermesTypesNow, JobStepMeans, ReleaseMapsMeans, ProcessingKeeps

-----------------------------------------------------------------------------
(* The connections themselves, and the adapter's crash.                    *)

LEMMA ConnectKeeps ==
  ASSUME IInv, NEW k \in Connections, Connect(k)
  PROVE  IInv'
<1> DEFINE hello == Msg("hello", NoJob, pid)
<1>1. /\ link[k] = "unused" /\ ws' = k
      /\ link' = [link EXCEPT ![k] = "up"] /\ sock' = [sock EXCEPT ![k] = "open"]
      /\ up' = [up EXCEPT ![k] = <<hello>>]
      /\ UNCHANGED <<daemonVars, down, pid, ready, task, taskWs, offer, offerCancel, held,
                     source, cancelled, final, rejected, rejCancel, run, started, boundVars>>
  BY DEF Connect
<1>2. Types /\ SocketInv /\ TableTypes /\ ServerTypes /\ NetTypes /\ TaskTypes /\ HermesTypes
  BY DEF IInv, Types
<1>3. sock[k] = "unused" /\ up[k] = <<>> /\ down[k] = <<>> /\ k # active
  <2>1. sock[k] = "unused" /\ up[k] = <<>> /\ down[k] = <<>>
    BY <1>1, <1>2 DEF SocketInv, UnusedIsEmpty
  <2> QED  BY <1>2, <2>1, Bounds DEF ServerTypes
<1>4. /\ hello \in UpMsg /\ hello.type = "hello" /\ hello.lease = pid
      /\ pid \in 1..MaxBreaks + 1
  <2>1. pid \in Nat /\ pid \in 1..MaxBreaks + 1
    <3>1. pid \in 1..breaks + 1 /\ breaks \in 0..MaxBreaks
      BY <1>2 DEF HermesTypes
    <3> QED  BY <3>1, Bounds
  <2> QED  BY <2>1 DEF UpMsg, UpTypes, Msg
<1> HIDE DEF hello
<1>5. <<hello>> \in Seq(UpMsg) /\ Len(<<hello>>) = 1 /\ <<hello>>[1] = hello
  BY <1>4
<1>6. /\ up' \in Ups /\ up'[k] = <<hello>> /\ \A c \in Connections \ {k} : up'[c] = up[c]
  BY <1>1, <1>2, <1>5 DEF NetTypes, Ups
<1>7. /\ sock' \in [Connections -> {"unused", "open", "ready", "fenced"}] /\ sock'[k] = "open"
      /\ \A c \in Connections \ {k} : sock'[c] = sock[c]
      /\ link' \in [Connections -> {"unused", "up", "cut"}] /\ link'[k] = "up"
      /\ \A c \in Connections \ {k} : link'[c] = link[c]
  BY <1>1, <1>2 DEF ServerTypes, NetTypes
<1>8. UNCHANGED <<status, lease, gen, owner, quarantined, carrier, active, cid, handled>>
  BY <1>1 DEF daemonVars, jobVars
<1>9. Types'
  <2>1. TableTypes'
    BY <1>2, <1>8 DEF TableTypes
  <2>2. ServerTypes'
    BY <1>1, <1>2, <1>3, <1>7, <1>8 DEF ServerTypes, boundVars
  <2>3. NetTypes'
    BY <1>1, <1>2, <1>6, <1>7 DEF NetTypes
  <2>4. TaskTypes'
    BY <1>1, <1>2 DEF TaskTypes
  <2>5. HermesTypes'
    BY <1>1, <1>2, Bounds DEF HermesTypes, boundVars
  <2> QED  BY <2>1, <2>2, <2>3, <2>4, <2>5 DEF Types
<1>10. UnusedIsEmpty'
  BY <1>1, <1>2, <1>6, <1>7 DEF SocketInv, UnusedIsEmpty
<1>11. HelloIsFirst'
  <2>1. ASSUME NEW c \in Connections, NEW i \in 1..Len(up'[c]), up'[c][i].type = "hello"
        PROVE  i = 1 /\ sock'[c] = "open" /\ up'[c][i].lease \in 1..MaxBreaks + 1
    <3>1. CASE c = k
      BY <1>4, <1>5, <1>6, <1>7, <2>1, <3>1
    <3>2. CASE c # k
      BY <1>2, <1>6, <1>7, <2>1, <3>2 DEF SocketInv, HelloIsFirst
    <3> QED  BY <3>1, <3>2
  <2> QED  BY <2>1 DEF HelloIsFirst
<1>12. ReadyIsActive' /\ HandledIsFenced' /\ ActiveBelong'
  BY <1>1, <1>2, <1>3, <1>7, <1>8
     DEF boundVars, SocketInv, ReadyIsActive, HandledIsFenced, ActiveBelong
<1>13. StoredInv'
  BY <1>1, <1>8 DEF IInv, StoredInv
<1>14. ASSUME NEW j \in Jobs PROVE JobInv(j)'
  <2>1. ASSUME NotStartedSent(j)' PROVE NotStartedSent(j)
    <3>1. PICK c \in Connections : \E i \in 1..Len(up'[c]) :
            up'[c][i].type = "not_started" /\ up'[c][i].job = j
      BY <2>1 DEF NotStartedSent
    <3>2. c # k
      BY <1>4, <1>5, <1>6, <3>1
    <3> QED  BY <1>6, <3>1, <3>2 DEF NotStartedSent
  <2>2. AckedIsFresh(j) /\ BegunByOne(j) /\ WithdrawnIsHarmless(j)
    BY DEF IInv, JobInv
  <2>3. UNCHANGED <<status, down, task, started, offer, offerCancel, rejected>>
    BY <1>1, <1>8
  <2>4. AckedIsFresh(j)' /\ BegunByOne(j)'
    BY <2>1, <2>2, <2>3 DEF AckedIsFresh, BegunByOne
  <2>5. WithdrawnIsHarmless(j)'
    BY <2>1, <2>2, <2>3 DEF WithdrawnIsHarmless, Harmless
  <2> QED  BY <2>4, <2>5 DEF JobInv
<1> QED  BY <1>9, <1>10, <1>11, <1>12, <1>13, <1>14 DEF IInv, SocketInv

LEMMA BreakKeeps ==
  ASSUME IInv, NEW k \in Connections, Break(k)
  PROVE  IInv'
<1>1. /\ CutLink(k) /\ breaks < MaxBreaks /\ breaks' = breaks + 1
      /\ UNCHANGED <<jobVars, sockVars, down, adapterVars, started, carrier, cancels, failures>>
  BY DEF Break
<1>2. LinkStep /\ UpKeeps(up, up', NoMsg)
  BY <1>1, CutSends
<1>3. breaks' \in 0..MaxBreaks /\ breaks <= breaks'
  BY <1>1, HermesTypesNow, Bounds
<1>4. /\ Shrinks(down, down') /\ UNCHANGED <<daemonVars, sock, cancels, failures>>
      /\ UNCHANGED <<pid, ws, started, ready, task, taskWs, offer, offerCancel, rejected,
                     rejCancel, held, source, cancelled, final, run>>
  BY <1>1, NetStays DEF daemonVars, sockVars, adapterVars
<1> QED  BY <1>2, <1>3, <1>4, HermesTypesNow, NoMsgSays, ProcessingKeeps

LEMMA CrashAdapterKeeps == ASSUME IInv, CrashAdapter PROVE IInv'
<1>1. /\ breaks < MaxBreaks /\ breaks' = breaks + 1
      /\ pid' = pid + 1 /\ ws' = 0 /\ ready' = FALSE
      /\ task' = [j \in Jobs |-> "none"] /\ taskWs' = [j \in Jobs |-> 0]
      /\ offer' = [j \in Jobs |-> 0] /\ held' = [j \in Jobs |-> 0]
      /\ rejected' = [j \in Jobs |-> 0]
      /\ offerCancel' = {} /\ source' = {} /\ cancelled' = {} /\ final' = {}
      /\ rejCancel' = {} /\ run' = [j \in Jobs |-> "none"]
      /\ UNCHANGED <<jobVars, sockVars, started, carrier, cancels, failures>>
  BY DEF CrashAdapter
<1>2. TaskTypes /\ HermesTypes /\ down \in Downs
  BY DEF IInv, Types, NetTypes
<1>3. LinkStep /\ UpKeeps(up, up', NoMsg) /\ Shrinks(down, down')
  <2>1. CASE ws = 0
    <3>1. UNCHANGED <<link, up, down>>
      BY <2>1 DEF CrashAdapter, netVars
    <3> QED  BY <3>1, NetStays
  <2>2. CASE ws # 0
    <3>1. CutLink(ws) /\ down' = [down EXCEPT ![ws] = <<>>]
      BY <2>2 DEF CrashAdapter
    <3>2. ws \in Connections
      BY <1>2, <2>2, Bounds DEF HermesTypes, Connections
    <3> QED  BY <1>2, <3>1, <3>2, CutSends, ClearShrinks
  <2> QED  BY <2>1, <2>2
<1>4. TaskTypes'
  <2>1. 0 \in 0..MaxAttempts /\ 0 \in 0..MaxConnections
    BY Bounds
  <2> QED  BY <1>1, <1>2, <2>1 DEF TaskTypes
<1>5. HermesTypes'
  <2>1. breaks' \in 0..MaxBreaks /\ pid' \in 1..breaks' + 1
    BY <1>1, <1>2, Bounds DEF HermesTypes
  <2>2. 0 \in 0..MaxAttempts /\ 0 \in 0..MaxConnections
    BY Bounds
  <2> QED  BY <1>1, <2>1, <2>2 DEF HermesTypes
<1>6. AdapterStep(NoMsg)
  BY <1>1, <1>3, <1>4, <1>5 DEF AdapterStep, daemonVars, sockVars
<1>7. ASSUME NEW j \in Jobs PROVE JobInv(j)'
  <2>1. AckedIsFresh(j) /\ BegunByOne(j)
    BY DEF IInv, JobInv
  <2>2. /\ NoneBrings(down, j) => NoneBrings(down', j)
        /\ OneBrings(down, j) => OneBrings(down', j)
    BY <1>2, <1>3, ShrinksKeeps
  <2>3. /\ task'[j] = "none" /\ offer'[j] = 0 /\ rejected'[j] = 0 /\ started'[j] = started[j]
        /\ j \notin offerCancel'
    BY <1>1
  <2>4. BegunByOne(j)'
    BY <2>1, <2>2, <2>3 DEF BegunByOne
  <2>5. Harmless(j) => Harmless(j)'
    BY <2>2, <2>3 DEF Harmless
  <2>6. UpKeeps(up, up', NoMsg) /\ status' = status
    BY <1>1, <1>3 DEF jobVars
  <2>7. NotStartedSent(j)' => NotStartedSent(j)
    BY <2>6, NoMsgSays, NotStartedKeeps
  <2>8. AckedIsFresh(j)'
    BY <2>1, <2>2, <2>3, <2>6, <2>7 DEF AckedIsFresh
  <2>9. WithdrawnIsHarmless(j)'
    BY <2>5, <2>6, <2>7 DEF WithdrawnIsHarmless, IInv, JobInv
  <2> QED  BY <2>4, <2>8, <2>9 DEF JobInv
<1> QED  BY <1>6, <1>7, AdapterKeeps

-----------------------------------------------------------------------------
(* The theorems.                                                           *)

LEMMA InitIsGood == ASSUME Init PROVE IInv
<1>1. /\ \A k \in Connections : up[k] = <<>> /\ down[k] = <<>>
      /\ Len(<<>>) = 0 /\ 1..0 = {}
  BY EmptySeq DEF Init
<1>2. \A k \in Connections : 1..Len(up[k]) = {} /\ 1..Len(down[k]) = {}
  BY <1>1
<1>3. 0 \in 0..MaxAttempts /\ 0 \in 0..MaxConnections /\ 0 \in 0..MaxBreaks + 1
  BY Bounds
<1>4. TableTypes /\ ServerTypes
  BY <1>3 DEF Init, TableTypes, ServerTypes, JobStatus
<1>5. NetTypes
  <2>1. <<>> \in Seq(UpMsg) /\ <<>> \in Seq(DownMsg)
    BY EmptySeq
  <2> QED  BY <2>1 DEF Init, NetTypes, Ups, Downs
<1>6. TaskTypes
  BY <1>3 DEF Init, TaskTypes
<1>7. HermesTypes
  <2>1. 0 \in 0..MaxBreaks /\ 1 \in 1..0 + 1
    BY Bounds
  <2> QED  BY <1>3, <2>1 DEF Init, HermesTypes
<1>8. SocketInv
  BY <1>1, <1>2 DEF Init, SocketInv, UnusedIsEmpty, HelloIsFirst, ReadyIsActive,
                    HandledIsFenced, ActiveBelong, Active
<1>9. StoredInv
  BY <1>2 DEF StoredInv
<1>10. ASSUME NEW j \in Jobs PROVE JobInv(j)
  <2>1. NoneBrings(down, j) /\ OneBrings(down, j) /\ ~NotStartedSent(j)
    BY <1>2 DEF NoneBrings, OneBrings, NotStartedSent
  <2>2. /\ status[j] = "Acked" /\ task[j] = "none" /\ started[j] = 0 /\ offer[j] = 0
        /\ rejected[j] = 0
    BY DEF Init
  <2> QED  BY <2>1, <2>2 DEF JobInv, AckedIsFresh, BegunByOne, WithdrawnIsHarmless
<1> QED  BY <1>4, <1>5, <1>6, <1>7, <1>8, <1>9, <1>10 DEF IInv, Types

LEMMA DaemonKeeps == ASSUME IInv, NEW k \in Connections, Daemon(k) PROVE IInv'
<1>1. CASE OnClose(k) \/ AcceptHello(k) \/ ConflictHello(k) \/ TakeoverHello(k) \/ StaleFrame(k)
  BY <1>1, OnCloseKeeps, AcceptHelloKeeps, ConflictHelloKeeps, TakeoverHelloKeeps,
     StaleFrameKeeps
<1>2. ASSUME NEW j \in Jobs,
             \/ OnExecutionAccepted(k, j) \/ OnExecutionResult(k, j) \/ OnExecutionFailed(k, j)
             \/ OnExecutionCancelled(k, j) \/ OnExecutionNotStarted(k, j)
      PROVE  IInv'
  BY <1>2, OnExecutionAcceptedKeeps, OnExecutionResultKeeps, OnExecutionFailedKeeps,
     OnExecutionCancelledKeeps, OnExecutionNotStartedKeeps
<1> QED  BY <1>1, <1>2 DEF Daemon

LEMMA ListenerKeeps == ASSUME IInv, Listener PROVE IInv'
<1>1. CASE LostConnection \/ ReceiveHelloAck
  BY <1>1, LostConnectionKeeps, ReceiveHelloAckKeeps
<1>2. ASSUME NEW j \in Jobs, ReceiveStored(j) \/ ReceiveSuperseded(j) \/ ReceiveError(j)
      PROVE  IInv'
  BY <1>2, ReceiveStoredKeeps, ReceiveSupersededKeeps, ReceiveErrorKeeps
<1>3. ASSUME NEW j \in Jobs, NEW l \in 1..MaxAttempts, ReceiveJob(j, l) \/ ReceiveCancel(j, l)
      PROVE  IInv'
  BY <1>3, ReceiveJobKeeps, ReceiveCancelKeeps
<1> QED  BY <1>1, <1>2, <1>3 DEF Listener

LEMMA StutterKeeps == ASSUME IInv, UNCHANGED vars PROVE IInv'
<1>1. UNCHANGED <<daemonVars, sock, link, up, down, boundVars, started, adapterVars>>
  BY DEF vars, daemonVars, jobVars, sockVars, netVars
<1> QED  BY <1>1, HermesTypesNow, NetStays, NoMsgSays, ProcessingKeeps
         DEF boundVars, adapterVars

LEMMA NextKeeps == ASSUME IInv, [Next]_vars PROVE IInv'
<1>1. CASE OnRelayIncoming
  BY <1>1, OnRelayIncomingKeeps
<1>2. ASSUME NEW k \in Connections, Daemon(k) \/ Connect(k) \/ Break(k)
      PROVE  IInv'
  BY <1>2, DaemonKeeps, ConnectKeeps, BreakKeeps
<1>3. CASE Listener
  BY <1>3, ListenerKeeps
<1>4. CASE CrashAdapter
  BY <1>4, CrashAdapterKeeps
<1>5. ASSUME NEW j \in Jobs, OnRelayCancel(j) \/ Task(j) \/ Hermes(j)
      PROVE  IInv'
  <2>1. CASE OnRelayCancel(j)
    BY <2>1, OnRelayCancelKeeps
  <2>2. CASE Task(j)
    BY <2>2, DropOfferKeeps, RejectJobKeeps, AdmitJobKeeps, AbandonJobKeeps, StartJobKeeps
       DEF Task
  <2>3. CASE Hermes(j)
    BY <2>3, SendFinalKeeps, CompleteKeeps, StoreTimeoutKeeps DEF Hermes
  <2> QED  BY <1>5, <2>1, <2>2, <2>3
<1>6. CASE UNCHANGED vars
  BY <1>6, StutterKeeps
<1> QED  BY <1>1, <1>2, <1>3, <1>4, <1>5, <1>6 DEF Next

THEOREM Invariance == Spec => []IInv
<1>1. Init => IInv
  BY InitIsGood
<1>2. IInv /\ [Next]_vars => IInv'
  BY NextKeeps
<1> QED  BY <1>1, <1>2, PTL DEF Spec

\* Type correctness of the link.
THEOREM TypeCorrect == Spec => []TypeOK
<1>1. IInv => TypeOK
  BY TypesMeanTypeOK DEF IInv
<1> QED  BY <1>1, Invariance, PTL

\* A job is begun at most once, whatever connections break, whatever the
\* server believes of the frames it sent, and however often Hermes restarts.
THEOREM BegunAtMostOnce == Spec => []AtMostOnce
<1>1. IInv => AtMostOnce
  BY DEF IInv, JobInv, BegunByOne, AtMostOnce
<1> QED  BY <1>1, Invariance, PTL

\* A job that the table says was withdrawn was never begun, and is not begun
\* later: every offer of it that is still held will be dropped.
THEOREM NeverBegunOnceWithdrawn == Spec => []NotStartedIsTrue
<1>1. IInv => NotStartedIsTrue
  BY DEF IInv, JobInv, WithdrawnIsHarmless, Harmless, NotStartedIsTrue
<1> QED  BY <1>1, Invariance, PTL

\* The adapter is told that a result is stored only while it is, under the
\* lease it was sent with.
THEOREM StoredWhenTold == Spec => []StoredIsDurable
<1>1. ASSUME IInv PROVE StoredIsDurable
  <2>1. SUFFICES ASSUME NEW k \in Connections, NEW i \in DOMAIN down[k],
                        down[k][i].type = "result_stored"
                 PROVE  /\ status[down[k][i].job] \in {"Succeeded", "Failed"}
                        /\ lease[down[k][i].job] = down[k][i].lease
    BY DEF StoredIsDurable
  <2>2. i \in 1..Len(down[k])
    BY <1>1, LenProperties DEF IInv, Types, NetTypes, Downs
  <2> QED  BY <1>1, <2>1, <2>2 DEF IInv, StoredInv, Durable
<1> QED  BY <1>1, Invariance, PTL

\* A ready connection has settled every job of the generations before it, as
\* long as the database refused no settlement.
THEOREM TakeoverSettlesFirst == Spec => []SettledUnlessRefused
<1>1. IInv => SettledUnlessRefused
  BY DEF IInv, SocketInv, ActiveBelong, SettledUnlessRefused, OldGenerationSettled
<1> QED  BY <1>1, Invariance, PTL

=============================================================================
