------------------------ MODULE PresentationProofs -------------------------
(***************************************************************************)
(* The presentation of a session and the event hub, for every capacity of  *)
(* the hub and of the queue and any number of events: lifecycle events     *)
(* arrive in order, snapshots are settled, and a session retires after its *)
(* terminal event.                                                         *)
(*                                                                         *)
(* The argument about the hub is one about what is in transit, the event   *)
(* being sent followed by the buffer (Carries): a snapshot may be added,   *)
(* replaced or taken out of it anywhere, a lifecycle event only added at   *)
(* the end and taken at the front.  The argument about the session is what *)
(* each thread holds at each of its places (HandoverOK, ExitOK,            *)
(* TerminalOK): a snapshot is with the supervisor, in the slot or with the *)
(* consumer, and the slot of a consumer that has left stays empty.         *)
(***************************************************************************)
EXTENDS Presentation, WellFoundedInduction, TLAPS

\* A sequence of events carries the lifecycle events after a and up to b, in
\* order, whatever snapshots are between them.
Carries(s, a, b) ==
    LET events == {i \in DOMAIN s : ~is_snapshot(s[i])}
    IN  /\ {s[i] : i \in events} = a + 1 .. b
        /\ \A i, j \in events : i < j => s[i] < s[j]

\* The hub: at most one event is being sent, and it is sent before the others.
HubRecord == [buffered : Seq(Int), channel : BOOLEAN, closed : BOOLEAN,
              failure : BOOLEAN, in_flight : Seq(Int)]
Delivering ==
    /\ received \in Nat /\ received <= published
    /\ Carries(hub.in_flight \o hub.buffered, received, published)
HubOK ==
    /\ hub \in HubRecord
    /\ publisher = "send" => Len(hub.in_flight) = 1
    /\ publisher # "send" => hub.in_flight = <<>>
    /\ published \in Nat /\ received \in Int
    /\ delivery_failure \in BOOLEAN
    /\ Delivering \/ delivery_failure \/ hub.closed

CriticalKinds == {"State", "Finalize"}
MonPlaces == {"loop", "send", "reject", "fail", "slot", "done"}
ConPlaces == {"receive", "take", "choose", "work", "Snapshot", "diagnostics", "State",
              "Finalize", "final_state", "terminal_event", "complete", "complete_error",
              "close", "fail", "cleanup", "drain", "discard", "exit", "done"}
\* A message that waits in the queue, one the consumer has received or not,
\* and any message.
CriticalMessage == [kind : CriticalKinds, order : Nat]
Received == [kind : CriticalKinds \cup {"none"}, order : Nat]
AnyMessage == [kind : Kind, order : Nat]
CriticalQueue == Seq(CriticalMessage)

QueueRecord == [closed : BOOLEAN, order : Nat, critical : CriticalQueue, latest : Nat,
                receiver : BOOLEAN]
MonRecord == [pc : MonPlaces, message : AnyMessage, failed : BOOLEAN]
ConRecord == [pc : ConPlaces, critical : Received, snapshot : Nat, work : AnyMessage]

\* The threads and what they hold: a message between them is critical, and
\* the consumer does the work it chose.
TypesOK ==
    /\ queue \in QueueRecord
    /\ mon \in MonRecord
    /\ con \in ConRecord
    /\ unsettled \in Int /\ terminal \in BOOLEAN /\ retired \in BOOLEAN
HandoverOK ==
    /\ mon.pc \in {"send", "reject"} => mon.message.kind \in CriticalKinds
    /\ mon.pc = "slot" => mon.message.order # 0
    /\ con.pc = "work" => con.work.kind # "none"
    /\ con.pc = "Snapshot" => con.work.kind = "Snapshot"

\* A consumer on its way out has closed the queue or lost its session, so
\* that the slot it emptied stays empty.
ExitOK ==
    /\ con.pc \in {"cleanup", "drain"} => queue.closed
    /\ con.pc \in {"discard", "exit", "done"} => queue.closed \/ retired
    /\ con.pc \in {"exit", "done"} => queue.latest = 0

\* The one frame that a closing queue cancels is the last that the consumer
\* works on.
SettledOK ==
    /\ \/ unsettled = Held
       \/ queue.closed /\ con.pc # "Snapshot" /\ unsettled = Held + 1
    /\ con.pc = "done" => queue.latest = 0

\* The terminal event is the last thing the consumer publishes.
TerminalOK ==
    /\ terminal => con.pc \in {"complete", "close", "discard", "exit", "done"}
    /\ con.pc = "complete" => terminal
    /\ RetiredAfterTerminal

Inv == HubOK /\ TypesOK /\ HandoverOK /\ ExitOK /\ SettledOK /\ TerminalOK

----------------------------------------------------------------------------
\* A snapshot more at the end changes nothing for the lifecycle events.
LEMMA CarriesSnapshot ==
    ASSUME NEW s \in Seq(Int), NEW a \in Nat, NEW b \in Nat, Carries(s, a, b), NEW e \in Snapshot
    PROVE  Carries(Append(s, e), a, b)
<1> DEFINE t == Append(s, e)
           E(r) == {i \in DOMAIN r : ~is_snapshot(r[i])}
<1>1. e \in Int
  BY DEF Snapshot, PlaybackSnapshot, DiagnosticsSnapshot
<1>2. /\ DOMAIN t = 1 .. Len(s) + 1 /\ DOMAIN s = 1 .. Len(s) /\ Len(s) \in Nat
      /\ t[Len(s) + 1] = e /\ \A i \in 1 .. Len(s) : t[i] = s[i]
  BY <1>1
<1> HIDE DEF t
<1>3. E(t) = E(s)
  BY <1>2 DEF is_snapshot
<1>4. \A i \in E(s) : t[i] = s[i]
  BY <1>2
<1> QED
  BY <1>3, <1>4 DEF Carries, t

\* Nor does the lifecycle event that comes next, which is carried from then on.
LEMMA CarriesLifecycle ==
    ASSUME NEW s \in Seq(Int), NEW a \in Nat, NEW b \in Nat, a <= b, Carries(s, a, b)
    PROVE  Carries(Append(s, b + 1), a, b + 1)
<1> DEFINE t == Append(s, b + 1)
           n == Len(s) + 1
           E(r) == {i \in DOMAIN r : ~is_snapshot(r[i])}
<1>1. ~is_snapshot(b + 1)
  BY DEF is_snapshot, Snapshot, PlaybackSnapshot, DiagnosticsSnapshot
<1>2. /\ DOMAIN t = 1 .. n /\ DOMAIN s = 1 .. Len(s) /\ Len(s) \in Nat /\ n = Len(s) + 1
      /\ t[n] = b + 1 /\ \A i \in 1 .. Len(s) : t[i] = s[i]
  OBVIOUS
<1> HIDE DEF t, n
<1>3. E(t) = E(s) \cup {n}
  BY <1>1, <1>2
<1>4. \A i \in E(s) : t[i] = s[i] /\ i < n /\ i # n
  BY <1>2
<1>5. {s[i] : i \in E(s)} = a + 1 .. b /\ \A i, j \in E(s) : i < j => s[i] < s[j]
  BY DEF Carries
<1>6. \A i \in E(s) : s[i] \in a + 1 .. b
  BY <1>5
<1>7. \A i \in E(s) : i \in Int
  BY <1>2
<1> HIDE DEF E
<1>8. {t[i] : i \in E(t)} = {s[i] : i \in E(s)} \cup {b + 1}
  BY <1>2, <1>3, <1>4
<1>9. {t[i] : i \in E(t)} = a + 1 .. b + 1
  <2>1. (a + 1 .. b) \cup {b + 1} = a + 1 .. b + 1
    OBVIOUS
  <2> QED
    BY <1>5, <1>8, <2>1
<1>10. ASSUME NEW i \in E(t), NEW j \in E(t), i < j PROVE t[i] < t[j]
  <2>1. CASE i \in E(s) /\ j \in E(s)
    BY <1>4, <1>5, <1>10, <2>1
  <2>2. CASE i \in E(s) /\ j = n
    BY <1>2, <1>4, <1>6, <2>2
  <2>3. CASE i = n
    <3>1. j \notin E(s) /\ j # n
      BY <1>2, <1>4, <1>7, <1>10, <2>3
    <3> QED
      BY <1>3, <3>1
  <2> QED
    BY <1>3, <2>1, <2>2, <2>3
<1> QED
  BY <1>9, <1>10 DEF Carries, E, t

\* The elements of two sequences in a row.
LEMMA InARow ==
    ASSUME NEW p \in Seq(Int), NEW q \in Seq(Int)
    PROVE  /\ p \o q \in Seq(Int) /\ Len(p \o q) = Len(p) + Len(q)
           /\ DOMAIN (p \o q) = 1 .. Len(p) + Len(q)
           /\ Len(p) \in Nat /\ Len(q) \in Nat
           /\ \A i \in 1 .. Len(p) + Len(q) :
                  (p \o q)[i] = IF i <= Len(p) THEN p[i] ELSE q[i - Len(p)]
OBVIOUS

\* A sequence without its element n (RemoveAt).
LEMMA Removal ==
    ASSUME NEW s \in Seq(Int), NEW n \in DOMAIN s
    PROVE  /\ RemoveAt(s, n) \in Seq(Int) /\ Len(RemoveAt(s, n)) = Len(s) - 1
           /\ n \in 1 .. Len(s) /\ Len(s) \in Nat
           /\ \A i \in 1 .. Len(s) - 1 : RemoveAt(s, n)[i] = s[IF i < n THEN i ELSE i + 1]
<1> DEFINE p == SubSeq(s, 1, n - 1)
           q == SubSeq(s, n + 1, Len(s))
           l == Len(s)
<1>1. n \in 1 .. l /\ l \in Nat
  OBVIOUS
<1>2. p \in Seq(Int) /\ Len(p) = n - 1 /\ \A i \in 1 .. n - 1 : p[i] = s[i]
  BY <1>1
<1>3. q \in Seq(Int) /\ Len(q) = l - n /\ \A i \in 1 .. l - n : q[i] = s[n + i]
  BY <1>1
<1> HIDE DEF p, q, l
<1> DEFINE r == p \o q
<1>4. r \in Seq(Int) /\ Len(r) = Len(p) + Len(q)
      /\ \A i \in 1 .. Len(p) + Len(q) : r[i] = IF i <= Len(p) THEN p[i] ELSE q[i - Len(p)]
  BY <1>2, <1>3, InARow
<1> HIDE DEF r
<1>5. Len(p) + Len(q) = l - 1
  BY <1>1, <1>2, <1>3
<1>6. ASSUME NEW i \in 1 .. l - 1 PROVE r[i] = s[IF i < n THEN i ELSE i + 1]
  <2>1. r[i] = IF i <= n - 1 THEN p[i] ELSE q[i - (n - 1)]
    BY <1>2, <1>4, <1>5
  <2>2. CASE i < n
    BY <1>1, <1>2, <2>1, <2>2
  <2>3. CASE ~(i < n)
    <3> DEFINE k == i - (n - 1)
    <3>1. k \in 1 .. l - n /\ n + k = i + 1 /\ ~(i <= n - 1)
      BY <1>1, <2>3
    <3>2. r[i] = q[k]
      BY <2>1, <3>1
    <3> HIDE DEF k
    <3>3. r[i] = s[i + 1]
      BY <1>3, <3>1, <3>2
    <3> QED
      BY <2>3, <3>3
  <2> QED
    BY <2>2, <2>3
<1>7. RemoveAt(s, n) = r
  BY DEF RemoveAt, p, q, r
<1> QED
  BY <1>1, <1>4, <1>5, <1>6, <1>7 DEF l

\* Taking a snapshot out changes nothing either (remove_oldest_snapshot).
LEMMA CarriesWithout ==
    ASSUME NEW f \in Seq(Int), NEW s \in Seq(Int), NEW a, NEW b, Carries(f \o s, a, b),
           NEW n \in DOMAIN s, is_snapshot(s[n])
    PROVE  RemoveAt(s, n) \in Seq(Int) /\ Carries(f \o RemoveAt(s, n), a, b)
<1> DEFINE r == RemoveAt(s, n)
           lf == Len(f)
           ls == Len(s)
           m == lf + n
           t == f \o s
           u == f \o r
           E(x) == {i \in DOMAIN x : ~is_snapshot(x[i])}
           Old(i) == IF i < m THEN i ELSE i + 1
<1>1. /\ r \in Seq(Int) /\ Len(r) = ls - 1 /\ n \in 1 .. ls /\ ls \in Nat
      /\ \A i \in 1 .. ls - 1 : r[i] = s[IF i < n THEN i ELSE i + 1]
  BY Removal
<1> HIDE DEF r
<1>2. /\ DOMAIN t = 1 .. lf + ls /\ lf \in Nat
      /\ \A i \in 1 .. lf + ls : t[i] = IF i <= lf THEN f[i] ELSE s[i - lf]
  BY InARow
<1>3. /\ DOMAIN u = 1 .. lf + ls - 1
      /\ \A i \in 1 .. lf + ls - 1 : u[i] = IF i <= lf THEN f[i] ELSE r[i - lf]
  <2>1. /\ DOMAIN u = 1 .. lf + Len(r)
        /\ \A i \in 1 .. lf + Len(r) : u[i] = IF i <= lf THEN f[i] ELSE r[i - lf]
    BY <1>1, InARow
  <2>2. lf + Len(r) = lf + ls - 1
    BY <1>1, <1>2
  <2> QED
    BY <2>1, <2>2
<1> HIDE DEF t, u, lf, ls
<1>0. lf \in Nat /\ ls \in Nat /\ n \in 1 .. ls /\ n \in Int
  BY <1>1, <1>2
<1>4. m \in DOMAIN t /\ is_snapshot(t[m])
  <2>1. m \in 1 .. lf + ls /\ ~(m <= lf) /\ m - lf = n
    BY <1>1, <1>2
  <2> QED
    BY <1>2, <2>1
<1>5. ASSUME NEW i \in DOMAIN u PROVE Old(i) \in DOMAIN t \ {m} /\ u[i] = t[Old(i)]
  <2>0. i \in 1 .. lf + ls - 1 /\ i \in Int
    BY <1>1, <1>2, <1>3
  <2>1. CASE i <= lf
    <3>1. i < m /\ i \in 1 .. lf + ls
      BY <1>0, <2>0, <2>1
    <3> QED
      BY <1>2, <1>3, <2>0, <2>1, <3>1
  <2>2. CASE ~(i <= lf) /\ i < m
    <3> DEFINE k == i - lf
    <3>1. k \in 1 .. ls - 1 /\ k < n /\ i \in 1 .. lf + ls /\ i # m
      BY <1>0, <2>0, <2>2
    <3>2. u[i] = r[k] /\ t[i] = s[k]
      BY <1>2, <1>3, <2>0, <2>2, <3>1
    <3> HIDE DEF k
    <3>3. r[k] = s[k]
      BY <1>1, <3>1
    <3> QED
      BY <1>2, <2>2, <3>1, <3>2, <3>3
  <2>3. CASE ~(i <= lf) /\ ~(i < m)
    <3> DEFINE k == i - lf
    <3>0. k \in 1 .. ls - 1 /\ ~(k < n)
      BY <1>0, <2>0, <2>3
    <3>1. i + 1 \in 1 .. lf + ls /\ i + 1 # m /\ (i + 1) - lf = k + 1 /\ ~(i + 1 <= lf)
      BY <1>0, <2>0, <2>3
    <3>2. u[i] = r[k] /\ t[i + 1] = s[k + 1]
      BY <1>2, <1>3, <2>0, <2>3, <3>0, <3>1
    <3> HIDE DEF k
    <3>3. r[k] = s[k + 1]
      BY <1>1, <3>0
    <3> QED
      BY <1>2, <2>3, <3>1, <3>2, <3>3
  <2> QED
    BY <2>1, <2>2, <2>3
<1>6. ASSUME NEW j \in DOMAIN t, j # m PROVE \E i \in DOMAIN u : Old(i) = j
  <2>0. j \in 1 .. lf + ls /\ j \in Int /\ m \in 1 .. lf + ls /\ m \in Int
    BY <1>1, <1>2
  <2>1. CASE j < m
    <3>1. j \in 1 .. lf + ls - 1
      BY <1>0, <2>0, <2>1
    <3> QED
      BY <1>3, <2>1, <3>1
  <2>2. CASE j > m
    <3>1. j - 1 \in 1 .. lf + ls - 1 /\ ~(j - 1 < m) /\ (j - 1) + 1 = j
      BY <1>0, <2>0, <2>2
    <3> QED
      BY <1>3, <3>1
  <2> QED
    BY <1>6, <2>0, <2>1, <2>2
<1>7. \A i, j \in DOMAIN u : i < j => Old(i) < Old(j)
  <2>1. m \in Int /\ DOMAIN u \subseteq Int
    BY <1>1, <1>2, <1>3
  <2> HIDE DEF m
  <2> QED
    BY <2>1
<1> HIDE DEF Old, m
<1>8. \A i \in E(u) : i \in DOMAIN u /\ Old(i) \in E(t) /\ u[i] = t[Old(i)]
  BY <1>5
<1>9. \A j \in E(t) : \E i \in E(u) : Old(i) = j
  BY <1>4, <1>5, <1>6
<1>10. {t[i] : i \in E(t)} = a + 1 .. b /\ \A i, j \in E(t) : i < j => t[i] < t[j]
  BY DEF Carries, t
<1> HIDE DEF E
<1>11. {u[i] : i \in E(u)} = {t[i] : i \in E(t)}
  <2>1. \A i \in E(u) : \E j \in E(t) : u[i] = t[j]
    BY <1>8
  <2>2. \A j \in E(t) : \E i \in E(u) : u[i] = t[j]
    BY <1>8, <1>9
  <2> QED
    BY <2>1, <2>2
<1>12. \A i, j \in E(u) : i < j => u[i] < u[j]
  BY <1>7, <1>8, <1>10
<1>13. Carries(u, a, b)
  BY <1>10, <1>11, <1>12 DEF Carries, E
<1> QED
  BY <1>1, <1>13 DEF u, r

\* The event sent first is the next one, or a snapshot.
LEMMA CarriesRest ==
    ASSUME NEW e \in Int, NEW s \in Seq(Int), NEW a \in Nat, NEW b \in Nat, Carries(<<e>> \o s, a, b)
    PROVE  IF is_snapshot(e) THEN Carries(s, a, b) ELSE e = a + 1 /\ e <= b /\ Carries(s, e, b)
<1> DEFINE t == <<e>> \o s
           E(x) == {i \in DOMAIN x : ~is_snapshot(x[i])}
<1>1. /\ DOMAIN t = 1 .. Len(s) + 1 /\ DOMAIN s = 1 .. Len(s) /\ Len(s) \in Nat
      /\ t[1] = e /\ \A i \in 1 .. Len(s) : t[i + 1] = s[i]
  OBVIOUS
<1>2. {t[i] : i \in E(t)} = a + 1 .. b /\ \A i, j \in E(t) : i < j => t[i] < t[j]
  BY DEF Carries
<1> HIDE DEF t
<1>3. \A i \in E(s) : i + 1 \in E(t) /\ t[i + 1] = s[i] /\ i \in Int /\ 1 < i + 1
  BY <1>1
<1>4. \A j \in E(t) : j = 1 \/ (j - 1 \in E(s) /\ t[j] = s[j - 1])
  <2> TAKE j \in E(t)
  <2>1. CASE j # 1
    <3>1. j - 1 \in 1 .. Len(s)
      BY <1>1, <2>1
    <3>2. t[j] = s[j - 1]
      <4>1. (j - 1) + 1 = j
        BY <1>1
      <4> QED
        BY <1>1, <3>1, <4>1
    <3> QED
      BY <1>1, <3>1, <3>2
  <2> QED
    BY <2>1
<1>5. is_snapshot(e) <=> 1 \notin E(t)
  BY <1>1
<1> HIDE DEF E
<1>6. \A i, j \in E(s) : i < j => s[i] < s[j]
  <2> TAKE i, j \in E(s)
  <2>1. i < j => i + 1 < j + 1
    BY <1>3
  <2> QED
    BY <1>2, <1>3, <2>1
<1>7. CASE is_snapshot(e)
  <2>1. \A i \in E(s) : \E j \in E(t) : t[j] = s[i]
    BY <1>3
  <2>2. \A j \in E(t) : \E i \in E(s) : t[j] = s[i]
    BY <1>4, <1>5, <1>7
  <2>3. {s[i] : i \in E(s)} = a + 1 .. b
    BY <1>2, <2>1, <2>2
  <2> QED
    BY <1>6, <1>7, <2>3 DEF Carries, E
<1>8. CASE ~is_snapshot(e)
  <2>1. 1 \in E(t) /\ t[1] = e
    BY <1>1, <1>5, <1>8
  <2>2. e \in a + 1 .. b
    BY <1>2, <2>1
  <2>3. \A i \in E(s) : s[i] \in a + 1 .. b /\ e < s[i]
    BY <1>2, <1>3, <2>1
  <2>4. ~(a + 1 < e)
    <3> SUFFICES ASSUME a + 1 < e PROVE FALSE
      OBVIOUS
    <3>1. a + 1 \in a + 1 .. b
      BY <2>2
    <3>2. PICK j \in E(t) : t[j] = a + 1
      BY <1>2, <3>1
    <3>3. j # 1
      BY <2>1, <3>2
    <3>4. j - 1 \in E(s) /\ s[j - 1] = a + 1
      BY <1>4, <3>2, <3>3
    <3> QED
      BY <2>3, <3>4
  <2>5. e = a + 1
    BY <2>2, <2>4
  <2>6. {s[i] : i \in E(s)} = e + 1 .. b
    <3>1. \A i \in E(s) : s[i] \in e + 1 .. b
      BY <2>3
    <3>2. ASSUME NEW x \in e + 1 .. b PROVE \E i \in E(s) : s[i] = x
      <4>1. x \in a + 1 .. b /\ x # e
        BY <2>5
      <4>2. PICK j \in E(t) : t[j] = x
        BY <1>2, <4>1
      <4> QED
        BY <1>4, <2>1, <4>1, <4>2
    <3> QED
      BY <3>1, <3>2
  <2> QED
    BY <1>6, <1>8, <2>2, <2>5, <2>6 DEF Carries, E
<1> QED
  BY <1>7, <1>8

\* Every set of naturals has a least element.
LEMMA Smallest ==
    ASSUME NEW T, T \subseteq Nat, T # {}
    PROVE  \E x \in T : \A y \in T : x <= y
<1> DEFINE R == OpToRel(<, Nat)
<1>1. IsWellFoundedOn(R, Nat)
  BY NatLessThanWellFounded
<1>2. \A x, y \in Nat : x < y => <<x, y>> \in R
  BY DEF OpToRel
<1> HIDE DEF R
<1>3. PICK x \in T : \A y \in T : ~ (<<y, x>> \in R)
  BY <1>1, WFMin
<1>4. ASSUME NEW y \in T PROVE x <= y
  <2>1. x \in Nat /\ y \in Nat
    OBVIOUS
  <2>2. ~(y < x)
    BY <1>2, <1>3, <2>1
  <2> QED
    BY <2>1, <2>2
<1> QED
  BY <1>4

\* remove_oldest_snapshot returns the buffer, or the buffer without one of
\* its snapshots.
LEMMA OldestSnapshot ==
    ASSUME NEW s \in Seq(Int)
    PROVE  \/ remove_oldest_snapshot(s) = s
           \/ \E n \in DOMAIN s : is_snapshot(s[n]) /\ remove_oldest_snapshot(s) = RemoveAt(s, n)
<1> DEFINE I == {i \in 1 .. Len(s) : is_snapshot(s[i])}
           n == SelectInSeq(s, is_snapshot)
<1>1. n = IF I # {} THEN Min(I) ELSE 0
  BY DEF SelectInSeq
<1>2. remove_oldest_snapshot(s) = IF n = 0 THEN s ELSE RemoveAt(s, n)
  BY DEF remove_oldest_snapshot
<1> HIDE DEF n
<1>3. CASE I # {}
  <2>1. I \subseteq Nat
    OBVIOUS
  <2>2. \E x \in I : \A y \in I : x <= y
    BY <1>3, <2>1, Smallest
  <2>3. Min(I) \in I
    BY <2>2 DEF Min
  <2>4. n \in DOMAIN s /\ is_snapshot(s[n]) /\ n # 0
    BY <1>1, <1>3, <2>3
  <2> QED
    BY <1>2, <2>4
<1> QED
  BY <1>1, <1>2, <1>3

----------------------------------------------------------------------------
(***************************************************************************)
(* The event hub.                                                          *)
(***************************************************************************)
\* A failure flag that only rises, and nothing else, keeps the hub in order.
LEMMA HubKept ==
    ASSUME HubOK, UNCHANGED <<hub, publisher, published, received>>,
           delivery_failure' \in BOOLEAN, delivery_failure => delivery_failure'
    PROVE  HubOK'
<1>1. Delivering' <=> Delivering
  BY DEF Delivering, Carries
<1> QED
  BY <1>1 DEF HubOK

\* What a publication leaves in the buffer: the events that were there but
\* for a snapshot, and the new one.
Event(e) == IF is_snapshot(e) THEN e ELSE published + 1
Answers(p, e) ==
    \/ p.answer # "ok" /\ p.hub = [hub EXCEPT !.failure = TRUE]
    \/ p.answer = "ok" /\ p.hub = hub /\ is_snapshot(e)
    \/ /\ p.answer = "ok"
       /\ \E kept \in {hub.buffered, remove_oldest_snapshot(hub.buffered)} :
             p.hub = [hub EXCEPT !.buffered = Append(kept, Event(e))]

\* The answers of publish.
LEMMA PublishedHub ==
    ASSUME HubOK, NEW e \in Snapshot \cup {Lifecycle}
    PROVE  Answers(publish(e), e)
<1> DEFINE refused == hub.closed \/ hub.failure
           coalesced == is_snapshot(e) /\ e \in ToSet(hub.buffered)
           kept == IF at_capacity(hub) THEN remove_oldest_snapshot(hub.buffered) ELSE hub.buffered
           room == ~at_capacity(hub) \/ kept # hub.buffered
           lost == [hub EXCEPT !.failure = TRUE]
           more == [hub EXCEPT !.buffered = Append(kept, Event(e))]
           p == publish(e)
<1>1. p =
        CASE refused -> [answer |-> "refused", hub |-> lost]
          [] ~refused /\ coalesced -> [answer |-> "ok", hub |-> hub]
          [] ~refused /\ ~coalesced /\ room ->
                [answer |-> "ok", hub |-> more]
          [] ~refused /\ ~coalesced /\ ~room /\ is_snapshot(e) -> [answer |-> "ok", hub |-> hub]
          [] OTHER -> [answer |-> "overflow", hub |-> lost]
  BY DEF publish, Event
<1>2. kept \in {hub.buffered, remove_oldest_snapshot(hub.buffered)}
  OBVIOUS
<1>3. coalesced => is_snapshot(e)
  OBVIOUS
<1> HIDE DEF refused, coalesced, kept, room, lost, more, p
<1>4. CASE refused
  <2>1. p = [answer |-> "refused", hub |-> lost]
    BY <1>1, <1>4
  <2>2. p.answer # "ok" /\ p.hub = lost
    BY <2>1
  <2> QED
    BY <2>2 DEF Answers, lost, p
<1>5. CASE ~refused /\ coalesced
  <2>1. p = [answer |-> "ok", hub |-> hub]
    BY <1>1, <1>5
  <2>2. p.answer = "ok" /\ p.hub = hub
    BY <2>1
  <2> QED
    BY <1>3, <1>5, <2>2 DEF Answers, p
<1>6. CASE ~refused /\ ~coalesced /\ room
  <2>1. p = [answer |-> "ok", hub |-> more]
    BY <1>1, <1>6
  <2>2. p.answer = "ok" /\ p.hub = more
    BY <2>1
  <2> QED
    BY <1>2, <2>2 DEF Answers, more, p
<1>7. CASE ~refused /\ ~coalesced /\ ~room /\ is_snapshot(e)
  <2>1. p = [answer |-> "ok", hub |-> hub]
    BY <1>1, <1>7
  <2>2. p.answer = "ok" /\ p.hub = hub
    BY <2>1
  <2> QED
    BY <1>7, <2>2 DEF Answers, p
<1>8. CASE ~refused /\ ~coalesced /\ ~room /\ ~is_snapshot(e)
  <2>1. p = [answer |-> "overflow", hub |-> lost]
    BY <1>1, <1>8
  <2>2. p.answer # "ok" /\ p.hub = lost
    BY <2>1
  <2> QED
    BY <2>2 DEF Answers, lost, p
<1> QED
  BY <1>4, <1>5, <1>6, <1>7, <1>8 DEF p

\* An event more behind the others.
LEMMA InTransit ==
    ASSUME NEW f \in Seq(Int), NEW s \in Seq(Int), NEW e \in Int
    PROVE  f \o Append(s, e) = Append(f \o s, e) /\ f \o s \in Seq(Int) /\ Append(s, e) \in Seq(Int)
OBVIOUS

\* publish keeps the order of the lifecycle events, or flags the failure.
LEMMA PublishKeeps ==
    ASSUME HubOK, NEW e \in Snapshot \cup {Lifecycle}, NEW ok \in BOOLEAN, Publish(e, ok)
    PROVE  HubOK' /\ (delivery_failure => delivery_failure')
<1> DEFINE p == publish(e)
           event == Event(e)
           f == hub.in_flight
           s == hub.buffered
<1>1. /\ ok = (p.answer = "ok") /\ hub' = p.hub /\ delivery_failure' = (delivery_failure \/ ~ok)
      /\ published' = IF ok /\ ~is_snapshot(e) THEN published + 1 ELSE published
      /\ publisher' = publisher /\ received' = received
  BY DEF Publish
<1>2. /\ hub \in HubRecord /\ published \in Nat /\ received \in Int /\ delivery_failure \in BOOLEAN
      /\ (publisher = "send" => Len(hub.in_flight) = 1)
      /\ (publisher # "send" => hub.in_flight = <<>>)
      /\ Delivering \/ delivery_failure \/ hub.closed
  BY DEF HubOK
<1>3. event \in Int /\ (~is_snapshot(e) => event = published + 1) /\ (is_snapshot(e) => event \in Snapshot)
  BY <1>2 DEF Event, is_snapshot, Snapshot, PlaybackSnapshot, DiagnosticsSnapshot
<1>4. published' \in Nat /\ delivery_failure' \in BOOLEAN /\ (delivery_failure => delivery_failure')
  BY <1>1, <1>2
<1>5. \/ p.answer # "ok" /\ p.hub = [hub EXCEPT !.failure = TRUE]
      \/ p.answer = "ok" /\ p.hub = hub /\ is_snapshot(e)
      \/ /\ p.answer = "ok"
         /\ \E kept \in {s, remove_oldest_snapshot(s)} : p.hub = [hub EXCEPT !.buffered = Append(kept, event)]
  BY PublishedHub DEF Answers
<1> HIDE DEF p, event
<1>6. CASE p.answer # "ok" /\ p.hub = [hub EXCEPT !.failure = TRUE]
  <2>1. hub' \in HubRecord /\ hub'.in_flight = hub.in_flight /\ delivery_failure'
    BY <1>1, <1>2, <1>6 DEF HubRecord
  <2> QED
    BY <1>1, <1>2, <1>4, <2>1 DEF HubOK
<1>7. CASE p.answer = "ok" /\ p.hub = hub /\ is_snapshot(e)
  <2>1. UNCHANGED <<hub, publisher, published, received>>
    BY <1>1, <1>7
  <2> QED
    BY <1>4, <2>1, HubKept
<1>8. ASSUME p.answer = "ok", NEW kept \in {s, remove_oldest_snapshot(s)},
             p.hub = [hub EXCEPT !.buffered = Append(kept, event)]
      PROVE  HubOK'
  <2>1. f \in Seq(Int) /\ s \in Seq(Int)
    BY <1>2 DEF HubRecord
  <2>2. kept \in Seq(Int) /\ (Delivering => Carries(f \o kept, received, published))
    <3>1. CASE kept = s
      BY <2>1, <3>1 DEF Delivering
    <3>2. CASE kept # s
      <4>1. PICK n \in DOMAIN s : is_snapshot(s[n]) /\ kept = RemoveAt(s, n)
        BY <1>8, <2>1, <3>2, OldestSnapshot
      <4>2. kept \in Seq(Int)
        BY <2>1, <4>1, Removal
      <4>3. ASSUME Delivering PROVE Carries(f \o kept, received, published)
        <5>1. Carries(f \o s, received, published)
          BY <4>3 DEF Delivering
        <5> QED
          BY <2>1, <4>1, <5>1, CarriesWithout
      <4> QED
        BY <4>2, <4>3
    <3> QED
      BY <3>1, <3>2
  <2>3. hub' = [hub EXCEPT !.buffered = Append(kept, event)]
    BY <1>1, <1>8
  <2>4. Append(kept, event) \in Seq(Int)
    BY <1>3, <2>2, InTransit
  <2>5. /\ hub' \in HubRecord /\ hub'.in_flight = f /\ hub'.buffered = Append(kept, event)
        /\ hub'.closed = hub.closed
    BY <1>2, <2>3, <2>4 DEF HubRecord
  <2>6. ASSUME Delivering PROVE Delivering'
    <3>1. received \in Nat /\ received <= published /\ Carries(f \o kept, received, published)
      BY <2>2, <2>6 DEF Delivering
    <3>2. f \o kept \in Seq(Int) /\ f \o Append(kept, event) = Append(f \o kept, event)
      BY <1>3, <2>1, <2>2, InTransit
    <3>3. CASE is_snapshot(e)
      <4>1. published' = published /\ event \in Snapshot
        BY <1>1, <1>3, <3>3
      <4>2. Carries(Append(f \o kept, event), received, published)
        BY <1>2, <3>1, <3>2, <4>1, CarriesSnapshot
      <4>3. Carries(f \o Append(kept, event), received, published)
        BY <3>2, <4>2
      <4>4. Carries(hub'.in_flight \o hub'.buffered, received', published')
        BY <1>1, <2>5, <4>1, <4>3
      <4> QED
        BY <1>1, <3>1, <4>1, <4>4 DEF Delivering
    <3>4. CASE ~is_snapshot(e)
      <4>1. published' = published + 1 /\ event = published + 1
        BY <1>1, <1>3, <1>8, <3>4
      <4>2. Carries(Append(f \o kept, published + 1), received, published + 1)
        BY <1>2, <3>1, <3>2, CarriesLifecycle
      <4>3. Carries(f \o Append(kept, event), received, published + 1)
        BY <3>2, <4>1, <4>2
      <4>4. received <= published + 1
        BY <1>2, <3>1
      <4>5. Carries(hub'.in_flight \o hub'.buffered, received', published')
        BY <1>1, <2>5, <4>1, <4>3
      <4> QED
        BY <1>1, <3>1, <4>1, <4>4, <4>5 DEF Delivering
    <3> QED
      BY <3>3, <3>4
  <2> QED
    BY <1>1, <1>2, <1>4, <2>5, <2>6 DEF HubOK
<1> QED
  BY <1>4, <1>5, <1>6, <1>7, <1>8

\* What is in transit, and how far the channel is, decide the order.
LEMMA DeliveringKept ==
    ASSUME Delivering, published' = published, received' = received,
           hub'.in_flight \o hub'.buffered = hub.in_flight \o hub.buffered
    PROVE  Delivering'
<1>1. Carries(hub'.in_flight \o hub'.buffered, received', published')
  BY DEF Delivering
<1> QED
  BY <1>1 DEF Delivering

\* The publisher sends the events in the order of the buffer.
LEMMA HubRunsKeeps ==
    ASSUME HubOK, subscribe \/ take_event \/ publisher_finishes \/ send_event
    PROVE  HubOK' /\ (delivery_failure => delivery_failure')
<1> DEFINE f == hub.in_flight
           s == hub.buffered
<1>1. hub \in HubRecord /\ f \in Seq(Int) /\ s \in Seq(Int) /\ published \in Nat
  BY DEF HubOK, HubRecord
<1>2. CASE subscribe
  <2>1. /\ hub' \in HubRecord /\ hub'.in_flight = f /\ hub'.buffered = s /\ hub'.closed = hub.closed
        /\ UNCHANGED <<published, received, delivery_failure>> /\ publisher = "none" /\ publisher' = "wait"
    BY <1>1, <1>2 DEF subscribe, HubRecord
  <2>2. Delivering => Delivering'
    BY <2>1, DeliveringKept
  <2> QED
    BY <2>1, <2>2 DEF HubOK
<1>3. CASE publisher_finishes
  <2>1. /\ hub' \in HubRecord /\ hub'.in_flight = f /\ hub'.buffered = s /\ hub'.closed = hub.closed
        /\ UNCHANGED <<published, received, delivery_failure>> /\ publisher = "wait" /\ publisher' = "finished"
    BY <1>1, <1>3 DEF publisher_finishes, HubRecord
  <2>2. Delivering => Delivering'
    BY <2>1, DeliveringKept
  <2> QED
    BY <2>1, <2>2 DEF HubOK
<1>4. CASE take_event
  <2>1. /\ publisher = "wait" /\ s # <<>> /\ publisher' = "send"
        /\ hub' = [hub EXCEPT !.in_flight = <<Head(s)>>, !.buffered = Tail(s)]
        /\ UNCHANGED <<published, received, delivery_failure>>
    BY <1>4 DEF take_event
  <2>2. Head(s) \in Int /\ Tail(s) \in Seq(Int) /\ <<Head(s)>> \o Tail(s) = s
    BY <1>1, <2>1
  <2>3. f = <<>> /\ f \o s = s
    <3>1. f = <<>>
      BY <2>1 DEF HubOK
    <3> HIDE DEF f, s
    <3>2. <<>> \o s = s
      BY <1>1
    <3> QED
      BY <3>1, <3>2
  <2>4. <<Head(s)>> \in Seq(Int) /\ Len(<<Head(s)>>) = 1
    BY <2>2
  <2>5. /\ hub' \in HubRecord /\ hub'.in_flight = <<Head(s)>> /\ hub'.buffered = Tail(s)
        /\ hub'.closed = hub.closed
    BY <1>1, <2>1, <2>2, <2>4 DEF HubRecord
  <2>6. hub'.in_flight \o hub'.buffered = f \o s
    BY <2>2, <2>3, <2>5
  <2>7. Delivering => Delivering'
    BY <2>1, <2>6, DeliveringKept
  <2> QED
    BY <2>1, <2>4, <2>5, <2>7 DEF HubOK
<1>5. CASE send_event
  <2> DEFINE e == f[1]
  <2>1. /\ publisher = "send" /\ publisher' = "wait"
        /\ received' = IF is_snapshot(e) THEN received ELSE e
        /\ hub' = [hub EXCEPT !.in_flight = <<>>]
        /\ UNCHANGED <<published, delivery_failure>>
    BY <1>5 DEF send_event
  <2>2. Len(f) = 1
    BY <2>1 DEF HubOK
  <2>3. e \in Int /\ f = <<e>>
    BY <1>1, <2>2
  <2>4. /\ hub' \in HubRecord /\ hub'.in_flight = <<>> /\ hub'.buffered = s /\ hub'.closed = hub.closed
    <3>1. <<>> \in Seq(Int)
      OBVIOUS
    <3> QED
      BY <1>1, <2>1, <3>1 DEF HubRecord
  <2>5. received' \in Int
    BY <2>1, <2>3 DEF HubOK
  <2> HIDE DEF e
  <2>6. ASSUME Delivering PROVE Delivering'
    <3>1. received \in Nat /\ received <= published /\ Carries(<<e>> \o s, received, published)
      BY <2>3, <2>6 DEF Delivering
    <3>2. IF is_snapshot(e) THEN Carries(s, received, published)
          ELSE e = received + 1 /\ e <= published /\ Carries(s, e, published)
      BY <1>1, <2>3, <3>1, CarriesRest
    <3>3. Carries(s, received', published) /\ received' \in Nat /\ received' <= published
      <4>1. CASE is_snapshot(e)
        BY <2>1, <3>1, <3>2, <4>1
      <4>2. CASE ~is_snapshot(e)
        BY <2>1, <3>1, <3>2, <4>2
      <4> QED
        BY <4>1, <4>2
    <3>4. hub'.in_flight \o hub'.buffered = s
      BY <1>1, <2>4
    <3>5. Carries(hub'.in_flight \o hub'.buffered, received', published')
      BY <2>1, <3>3, <3>4
    <3> QED
      BY <2>1, <3>3, <3>5 DEF Delivering
  <2> QED
    BY <2>1, <2>4, <2>5, <2>6 DEF HubOK
<1> QED
  BY <1>2, <1>3, <1>4, <1>5

\* The failures of the hub flag themselves, and closing closes.
LEMMA HubEndsKeeps ==
    ASSUME HubOK, NEW alive \in BOOLEAN, subscribe_fails \/ send_fails \/ close(alive)
    PROVE  HubOK' /\ (delivery_failure => delivery_failure')
<1>1. hub \in HubRecord /\ published \in Nat /\ <<>> \in Seq(Int) /\ received \in Int
      /\ delivery_failure \in BOOLEAN
  BY DEF HubOK
<1>2. CASE subscribe_fails
  <2>1. /\ hub' \in HubRecord /\ hub'.in_flight = <<>> /\ delivery_failure' = TRUE
        /\ UNCHANGED <<published, received, publisher>> /\ publisher = "none"
    BY <1>1, <1>2 DEF subscribe_fails, fail_delivery, HubRecord
  <2> QED
    BY <1>1, <2>1 DEF HubOK
<1>3. CASE send_fails
  <2>1. /\ hub' \in HubRecord /\ hub'.in_flight = <<>> /\ delivery_failure' = TRUE
        /\ UNCHANGED <<published, received>> /\ publisher' = "finished"
    BY <1>1, <1>3 DEF send_fails, fail_delivery, HubRecord
  <2> QED
    BY <1>1, <2>1 DEF HubOK
<1>4. CASE close(alive)
  <2>1. /\ hub' \in HubRecord /\ hub'.in_flight = hub.in_flight /\ hub'.closed
        /\ UNCHANGED <<published, received, publisher>>
        /\ delivery_failure' = (delivery_failure \/ alive)
    BY <1>1, <1>4 DEF close, HubRecord
  <2> QED
    BY <1>1, <2>1 DEF HubOK
<1> QED
  BY <1>2, <1>3, <1>4

\* A publication of the consumer: the hub's answer or an error of its own.
LEMMA PublishesKeeps ==
    ASSUME HubOK, NEW e \in Snapshot \cup {Lifecycle}, NEW ok \in BOOLEAN, Publishes(e, ok)
    PROVE  HubOK' /\ (delivery_failure => delivery_failure')
<1>1. CASE Publish(e, ok)
  BY <1>1, PublishKeeps
<1>2. CASE UNCHANGED hubvars
  BY <1>2, HubKept DEF hubvars, HubOK
<1> QED
  BY <1>1, <1>2 DEF Publishes

\* Every step leaves the hub in order.
LEMMA NextHub == HubOK /\ Next => HubOK' /\ (delivery_failure => delivery_failure')
<1> SUFFICES ASSUME HubOK, Next PROVE HubOK' /\ (delivery_failure => delivery_failure')
  OBVIOUS
<1>0. /\ delivery_failure \in BOOLEAN
      /\ {PlaybackSnapshot, DiagnosticsSnapshot, Lifecycle} \subseteq Snapshot \cup {Lifecycle}
  BY DEF HubOK, Snapshot
<1> DEFINE Kept == /\ UNCHANGED <<hub, publisher, published, received>>
                   /\ delivery_failure' \in BOOLEAN /\ (delivery_failure => delivery_failure')
<1>1. ASSUME Kept PROVE HubOK' /\ (delivery_failure => delivery_failure')
  BY <1>1, HubKept
<1>2. ASSUME UNCHANGED hubvars PROVE Kept
  BY <1>0, <1>2 DEF hubvars
<1>3. CASE Monitor
  <2>1. Kept
    <3>1. CASE observe_failure
      BY <1>0, <3>1 DEF observe_failure
    <3>2. CASE fail
      BY <1>0, <3>2 DEF fail
    <3>3. CASE publish_state \/ finalize \/ try_send \/ close_queue \/ publish_snapshot \/ fill_slot \/ drop_snapshot
      <4>1. UNCHANGED hubvars
        BY <3>3 DEF publish_state, finalize, Critical, try_send, close_queue, publish_snapshot,
                    fill_slot, drop_snapshot
      <4> QED
        BY <1>2, <4>1
    <3> QED
      BY <1>3, <3>1, <3>2, <3>3 DEF Monitor
  <2> QED
    BY <1>1, <2>1
<1>4. CASE Consumer
  <2>1. CASE begin_work \/ completed \/ cleanup_failed_event_delivery \/ reject_queued_presentation_finalizers
    <3>1. Kept
      BY <1>0, <2>1 DEF begin_work, completed, cleanup_failed_event_delivery,
                        reject_queued_presentation_finalizers
    <3> QED
      BY <1>1, <3>1
  <2>2. CASE \/ receive \/ take_snapshot \/ choose \/ orphaned \/ close_presentation
             \/ record_failure \/ discard_snapshots \/ exit
    <3>1. UNCHANGED hubvars
      BY <2>2 DEF receive, take_snapshot, choose, orphaned, close_presentation,
                  record_failure, discard_snapshots, exit
    <3> QED
      BY <1>1, <1>2, <3>1
  <2>3. CASE snapshot_work
    <3>1. UNCHANGED hubvars \/ \E ok \in BOOLEAN : Publishes(PlaybackSnapshot, ok)
      BY <2>3 DEF snapshot_work
    <3> QED
      BY <1>0, <1>1, <1>2, <3>1, PublishesKeeps
  <2>4. CASE diagnostics_work
    <3>1. UNCHANGED hubvars \/ \E ok \in BOOLEAN : Publishes(DiagnosticsSnapshot, ok)
      BY <2>4 DEF diagnostics_work
    <3> QED
      BY <1>0, <1>1, <1>2, <3>1, PublishesKeeps
  <2>5. CASE final_diagnostics
    <3>1. UNCHANGED hubvars \/ \E ok \in BOOLEAN : Publishes(DiagnosticsSnapshot, ok)
      BY <2>5 DEF final_diagnostics
    <3> QED
      BY <1>0, <1>1, <1>2, <3>1, PublishesKeeps
  <2>6. CASE state_work \/ final_state \/ publish_terminal_event
    <3>1. \E ok \in BOOLEAN : Publishes(Lifecycle, ok)
      BY <2>6 DEF state_work, final_state, publish_terminal_event
    <3> QED
      BY <1>0, <3>1, PublishesKeeps
  <2> QED
    BY <1>4, <2>1, <2>2, <2>3, <2>4, <2>5, <2>6 DEF Consumer
<1>5. CASE other_publish
  BY <1>0, <1>5, PublishKeeps DEF other_publish
<1>6. CASE HubEnds
  <2>1. \E alive \in BOOLEAN : subscribe_fails \/ send_fails \/ close(alive)
    BY <1>6 DEF HubEnds
  <2> QED
    BY <2>1, HubEndsKeeps
<1>7. CASE HubRuns
  BY <1>7, HubRunsKeeps DEF HubRuns
<1> QED
  BY <1>3, <1>4, <1>5, <1>6, <1>7 DEF Next

----------------------------------------------------------------------------
(***************************************************************************)
(* The supervisor and the consumer.                                        *)
(***************************************************************************)
Threads == TypesOK /\ HandoverOK /\ ExitOK /\ SettledOK /\ TerminalOK

\* What the messages are.
LEMMA MessageType ==
    /\ None \in Received /\ None \in AnyMessage /\ None.kind = "none"
    /\ CriticalMessage \subseteq Received /\ Received \subseteq AnyMessage
    /\ \A k \in CriticalKinds : \A n \in Nat :
           Message(k, n) \in AnyMessage /\ Message(k, n).kind = k /\ Message(k, n).order = n
    /\ \A n \in Nat : /\ Message("Snapshot", n) \in AnyMessage /\ Message("Snapshot", n).order = n
                      /\ Message("Snapshot", n).kind = "Snapshot"
    /\ \A m \in AnyMessage : /\ m.kind \in CriticalKinds => m \in CriticalMessage
                             /\ m.kind \in Kind
    /\ \A m \in CriticalMessage : m.kind \in CriticalKinds
    /\ \A m \in Received : m.kind # "none" => m.kind \in CriticalKinds
    /\ {"State", "Finalize"} \subseteq CriticalKinds
    /\ {"none", "Snapshot"} \cap CriticalKinds = {}
    /\ CriticalKinds \subseteq Kind
BY DEF None, Message, Received, AnyMessage, CriticalMessage, CriticalKinds, Kind

\* The queue as a sequence.
LEMMA QueueType ==
    /\ <<>> \in CriticalQueue
    /\ \A s \in CriticalQueue : \A m \in CriticalMessage : Append(s, m) \in CriticalQueue
    /\ \A s \in CriticalQueue :
           s # <<>> => Head(s) \in CriticalMessage /\ Tail(s) \in CriticalQueue
BY DEF CriticalQueue

\* New values for the fields of a thread's record.
LEMMA ConUpdate ==
    ASSUME NEW c \in ConRecord, NEW p \in ConPlaces, NEW w \in AnyMessage
    PROVE  /\ [c EXCEPT !.pc = p] \in ConRecord
           /\ [c EXCEPT !.pc = p, !.work = w] \in ConRecord
BY DEF ConRecord

\* What the supervisor thread does.
LEMMA MonitorKeeps ==
    ASSUME Inv, Monitor, delivery_failure => delivery_failure'
    PROVE  Threads'
<1>0. Threads
  BY DEF Inv, Threads
<1>1. CASE observe_failure
  <2>1. queue' \in QueueRecord
    BY <1>0, <1>1, MessageType, QueueType DEF Threads, TypesOK, HandoverOK, QueueRecord,
                                              MonRecord, ConRecord, observe_failure, hubvars
  <2>2. mon' \in MonRecord
    BY <1>0, <1>1, MessageType DEF Threads, TypesOK, QueueRecord, MonRecord, MonPlaces,
                                   observe_failure, hubvars
  <2>3. con' \in ConRecord
    BY <1>0, <1>1, MessageType DEF Threads, TypesOK, HandoverOK, QueueRecord, ConRecord,
                                   ConPlaces, Kind, observe_failure, hubvars
  <2>4. unsettled' \in Int /\ terminal' \in BOOLEAN /\ retired' \in BOOLEAN
    BY <1>0, <1>1 DEF Threads, TypesOK, observe_failure, hubvars
  <2>5. HandoverOK'
    BY <1>0, <1>1 DEF Threads, TypesOK, QueueRecord, MonRecord, ConRecord, None, Message,
                      AnyMessage, Received, CriticalMessage, CriticalKinds, MonPlaces,
                      ConPlaces, Kind, HandoverOK, observe_failure, hubvars
  <2>6. ExitOK'
    BY <1>0, <1>1 DEF Threads, TypesOK, QueueRecord, MonRecord, ConRecord, None, Message,
                      AnyMessage, Received, CriticalMessage, CriticalKinds, MonPlaces,
                      ConPlaces, Kind, HandoverOK, ExitOK, observe_failure, hubvars
  <2>7. SettledOK'
    BY <1>0, <1>1 DEF Threads, TypesOK, QueueRecord, MonRecord, ConRecord, None, Message,
                      AnyMessage, Received, CriticalMessage, CriticalKinds, MonPlaces,
                      ConPlaces, Kind, HandoverOK, ExitOK, SettledOK, Held, observe_failure,
                      hubvars
  <2>8. TerminalOK'
    BY <1>0, <1>1 DEF Threads, TypesOK, QueueRecord, MonRecord, ConRecord, None, Message,
                      AnyMessage, Received, CriticalMessage, CriticalKinds, MonPlaces,
                      ConPlaces, Kind, HandoverOK, TerminalOK, RetiredAfterTerminal,
                      observe_failure, hubvars
  <2> QED
    BY <2>1, <2>2, <2>3, <2>4, <2>5, <2>6, <2>7, <2>8 DEF Threads, TypesOK
<1>2. CASE publish_state
  <2>1. queue' \in QueueRecord
    BY <1>0, <1>2 DEF Threads, TypesOK, QueueRecord, publish_state, Critical, order, hubvars
  <2>2. mon' \in MonRecord
    <3>1. Message("State", queue.order + 1) \in AnyMessage
      BY <1>0, MessageType DEF Threads, TypesOK, QueueRecord
    <3> QED
      BY <1>0, <1>2, <3>1 DEF Threads, TypesOK, MonRecord, MonPlaces, publish_state, Critical,
                              order, hubvars
  <2>3. con' \in ConRecord
    BY <1>0, <1>2, MessageType DEF Threads, TypesOK, HandoverOK, QueueRecord, ConRecord,
                                   ConPlaces, Kind, publish_state, Critical, order, hubvars
  <2>4. unsettled' \in Int /\ terminal' \in BOOLEAN /\ retired' \in BOOLEAN
    BY <1>0, <1>2 DEF Threads, TypesOK, publish_state, Critical, order, hubvars
  <2>5. HandoverOK'
    BY <1>0, <1>2 DEF Threads, TypesOK, QueueRecord, MonRecord, ConRecord, None, Message,
                      AnyMessage, Received, CriticalMessage, CriticalKinds, MonPlaces,
                      ConPlaces, Kind, HandoverOK, publish_state, Critical, order, hubvars
  <2>6. ExitOK'
    BY <1>0, <1>2 DEF Threads, TypesOK, QueueRecord, MonRecord, ConRecord, None, Message,
                      AnyMessage, Received, CriticalMessage, CriticalKinds, MonPlaces,
                      ConPlaces, Kind, HandoverOK, ExitOK, publish_state, Critical, order,
                      hubvars
  <2>7. SettledOK'
    BY <1>0, <1>2 DEF Threads, TypesOK, QueueRecord, MonRecord, ConRecord, None, Message,
                      AnyMessage, Received, CriticalMessage, CriticalKinds, MonPlaces,
                      ConPlaces, Kind, HandoverOK, ExitOK, SettledOK, Held, publish_state,
                      Critical, order, hubvars
  <2>8. TerminalOK'
    BY <1>0, <1>2 DEF Threads, TypesOK, QueueRecord, MonRecord, ConRecord, None, Message,
                      AnyMessage, Received, CriticalMessage, CriticalKinds, MonPlaces,
                      ConPlaces, Kind, HandoverOK, TerminalOK, RetiredAfterTerminal,
                      publish_state, Critical, order, hubvars
  <2> QED
    BY <2>1, <2>2, <2>3, <2>4, <2>5, <2>6, <2>7, <2>8 DEF Threads, TypesOK
<1>3. CASE finalize
  <2>1. queue' \in QueueRecord
    BY <1>0, <1>3, MessageType, QueueType DEF Threads, TypesOK, HandoverOK, QueueRecord,
                                              MonRecord, ConRecord, finalize, Critical, order,
                                              hubvars
  <2>2. mon' \in MonRecord
    <3>1. Message("Finalize", queue.order + 1) \in AnyMessage
      BY <1>0, MessageType DEF Threads, TypesOK, QueueRecord
    <3> QED
      BY <1>0, <1>3, <3>1 DEF Threads, TypesOK, MonRecord, MonPlaces, finalize, Critical,
                              order, hubvars
  <2>3. con' \in ConRecord
    BY <1>0, <1>3, MessageType DEF Threads, TypesOK, HandoverOK, QueueRecord, ConRecord,
                                   ConPlaces, Kind, finalize, Critical, order, hubvars
  <2>4. unsettled' \in Int /\ terminal' \in BOOLEAN /\ retired' \in BOOLEAN
    BY <1>0, <1>3 DEF Threads, TypesOK, finalize, Critical, order, hubvars
  <2>5. HandoverOK'
    BY <1>0, <1>3 DEF Threads, TypesOK, QueueRecord, MonRecord, ConRecord, None, Message,
                      AnyMessage, Received, CriticalMessage, CriticalKinds, MonPlaces,
                      ConPlaces, Kind, HandoverOK, finalize, Critical, order, hubvars
  <2>6. ExitOK'
    BY <1>0, <1>3 DEF Threads, TypesOK, QueueRecord, MonRecord, ConRecord, None, Message,
                      AnyMessage, Received, CriticalMessage, CriticalKinds, MonPlaces,
                      ConPlaces, Kind, HandoverOK, ExitOK, finalize, Critical, order, hubvars
  <2>7. SettledOK'
    BY <1>0, <1>3 DEF Threads, TypesOK, QueueRecord, MonRecord, ConRecord, None, Message,
                      AnyMessage, Received, CriticalMessage, CriticalKinds, MonPlaces,
                      ConPlaces, Kind, HandoverOK, ExitOK, SettledOK, Held, finalize,
                      Critical, order, hubvars
  <2>8. TerminalOK'
    BY <1>0, <1>3 DEF Threads, TypesOK, QueueRecord, MonRecord, ConRecord, None, Message,
                      AnyMessage, Received, CriticalMessage, CriticalKinds, MonPlaces,
                      ConPlaces, Kind, HandoverOK, TerminalOK, RetiredAfterTerminal, finalize,
                      Critical, order, hubvars
  <2> QED
    BY <2>1, <2>2, <2>3, <2>4, <2>5, <2>6, <2>7, <2>8 DEF Threads, TypesOK
<1>4. CASE try_send
  <2>0. /\ UNCHANGED <<unsettled, con, terminal, retired>> /\ mon.pc = "send"
        /\ \/ UNCHANGED queue /\ mon' = [mon EXCEPT !.pc = "reject"]
           \/ /\ queue' = [queue EXCEPT !.critical = Append(queue.critical, mon.message)]
              /\ \E p \in {"done", "loop"} : mon' = [mon EXCEPT !.pc = p, !.message = None]
    BY <1>4 DEF try_send
  <2>1. queue' \in QueueRecord
    <3>1. mon.message \in CriticalMessage
      BY <1>0, <2>0, MessageType DEF Threads, TypesOK, HandoverOK, MonRecord
    <3>2. Append(queue.critical, mon.message) \in CriticalQueue
      BY <1>0, <3>1, QueueType DEF Threads, TypesOK, QueueRecord
    <3> QED
      BY <1>0, <2>0, <3>2 DEF Threads, TypesOK, QueueRecord
  <2>2. mon' \in MonRecord
    <3>1. None \in AnyMessage
      BY MessageType
    <3> QED
      BY <1>0, <2>0, <3>1 DEF Threads, TypesOK, MonRecord, MonPlaces
  <2>3. con' \in ConRecord
    BY <1>0, <2>0 DEF Threads, TypesOK
  <2>4. unsettled' \in Int /\ terminal' \in BOOLEAN /\ retired' \in BOOLEAN
    BY <1>0, <2>0 DEF Threads, TypesOK
  <2>5. HandoverOK'
    BY <1>0, <2>0 DEF Threads, TypesOK, MonRecord, HandoverOK
  <2>6. ExitOK'
    BY <1>0, <2>0 DEF Threads, TypesOK, QueueRecord, ExitOK
  <2>7. SettledOK'
    BY <1>0, <2>0 DEF Threads, TypesOK, QueueRecord, MonRecord, SettledOK, Held
  <2>8. TerminalOK'
    BY <1>0, <2>0, <1>4 DEF Threads, TerminalOK, RetiredAfterTerminal
  <2> QED
    BY <2>1, <2>2, <2>3, <2>4, <2>5, <2>6, <2>7, <2>8 DEF Threads, TypesOK
<1>5. CASE close_queue
  <2>1. queue' \in QueueRecord
    BY <1>0, <1>5, MessageType, QueueType DEF Threads, TypesOK, HandoverOK, QueueRecord,
                                              MonRecord, ConRecord, close_queue, hubvars
  <2>2. mon' \in MonRecord
    BY <1>0, <1>5, MessageType DEF Threads, TypesOK, QueueRecord, MonRecord, MonPlaces,
                                   close_queue, hubvars
  <2>3. con' \in ConRecord
    BY <1>0, <1>5, MessageType DEF Threads, TypesOK, HandoverOK, QueueRecord, ConRecord,
                                   ConPlaces, Kind, close_queue, hubvars
  <2>4. unsettled' \in Int /\ terminal' \in BOOLEAN /\ retired' \in BOOLEAN
    BY <1>0, <1>5 DEF Threads, TypesOK, close_queue, hubvars
  <2>5. HandoverOK'
    BY <1>0, <1>5 DEF Threads, TypesOK, QueueRecord, MonRecord, ConRecord, None, Message,
                      AnyMessage, Received, CriticalMessage, CriticalKinds, MonPlaces,
                      ConPlaces, Kind, HandoverOK, close_queue, hubvars
  <2>6. ExitOK'
    BY <1>0, <1>5 DEF Threads, TypesOK, QueueRecord, MonRecord, ConRecord, None, Message,
                      AnyMessage, Received, CriticalMessage, CriticalKinds, MonPlaces,
                      ConPlaces, Kind, HandoverOK, ExitOK, close_queue, hubvars
  <2>7. SettledOK'
    BY <1>0, <1>5 DEF Threads, TypesOK, QueueRecord, MonRecord, ConRecord, None, Message,
                      AnyMessage, Received, CriticalMessage, CriticalKinds, MonPlaces,
                      ConPlaces, Kind, HandoverOK, ExitOK, SettledOK, Held, close_queue,
                      hubvars
  <2>8. TerminalOK'
    BY <1>0, <1>5 DEF Threads, TypesOK, QueueRecord, MonRecord, ConRecord, None, Message,
                      AnyMessage, Received, CriticalMessage, CriticalKinds, MonPlaces,
                      ConPlaces, Kind, HandoverOK, TerminalOK, RetiredAfterTerminal,
                      close_queue, hubvars
  <2> QED
    BY <2>1, <2>2, <2>3, <2>4, <2>5, <2>6, <2>7, <2>8 DEF Threads, TypesOK
<1>6. CASE fail
  <2>1. queue' \in QueueRecord
    BY <1>0, <1>6, MessageType, QueueType DEF Threads, TypesOK, HandoverOK, QueueRecord,
                                              MonRecord, ConRecord, fail, hubvars
  <2>2. mon' \in MonRecord
    BY <1>0, <1>6, MessageType DEF Threads, TypesOK, QueueRecord, MonRecord, MonPlaces, fail,
                                   hubvars
  <2>3. con' \in ConRecord
    BY <1>0, <1>6, MessageType DEF Threads, TypesOK, HandoverOK, QueueRecord, ConRecord,
                                   ConPlaces, Kind, fail, hubvars
  <2>4. unsettled' \in Int /\ terminal' \in BOOLEAN /\ retired' \in BOOLEAN
    BY <1>0, <1>6 DEF Threads, TypesOK, fail, hubvars
  <2>5. HandoverOK'
    BY <1>0, <1>6 DEF Threads, TypesOK, QueueRecord, MonRecord, ConRecord, None, Message,
                      AnyMessage, Received, CriticalMessage, CriticalKinds, MonPlaces,
                      ConPlaces, Kind, HandoverOK, fail, hubvars
  <2>6. ExitOK'
    BY <1>0, <1>6 DEF Threads, TypesOK, QueueRecord, MonRecord, ConRecord, None, Message,
                      AnyMessage, Received, CriticalMessage, CriticalKinds, MonPlaces,
                      ConPlaces, Kind, HandoverOK, ExitOK, fail, hubvars
  <2>7. SettledOK'
    BY <1>0, <1>6 DEF Threads, TypesOK, QueueRecord, MonRecord, ConRecord, None, Message,
                      AnyMessage, Received, CriticalMessage, CriticalKinds, MonPlaces,
                      ConPlaces, Kind, HandoverOK, ExitOK, SettledOK, Held, fail, hubvars
  <2>8. TerminalOK'
    BY <1>0, <1>6 DEF Threads, TypesOK, QueueRecord, MonRecord, ConRecord, None, Message,
                      AnyMessage, Received, CriticalMessage, CriticalKinds, MonPlaces,
                      ConPlaces, Kind, HandoverOK, TerminalOK, RetiredAfterTerminal, fail,
                      hubvars
  <2> QED
    BY <2>1, <2>2, <2>3, <2>4, <2>5, <2>6, <2>7, <2>8 DEF Threads, TypesOK
<1>7. CASE publish_snapshot
  <2>1. queue' \in QueueRecord
    BY <1>0, <1>7 DEF Threads, TypesOK, QueueRecord, publish_snapshot, order, hubvars
  <2>2. mon' \in MonRecord
    <3>1. Message("Snapshot", queue.order + 1) \in AnyMessage
      BY <1>0, MessageType DEF Threads, TypesOK, QueueRecord
    <3> QED
      BY <1>0, <1>7, <3>1 DEF Threads, TypesOK, MonRecord, MonPlaces, publish_snapshot, order,
                              hubvars
  <2>3. con' \in ConRecord
    BY <1>0, <1>7, MessageType DEF Threads, TypesOK, HandoverOK, QueueRecord, ConRecord,
                                   ConPlaces, Kind, publish_snapshot, order, hubvars
  <2>4. unsettled' \in Int /\ terminal' \in BOOLEAN /\ retired' \in BOOLEAN
    BY <1>0, <1>7 DEF Threads, TypesOK, publish_snapshot, order, hubvars
  <2>5. HandoverOK'
    BY <1>0, <1>7 DEF Threads, TypesOK, QueueRecord, MonRecord, ConRecord, None, Message,
                      AnyMessage, Received, CriticalMessage, CriticalKinds, MonPlaces,
                      ConPlaces, Kind, HandoverOK, publish_snapshot, order, hubvars
  <2>6. ExitOK'
    BY <1>0, <1>7 DEF Threads, TypesOK, QueueRecord, MonRecord, ConRecord, None, Message,
                      AnyMessage, Received, CriticalMessage, CriticalKinds, MonPlaces,
                      ConPlaces, Kind, HandoverOK, ExitOK, publish_snapshot, order, hubvars
  <2>7. SettledOK'
    BY <1>0, <1>7 DEF Threads, TypesOK, QueueRecord, MonRecord, ConRecord, None, Message,
                      AnyMessage, Received, CriticalMessage, CriticalKinds, MonPlaces,
                      ConPlaces, Kind, HandoverOK, ExitOK, SettledOK, Held, publish_snapshot,
                      order, hubvars
  <2>8. TerminalOK'
    BY <1>0, <1>7 DEF Threads, TypesOK, QueueRecord, MonRecord, ConRecord, None, Message,
                      AnyMessage, Received, CriticalMessage, CriticalKinds, MonPlaces,
                      ConPlaces, Kind, HandoverOK, TerminalOK, RetiredAfterTerminal,
                      publish_snapshot, order, hubvars
  <2> QED
    BY <2>1, <2>2, <2>3, <2>4, <2>5, <2>6, <2>7, <2>8 DEF Threads, TypesOK
<1>8. CASE fill_slot
  <2>1. queue' \in QueueRecord
    <3>1. mon.message.order \in Nat
      BY <1>0 DEF Threads, TypesOK, MonRecord, AnyMessage
    <3> QED
      BY <1>0, <1>8, <3>1 DEF Threads, TypesOK, QueueRecord, fill_slot, recheck, hubvars
  <2>2. mon' \in MonRecord
    BY <1>0, <1>8, MessageType DEF Threads, TypesOK, QueueRecord, MonRecord, MonPlaces,
                                   fill_slot, recheck, hubvars
  <2>3. con' \in ConRecord
    BY <1>0, <1>8, MessageType DEF Threads, TypesOK, HandoverOK, QueueRecord, ConRecord,
                                   ConPlaces, Kind, fill_slot, recheck, hubvars
  <2>4. unsettled' \in Int /\ terminal' \in BOOLEAN /\ retired' \in BOOLEAN
    BY <1>0, <1>8 DEF Threads, TypesOK, fill_slot, recheck, hubvars
  <2>5. HandoverOK'
    BY <1>0, <1>8 DEF Threads, TypesOK, QueueRecord, MonRecord, ConRecord, None, Message,
                      AnyMessage, Received, CriticalMessage, CriticalKinds, MonPlaces,
                      ConPlaces, Kind, HandoverOK, fill_slot, recheck, hubvars
  <2>6. ExitOK'
    BY <1>0, <1>8 DEF Threads, TypesOK, QueueRecord, MonRecord, ConRecord, None, Message,
                      AnyMessage, Received, CriticalMessage, CriticalKinds, MonPlaces,
                      ConPlaces, Kind, HandoverOK, ExitOK, fill_slot, recheck, hubvars
  <2>7. SettledOK'
    BY <1>0, <1>8 DEF Threads, TypesOK, QueueRecord, MonRecord, ConRecord, None, Message,
                      AnyMessage, Received, CriticalMessage, CriticalKinds, MonPlaces,
                      ConPlaces, Kind, HandoverOK, ExitOK, SettledOK, Held, fill_slot,
                      recheck, hubvars
  <2>8. TerminalOK'
    BY <1>0, <1>8 DEF Threads, TypesOK, QueueRecord, MonRecord, ConRecord, None, Message,
                      AnyMessage, Received, CriticalMessage, CriticalKinds, MonPlaces,
                      ConPlaces, Kind, HandoverOK, TerminalOK, RetiredAfterTerminal,
                      fill_slot, recheck, hubvars
  <2> QED
    BY <2>1, <2>2, <2>3, <2>4, <2>5, <2>6, <2>7, <2>8 DEF Threads, TypesOK
<1>9. CASE drop_snapshot
  <2>1. queue' \in QueueRecord
    BY <1>0, <1>9, MessageType, QueueType DEF Threads, TypesOK, HandoverOK, QueueRecord,
                                              MonRecord, ConRecord, drop_snapshot, hubvars
  <2>2. mon' \in MonRecord
    BY <1>0, <1>9, MessageType DEF Threads, TypesOK, QueueRecord, MonRecord, MonPlaces,
                                   drop_snapshot, hubvars
  <2>3. con' \in ConRecord
    BY <1>0, <1>9, MessageType DEF Threads, TypesOK, HandoverOK, QueueRecord, ConRecord,
                                   ConPlaces, Kind, drop_snapshot, hubvars
  <2>4. unsettled' \in Int /\ terminal' \in BOOLEAN /\ retired' \in BOOLEAN
    BY <1>0, <1>9 DEF Threads, TypesOK, drop_snapshot, hubvars
  <2>5. HandoverOK'
    BY <1>0, <1>9 DEF Threads, TypesOK, QueueRecord, MonRecord, ConRecord, None, Message,
                      AnyMessage, Received, CriticalMessage, CriticalKinds, MonPlaces,
                      ConPlaces, Kind, HandoverOK, drop_snapshot, hubvars
  <2>6. ExitOK'
    BY <1>0, <1>9 DEF Threads, TypesOK, QueueRecord, MonRecord, ConRecord, None, Message,
                      AnyMessage, Received, CriticalMessage, CriticalKinds, MonPlaces,
                      ConPlaces, Kind, HandoverOK, ExitOK, drop_snapshot, hubvars
  <2>7. SettledOK'
    BY <1>0, <1>9 DEF Threads, TypesOK, QueueRecord, MonRecord, ConRecord, None, Message,
                      AnyMessage, Received, CriticalMessage, CriticalKinds, MonPlaces,
                      ConPlaces, Kind, HandoverOK, ExitOK, SettledOK, Held, drop_snapshot,
                      hubvars
  <2>8. TerminalOK'
    BY <1>0, <1>9 DEF Threads, TypesOK, QueueRecord, MonRecord, ConRecord, None, Message,
                      AnyMessage, Received, CriticalMessage, CriticalKinds, MonPlaces,
                      ConPlaces, Kind, HandoverOK, TerminalOK, RetiredAfterTerminal,
                      drop_snapshot, hubvars
  <2> QED
    BY <2>1, <2>2, <2>3, <2>4, <2>5, <2>6, <2>7, <2>8 DEF Threads, TypesOK
<1> QED
  BY <1>1, <1>2, <1>3, <1>4, <1>5, <1>6, <1>7, <1>8, <1>9 DEF Monitor

\* What the consumer thread does.
LEMMA ConsumerKeeps ==
    ASSUME Inv, Consumer, delivery_failure => delivery_failure'
    PROVE  Threads'
<1>0. Threads
  BY DEF Inv, Threads
<1>1. CASE receive
  <2>0. /\ con.pc = "receive" /\ UNCHANGED <<mon, unsettled, terminal, retired>>
        /\ \/ con' = [con EXCEPT !.pc = "take"] /\ UNCHANGED queue
           \/ /\ queue.critical # <<>>
              /\ con' = [con EXCEPT !.critical = Head(queue.critical), !.pc = "take"]
              /\ queue' = [queue EXCEPT !.critical = Tail(queue.critical)]
    BY <1>1 DEF receive, ConsumerOnly
  <2>9. queue.critical # <<>> => Head(queue.critical) \in Received /\ Tail(queue.critical) \in CriticalQueue
    BY <1>0, MessageType, QueueType DEF Threads, TypesOK, QueueRecord
  <2>1. queue' \in QueueRecord
    BY <1>0, <2>0, <2>9 DEF Threads, TypesOK, QueueRecord
  <2>2. mon' \in MonRecord
    BY <1>0, <2>0 DEF Threads, TypesOK
  <2>3. con' \in ConRecord
    BY <1>0, <2>0, <2>9 DEF Threads, TypesOK, ConRecord, ConPlaces
  <2>4. unsettled' \in Int /\ terminal' \in BOOLEAN /\ retired' \in BOOLEAN
    BY <1>0, <2>0 DEF Threads, TypesOK
  <2>5. HandoverOK'
    BY <1>0, <2>0 DEF Threads, TypesOK, ConRecord, HandoverOK
  <2>6. ExitOK'
    BY <1>0, <2>0 DEF Threads, TypesOK, ConRecord, QueueRecord, ExitOK
  <2>7. SettledOK'
    BY <1>0, <2>0 DEF Threads, TypesOK, ConRecord, QueueRecord, SettledOK, Held
  <2>8. TerminalOK'
    BY <1>0, <2>0 DEF Threads, TypesOK, ConRecord, TerminalOK, RetiredAfterTerminal
  <2> QED
    BY <2>1, <2>2, <2>3, <2>4, <2>5, <2>6, <2>7, <2>8 DEF Threads, TypesOK
<1>2. CASE take_snapshot
  <2>0. /\ con.pc = "take" /\ UNCHANGED <<mon, terminal, retired>>
        /\ \/ con' = [con EXCEPT !.pc = "choose"] /\ UNCHANGED <<queue, unsettled>>
           \/ /\ queue.latest # 0
              /\ con' = [con EXCEPT !.pc = "choose", !.snapshot = queue.latest]
              /\ queue' = [queue EXCEPT !.latest = 0]
              /\ unsettled' = IF con.snapshot # 0 THEN unsettled - 1 ELSE unsettled
    BY <1>2 DEF take_snapshot, ConsumerOnly
  <2>1. queue' \in QueueRecord
    BY <1>0, <2>0 DEF Threads, TypesOK, QueueRecord
  <2>2. mon' \in MonRecord
    BY <1>0, <2>0 DEF Threads, TypesOK
  <2>3. con' \in ConRecord
    BY <1>0, <2>0 DEF Threads, TypesOK, QueueRecord, ConRecord, ConPlaces
  <2>4. unsettled' \in Int /\ terminal' \in BOOLEAN /\ retired' \in BOOLEAN
    BY <1>0, <2>0 DEF Threads, TypesOK
  <2>5. HandoverOK'
    BY <1>0, <2>0 DEF Threads, TypesOK, ConRecord, HandoverOK
  <2>6. ExitOK'
    BY <1>0, <2>0 DEF Threads, TypesOK, ConRecord, QueueRecord, ExitOK
  <2>7. SettledOK'
    <3>1. CASE con' = [con EXCEPT !.pc = "choose"] /\ UNCHANGED <<queue, unsettled>>
      BY <1>0, <2>0, <3>1 DEF Threads, TypesOK, ConRecord, SettledOK, Held
    <3>2. CASE /\ queue.latest # 0
               /\ con' = [con EXCEPT !.pc = "choose", !.snapshot = queue.latest]
               /\ queue' = [queue EXCEPT !.latest = 0]
               /\ unsettled' = IF con.snapshot # 0 THEN unsettled - 1 ELSE unsettled
      <4>1. /\ con'.pc = "choose" /\ con'.snapshot = queue.latest /\ con'.work = con.work
            /\ queue'.latest = 0 /\ mon' = mon
        BY <1>0, <2>0, <3>2 DEF Threads, TypesOK, ConRecord, QueueRecord
      <4> QED
        BY <1>0, <2>0, <3>2, <4>1 DEF Threads, TypesOK, SettledOK, Held
    <3> QED
      BY <2>0, <3>1, <3>2
  <2>8. TerminalOK'
    BY <1>0, <2>0, <1>2 DEF Threads, TypesOK, ConRecord, TerminalOK, RetiredAfterTerminal
  <2> QED
    BY <2>1, <2>2, <2>3, <2>4, <2>5, <2>6, <2>7, <2>8 DEF Threads, TypesOK
<1>3. CASE choose
  <2>1. queue' \in QueueRecord
    BY <1>0, <1>3, MessageType, QueueType DEF Threads, TypesOK, HandoverOK, QueueRecord,
                                              MonRecord, ConRecord, choose, ConsumerOnly,
                                              hubvars
  <2>2. mon' \in MonRecord
    BY <1>0, <1>3, MessageType DEF Threads, TypesOK, QueueRecord, MonRecord, MonPlaces,
                                   choose, ConsumerOnly, hubvars
  <2>3. con' \in ConRecord
    BY <1>0, <1>3, MessageType DEF Threads, TypesOK, HandoverOK, QueueRecord, ConRecord,
                                   ConPlaces, Kind, choose, ConsumerOnly, hubvars
  <2>4. unsettled' \in Int /\ terminal' \in BOOLEAN /\ retired' \in BOOLEAN
    BY <1>0, <1>3 DEF Threads, TypesOK, choose, ConsumerOnly, hubvars
  <2>5. HandoverOK'
    BY <1>0, <1>3 DEF Threads, TypesOK, QueueRecord, MonRecord, ConRecord, None, Message,
                      AnyMessage, Received, CriticalMessage, CriticalKinds, MonPlaces,
                      ConPlaces, Kind, HandoverOK, choose, ConsumerOnly, hubvars
  <2>6. ExitOK'
    BY <1>0, <1>3 DEF Threads, TypesOK, QueueRecord, MonRecord, ConRecord, None, Message,
                      AnyMessage, Received, CriticalMessage, CriticalKinds, MonPlaces,
                      ConPlaces, Kind, HandoverOK, ExitOK, choose, ConsumerOnly, hubvars
  <2>7. SettledOK'
    BY <1>0, <1>3 DEF Threads, TypesOK, QueueRecord, MonRecord, ConRecord, None, Message,
                      AnyMessage, Received, CriticalMessage, CriticalKinds, MonPlaces,
                      ConPlaces, Kind, HandoverOK, ExitOK, SettledOK, Held, choose,
                      ConsumerOnly, hubvars
  <2>8. TerminalOK'
    BY <1>0, <1>3 DEF Threads, TypesOK, QueueRecord, MonRecord, ConRecord, None, Message,
                      AnyMessage, Received, CriticalMessage, CriticalKinds, MonPlaces,
                      ConPlaces, Kind, HandoverOK, TerminalOK, RetiredAfterTerminal, choose,
                      ConsumerOnly, hubvars
  <2> QED
    BY <2>1, <2>2, <2>3, <2>4, <2>5, <2>6, <2>7, <2>8 DEF Threads, TypesOK
<1>4. CASE orphaned
  <2>1. queue' \in QueueRecord
    BY <1>0, <1>4, MessageType, QueueType DEF Threads, TypesOK, HandoverOK, QueueRecord,
                                              MonRecord, ConRecord, orphaned, Unreferenced,
                                              ConsumerOnly, hubvars
  <2>2. mon' \in MonRecord
    BY <1>0, <1>4, MessageType DEF Threads, TypesOK, QueueRecord, MonRecord, MonPlaces,
                                   orphaned, Unreferenced, ConsumerOnly, hubvars
  <2>3. con' \in ConRecord
    BY <1>0, <1>4, MessageType DEF Threads, TypesOK, HandoverOK, QueueRecord, ConRecord,
                                   ConPlaces, Kind, orphaned, Unreferenced, ConsumerOnly,
                                   hubvars
  <2>4. unsettled' \in Int /\ terminal' \in BOOLEAN /\ retired' \in BOOLEAN
    BY <1>0, <1>4 DEF Threads, TypesOK, orphaned, Unreferenced, ConsumerOnly, hubvars
  <2>5. HandoverOK'
    BY <1>0, <1>4 DEF Threads, TypesOK, QueueRecord, MonRecord, ConRecord, None, Message,
                      AnyMessage, Received, CriticalMessage, CriticalKinds, MonPlaces,
                      ConPlaces, Kind, HandoverOK, orphaned, Unreferenced, ConsumerOnly, hubvars
  <2>6. ExitOK'
    BY <1>0, <1>4 DEF Threads, TypesOK, QueueRecord, MonRecord, ConRecord, None, Message,
                      AnyMessage, Received, CriticalMessage, CriticalKinds, MonPlaces,
                      ConPlaces, Kind, HandoverOK, ExitOK, orphaned, Unreferenced,
                      ConsumerOnly, hubvars
  <2>7. SettledOK'
    BY <1>0, <1>4 DEF Threads, TypesOK, QueueRecord, MonRecord, ConRecord, None, Message,
                      AnyMessage, Received, CriticalMessage, CriticalKinds, MonPlaces,
                      ConPlaces, Kind, HandoverOK, ExitOK, SettledOK, Held, orphaned,
                      Unreferenced, ConsumerOnly, hubvars
  <2>8. TerminalOK'
    BY <1>0, <1>4 DEF Threads, TypesOK, QueueRecord, MonRecord, ConRecord, None, Message,
                      AnyMessage, Received, CriticalMessage, CriticalKinds, MonPlaces,
                      ConPlaces, Kind, HandoverOK, TerminalOK, RetiredAfterTerminal, orphaned,
                      Unreferenced, ConsumerOnly, hubvars
  <2> QED
    BY <2>1, <2>2, <2>3, <2>4, <2>5, <2>6, <2>7, <2>8 DEF Threads, TypesOK
<1>5. CASE begin_work
  <2> DEFINE Done(p) == con' = [con EXCEPT !.pc = p, !.work = None]
             Began == con' = [con EXCEPT !.pc = con.work.kind] /\ ~queue.closed
                        /\ UNCHANGED <<unsettled, retired>>
             Skipped == Done("receive") /\ con.work.kind = "State" /\ UNCHANGED <<unsettled, retired>>
             Dropped == Done("receive") /\ con.work.kind = "Snapshot" /\ unsettled' = unsettled - 1
                            /\ UNCHANGED retired
             Rejected == Done("fail") /\ con.work.kind = "Finalize" /\ retired' = TRUE
                            /\ delivery_failure' /\ UNCHANGED unsettled
  <2>0. /\ con.pc = "work" /\ UNCHANGED <<mon, queue, terminal>>
        /\ con.work.kind = "Snapshot" \/ con.work.kind \in {"State", "Finalize"}
    BY <1>0, <1>5 DEF begin_work, ConsumerOnly, Threads, TypesOK, ConRecord, AnyMessage, Kind,
                      HandoverOK
  <2>9. Began \/ Skipped \/ Dropped \/ Rejected
    BY <1>5 DEF begin_work, moot
  <2>10. con \in ConRecord /\ None \in AnyMessage /\ {con.work.kind, "receive", "fail"} \subseteq ConPlaces
    BY <1>0, <2>0, MessageType DEF Threads, TypesOK, ConPlaces
  <2>11. /\ \A p : Done(p) => con'.pc = p /\ con'.work = None /\ con'.snapshot = con.snapshot
         /\ Began => con'.pc = con.work.kind /\ con'.work = con.work /\ con'.snapshot = con.snapshot
    BY <2>10 DEF ConRecord
  <2>1. queue' \in QueueRecord
    BY <1>0, <2>0 DEF Threads, TypesOK
  <2>2. mon' \in MonRecord
    BY <1>0, <2>0 DEF Threads, TypesOK
  <2>3. con' \in ConRecord
    <3>1. CASE Began
      BY <2>10, <3>1, ConUpdate
    <3>2. CASE Done("receive") \/ Done("fail")
      BY <2>10, <3>2, ConUpdate
    <3> QED
      BY <2>9, <3>1, <3>2
  <2>4. unsettled' \in Int /\ terminal' \in BOOLEAN /\ retired' \in BOOLEAN
    <3>1. unsettled \in Int /\ terminal \in BOOLEAN /\ retired \in BOOLEAN
      BY <1>0 DEF Threads, TypesOK
    <3>2. CASE Began
      BY <2>0, <3>1, <3>2
    <3>3. CASE Skipped
      BY <2>0, <3>1, <3>3
    <3>4. CASE Dropped
      BY <2>0, <3>1, <3>4
    <3>5. CASE Rejected
      BY <2>0, <3>1, <3>5
    <3> QED
      BY <2>9, <3>2, <3>3, <3>4, <3>5
  <2>5. HandoverOK'
    BY <1>0, <2>0, <2>9 DEF Threads, TypesOK, ConRecord, HandoverOK
  <2>6. ExitOK'
    BY <1>0, <2>0, <2>9 DEF Threads, TypesOK, ConRecord, ExitOK
  <2>7. SettledOK'
    <3>1. SettledOK /\ unsettled \in Int /\ None.kind = "none"
      BY <1>0, MessageType DEF Threads, TypesOK
    <3>2. CASE Began
      BY <2>0, <2>11, <3>1, <3>2 DEF SettledOK, Held
    <3>3. CASE Skipped
      <4>1. con'.pc = "receive" /\ con'.snapshot = con.snapshot
        BY <2>11, <3>3
      <4> QED
        BY <2>0, <3>1, <3>3, <4>1 DEF SettledOK, Held
    <3>4. CASE Dropped
      <4>1. con'.pc = "receive" /\ con'.snapshot = con.snapshot
        BY <2>11, <3>4
      <4> QED
        BY <2>0, <3>1, <3>4, <4>1 DEF SettledOK, Held
    <3>5. CASE Rejected
      <4>1. con'.pc = "fail" /\ con'.snapshot = con.snapshot
        BY <2>11, <3>5
      <4> QED
        BY <2>0, <3>1, <3>5, <4>1 DEF SettledOK, Held
    <3> QED
      BY <2>9, <3>2, <3>3, <3>4, <3>5
  <2>8. TerminalOK'
    <3>1. TerminalOK /\ retired \in BOOLEAN
      BY <1>0 DEF Threads, TypesOK
    <3>2. ~terminal /\ con'.pc # "complete" /\ terminal' = terminal
      BY <2>0, <2>9, <2>11, <3>1 DEF TerminalOK
    <3>3. retired' => delivery_failure'
      BY <2>9, <3>1, <3>2 DEF TerminalOK, RetiredAfterTerminal
    <3> QED
      BY <3>2, <3>3 DEF TerminalOK, RetiredAfterTerminal
  <2> QED
    BY <2>1, <2>2, <2>3, <2>4, <2>5, <2>6, <2>7, <2>8 DEF Threads, TypesOK
<1>6. CASE snapshot_work
  <2>0. /\ con.pc = "Snapshot" /\ con.work.kind = "Snapshot"
        /\ UNCHANGED <<mon, queue, terminal, retired>>
        /\ \/ queue.closed /\ unsettled' = unsettled
           \/ unsettled' = unsettled - 1
        /\ \E p \in {"diagnostics", "fail"} : con' = [con EXCEPT !.pc = p, !.work = None]
    BY <1>0, <1>6 DEF snapshot_work, ConsumerOnly, Threads, HandoverOK
  <2>1. queue' \in QueueRecord
    BY <1>0, <2>0 DEF Threads, TypesOK
  <2>2. mon' \in MonRecord
    BY <1>0, <2>0 DEF Threads, TypesOK
  <2>3. con' \in ConRecord
    <3>1. {"diagnostics", "fail"} \subseteq ConPlaces /\ con \in ConRecord /\ None \in AnyMessage
      BY <1>0, MessageType DEF Threads, TypesOK, ConPlaces
    <3>2. PICK p \in {"diagnostics", "fail"} : con' = [con EXCEPT !.pc = p, !.work = None]
      BY <2>0
    <3>3. p \in ConPlaces
      BY <3>1
    <3> QED
      BY <3>1, <3>2, <3>3, ConUpdate
  <2>4. unsettled' \in Int /\ terminal' \in BOOLEAN /\ retired' \in BOOLEAN
    BY <1>0, <2>0 DEF Threads, TypesOK
  <2>5. HandoverOK'
    BY <1>0, <2>0 DEF Threads, TypesOK, ConRecord, HandoverOK
  <2>6. ExitOK'
    BY <1>0, <2>0 DEF Threads, TypesOK, ConRecord, ExitOK
  <2>7. SettledOK'
    <3>1. con'.pc \in {"diagnostics", "fail"} /\ con'.snapshot = con.snapshot
      BY <1>0, <2>0 DEF Threads, TypesOK, ConRecord
    <3>2. unsettled = Held /\ Held' = Held - 1 /\ unsettled \in Int
      BY <1>0, <2>0, <3>1 DEF Threads, TypesOK, SettledOK, Held
    <3> QED
      BY <2>0, <3>1, <3>2 DEF SettledOK
  <2>8. TerminalOK'
    BY <1>0, <2>0 DEF Threads, TypesOK, ConRecord, TerminalOK, RetiredAfterTerminal
  <2> QED
    BY <2>1, <2>2, <2>3, <2>4, <2>5, <2>6, <2>7, <2>8 DEF Threads, TypesOK
<1>7. CASE diagnostics_work
  <2>0. /\ con.pc = "diagnostics" /\ UNCHANGED <<mon, queue, terminal, retired, unsettled>>
        /\ \E p \in {"receive", "fail"} : con' = [con EXCEPT !.pc = p, !.work = None]
    BY <1>7 DEF diagnostics_work, ConsumerOnly
  <2>1. queue' \in QueueRecord
    BY <1>0, <2>0 DEF Threads, TypesOK
  <2>2. mon' \in MonRecord
    BY <1>0, <2>0 DEF Threads, TypesOK
  <2>3. con' \in ConRecord
    <3>1. PICK p \in {"receive", "fail"} : con' = [con EXCEPT !.pc = p, !.work = None]
      BY <2>0
    <3>2. p \in ConPlaces /\ con \in ConRecord /\ None \in AnyMessage
      BY <1>0, MessageType DEF Threads, TypesOK, ConPlaces
    <3> QED
      BY <3>1, <3>2, ConUpdate
  <2>4. unsettled' \in Int /\ terminal' \in BOOLEAN /\ retired' \in BOOLEAN
    BY <1>0, <2>0 DEF Threads, TypesOK
  <2>5. HandoverOK'
    BY <1>0, <2>0 DEF Threads, TypesOK, ConRecord, HandoverOK
  <2>6. ExitOK'
    BY <1>0, <2>0 DEF Threads, TypesOK, ConRecord, ExitOK
  <2>7. SettledOK'
    BY <1>0, <2>0 DEF Threads, TypesOK, ConRecord, SettledOK, Held
  <2>8. TerminalOK'
    BY <1>0, <2>0 DEF Threads, TypesOK, ConRecord, TerminalOK, RetiredAfterTerminal
  <2> QED
    BY <2>1, <2>2, <2>3, <2>4, <2>5, <2>6, <2>7, <2>8 DEF Threads, TypesOK
<1>8. CASE state_work
  <2>1. queue' \in QueueRecord
    BY <1>0, <1>8, MessageType, QueueType DEF Threads, TypesOK, HandoverOK, QueueRecord,
                                              MonRecord, ConRecord, state_work, ConsumerOnly,
                                              hubvars
  <2>2. mon' \in MonRecord
    BY <1>0, <1>8, MessageType DEF Threads, TypesOK, QueueRecord, MonRecord, MonPlaces,
                                   state_work, ConsumerOnly, hubvars
  <2>3. con' \in ConRecord
    <3>1. PICK p \in {"receive", "fail"} : con' = [con EXCEPT !.pc = p, !.work = None]
      BY <1>8 DEF state_work
    <3>2. p \in ConPlaces /\ con \in ConRecord /\ None \in AnyMessage
      BY <1>0, MessageType DEF Threads, TypesOK, ConPlaces
    <3> QED
      BY <3>1, <3>2, ConUpdate
  <2>4. unsettled' \in Int /\ terminal' \in BOOLEAN /\ retired' \in BOOLEAN
    BY <1>0, <1>8 DEF Threads, TypesOK, state_work, ConsumerOnly, hubvars
  <2>5. HandoverOK'
    BY <1>0, <1>8 DEF Threads, TypesOK, QueueRecord, MonRecord, ConRecord, None, Message,
                      AnyMessage, Received, CriticalMessage, CriticalKinds, MonPlaces,
                      ConPlaces, Kind, HandoverOK, state_work, ConsumerOnly, hubvars
  <2>6. ExitOK'
    BY <1>0, <1>8 DEF Threads, TypesOK, QueueRecord, MonRecord, ConRecord, None, Message,
                      AnyMessage, Received, CriticalMessage, CriticalKinds, MonPlaces,
                      ConPlaces, Kind, HandoverOK, ExitOK, state_work, ConsumerOnly, hubvars
  <2>7. SettledOK'
    BY <1>0, <1>8 DEF Threads, TypesOK, QueueRecord, MonRecord, ConRecord, None, Message,
                      AnyMessage, Received, CriticalMessage, CriticalKinds, MonPlaces,
                      ConPlaces, Kind, HandoverOK, ExitOK, SettledOK, Held, state_work,
                      ConsumerOnly, hubvars
  <2>8. TerminalOK'
    BY <1>0, <1>8 DEF Threads, TypesOK, QueueRecord, MonRecord, ConRecord, None, Message,
                      AnyMessage, Received, CriticalMessage, CriticalKinds, MonPlaces,
                      ConPlaces, Kind, HandoverOK, TerminalOK, RetiredAfterTerminal,
                      state_work, ConsumerOnly, hubvars
  <2> QED
    BY <2>1, <2>2, <2>3, <2>4, <2>5, <2>6, <2>7, <2>8 DEF Threads, TypesOK
<1>9. CASE final_diagnostics
  <2>1. queue' \in QueueRecord
    BY <1>0, <1>9, MessageType, QueueType DEF Threads, TypesOK, HandoverOK, QueueRecord,
                                              MonRecord, ConRecord, final_diagnostics,
                                              ConsumerOnly, hubvars
  <2>2. mon' \in MonRecord
    BY <1>0, <1>9, MessageType DEF Threads, TypesOK, QueueRecord, MonRecord, MonPlaces,
                                   final_diagnostics, ConsumerOnly, hubvars
  <2>3. con' \in ConRecord
    <3>1. PICK p \in {"final_state", "complete_error"} : con' = [con EXCEPT !.pc = p]
      BY <1>9 DEF final_diagnostics
    <3>2. p \in ConPlaces /\ con \in ConRecord /\ None \in AnyMessage
      BY <1>0, MessageType DEF Threads, TypesOK, ConPlaces
    <3> QED
      BY <3>1, <3>2, ConUpdate
  <2>4. unsettled' \in Int /\ terminal' \in BOOLEAN /\ retired' \in BOOLEAN
    BY <1>0, <1>9 DEF Threads, TypesOK, final_diagnostics, ConsumerOnly, hubvars
  <2>5. HandoverOK'
    BY <1>0, <1>9 DEF Threads, TypesOK, QueueRecord, MonRecord, ConRecord, None, Message,
                      AnyMessage, Received, CriticalMessage, CriticalKinds, MonPlaces,
                      ConPlaces, Kind, HandoverOK, final_diagnostics, ConsumerOnly, hubvars
  <2>6. ExitOK'
    BY <1>0, <1>9 DEF Threads, TypesOK, QueueRecord, MonRecord, ConRecord, None, Message,
                      AnyMessage, Received, CriticalMessage, CriticalKinds, MonPlaces,
                      ConPlaces, Kind, HandoverOK, ExitOK, final_diagnostics, ConsumerOnly,
                      hubvars
  <2>7. SettledOK'
    BY <1>0, <1>9 DEF Threads, TypesOK, QueueRecord, MonRecord, ConRecord, None, Message,
                      AnyMessage, Received, CriticalMessage, CriticalKinds, MonPlaces,
                      ConPlaces, Kind, HandoverOK, ExitOK, SettledOK, Held,
                      final_diagnostics, ConsumerOnly, hubvars
  <2>8. TerminalOK'
    BY <1>0, <1>9 DEF Threads, TypesOK, QueueRecord, MonRecord, ConRecord, None, Message,
                      AnyMessage, Received, CriticalMessage, CriticalKinds, MonPlaces,
                      ConPlaces, Kind, HandoverOK, TerminalOK, RetiredAfterTerminal,
                      final_diagnostics, ConsumerOnly, hubvars
  <2> QED
    BY <2>1, <2>2, <2>3, <2>4, <2>5, <2>6, <2>7, <2>8 DEF Threads, TypesOK
<1>10. CASE final_state
  <2>1. queue' \in QueueRecord
    BY <1>0, <1>10, MessageType, QueueType DEF Threads, TypesOK, HandoverOK, QueueRecord,
                                               MonRecord, ConRecord, final_state,
                                               ConsumerOnly, hubvars
  <2>2. mon' \in MonRecord
    BY <1>0, <1>10, MessageType DEF Threads, TypesOK, QueueRecord, MonRecord, MonPlaces,
                                    final_state, ConsumerOnly, hubvars
  <2>3. con' \in ConRecord
    <3>1. PICK p \in {"terminal_event", "complete_error"} : con' = [con EXCEPT !.pc = p]
      BY <1>10 DEF final_state
    <3>2. p \in ConPlaces /\ con \in ConRecord /\ None \in AnyMessage
      BY <1>0, MessageType DEF Threads, TypesOK, ConPlaces
    <3> QED
      BY <3>1, <3>2, ConUpdate
  <2>4. unsettled' \in Int /\ terminal' \in BOOLEAN /\ retired' \in BOOLEAN
    BY <1>0, <1>10 DEF Threads, TypesOK, final_state, ConsumerOnly, hubvars
  <2>5. HandoverOK'
    BY <1>0, <1>10 DEF Threads, TypesOK, QueueRecord, MonRecord, ConRecord, None, Message,
                       AnyMessage, Received, CriticalMessage, CriticalKinds, MonPlaces,
                       ConPlaces, Kind, HandoverOK, final_state, ConsumerOnly, hubvars
  <2>6. ExitOK'
    BY <1>0, <1>10 DEF Threads, TypesOK, QueueRecord, MonRecord, ConRecord, None, Message,
                       AnyMessage, Received, CriticalMessage, CriticalKinds, MonPlaces,
                       ConPlaces, Kind, HandoverOK, ExitOK, final_state, ConsumerOnly, hubvars
  <2>7. SettledOK'
    BY <1>0, <1>10 DEF Threads, TypesOK, QueueRecord, MonRecord, ConRecord, None, Message,
                       AnyMessage, Received, CriticalMessage, CriticalKinds, MonPlaces,
                       ConPlaces, Kind, HandoverOK, ExitOK, SettledOK, Held, final_state,
                       ConsumerOnly, hubvars
  <2>8. TerminalOK'
    BY <1>0, <1>10 DEF Threads, TypesOK, QueueRecord, MonRecord, ConRecord, None, Message,
                       AnyMessage, Received, CriticalMessage, CriticalKinds, MonPlaces,
                       ConPlaces, Kind, HandoverOK, TerminalOK, RetiredAfterTerminal,
                       final_state, ConsumerOnly, hubvars
  <2> QED
    BY <2>1, <2>2, <2>3, <2>4, <2>5, <2>6, <2>7, <2>8 DEF Threads, TypesOK
<1>11. CASE publish_terminal_event
  <2>1. queue' \in QueueRecord
    BY <1>0, <1>11, MessageType, QueueType DEF Threads, TypesOK, HandoverOK, QueueRecord,
                                               MonRecord, ConRecord, publish_terminal_event,
                                               ConsumerOnly, hubvars
  <2>2. mon' \in MonRecord
    BY <1>0, <1>11, MessageType DEF Threads, TypesOK, QueueRecord, MonRecord, MonPlaces,
                                    publish_terminal_event, ConsumerOnly, hubvars
  <2>3. con' \in ConRecord
    <3>1. PICK p \in {"complete", "complete_error"} : con' = [con EXCEPT !.pc = p]
      BY <1>11 DEF publish_terminal_event
    <3>2. p \in ConPlaces /\ con \in ConRecord /\ None \in AnyMessage
      BY <1>0, MessageType DEF Threads, TypesOK, ConPlaces
    <3> QED
      BY <3>1, <3>2, ConUpdate
  <2>4. unsettled' \in Int /\ terminal' \in BOOLEAN /\ retired' \in BOOLEAN
    BY <1>0, <1>11 DEF Threads, TypesOK, publish_terminal_event, ConsumerOnly, hubvars
  <2>5. HandoverOK'
    BY <1>0, <1>11 DEF Threads, TypesOK, QueueRecord, MonRecord, ConRecord, None, Message,
                       AnyMessage, Received, CriticalMessage, CriticalKinds, MonPlaces,
                       ConPlaces, Kind, HandoverOK, publish_terminal_event, ConsumerOnly,
                       hubvars
  <2>6. ExitOK'
    BY <1>0, <1>11 DEF Threads, TypesOK, QueueRecord, MonRecord, ConRecord, None, Message,
                       AnyMessage, Received, CriticalMessage, CriticalKinds, MonPlaces,
                       ConPlaces, Kind, HandoverOK, ExitOK, publish_terminal_event,
                       ConsumerOnly, hubvars
  <2>7. SettledOK'
    BY <1>0, <1>11 DEF Threads, TypesOK, QueueRecord, MonRecord, ConRecord, None, Message,
                       AnyMessage, Received, CriticalMessage, CriticalKinds, MonPlaces,
                       ConPlaces, Kind, HandoverOK, ExitOK, SettledOK, Held,
                       publish_terminal_event, ConsumerOnly, hubvars
  <2>8. TerminalOK'
    BY <1>0, <1>11 DEF Threads, TypesOK, QueueRecord, MonRecord, ConRecord, None, Message,
                       AnyMessage, Received, CriticalMessage, CriticalKinds, MonPlaces,
                       ConPlaces, Kind, HandoverOK, TerminalOK, RetiredAfterTerminal,
                       publish_terminal_event, ConsumerOnly, hubvars
  <2> QED
    BY <2>1, <2>2, <2>3, <2>4, <2>5, <2>6, <2>7, <2>8 DEF Threads, TypesOK
<1>12. CASE completed
  <2>1. queue' \in QueueRecord
    BY <1>0, <1>12, MessageType, QueueType DEF Threads, TypesOK, HandoverOK, QueueRecord,
                                               MonRecord, ConRecord, completed, ConsumerOnly,
                                               hubvars
  <2>2. mon' \in MonRecord
    BY <1>0, <1>12, MessageType DEF Threads, TypesOK, QueueRecord, MonRecord, MonPlaces,
                                    completed, ConsumerOnly, hubvars
  <2>3. con' \in ConRecord
    BY <1>0, <1>12, MessageType DEF Threads, TypesOK, HandoverOK, QueueRecord, ConRecord,
                                    ConPlaces, Kind, completed, ConsumerOnly, hubvars
  <2>4. unsettled' \in Int /\ terminal' \in BOOLEAN /\ retired' \in BOOLEAN
    BY <1>0, <1>12 DEF Threads, TypesOK, completed, ConsumerOnly, hubvars
  <2>5. HandoverOK'
    BY <1>0, <1>12 DEF Threads, TypesOK, QueueRecord, MonRecord, ConRecord, None, Message,
                       AnyMessage, Received, CriticalMessage, CriticalKinds, MonPlaces,
                       ConPlaces, Kind, HandoverOK, completed, ConsumerOnly, hubvars
  <2>6. ExitOK'
    BY <1>0, <1>12 DEF Threads, TypesOK, QueueRecord, MonRecord, ConRecord, None, Message,
                       AnyMessage, Received, CriticalMessage, CriticalKinds, MonPlaces,
                       ConPlaces, Kind, HandoverOK, ExitOK, completed, ConsumerOnly, hubvars
  <2>7. SettledOK'
    BY <1>0, <1>12 DEF Threads, TypesOK, QueueRecord, MonRecord, ConRecord, None, Message,
                       AnyMessage, Received, CriticalMessage, CriticalKinds, MonPlaces,
                       ConPlaces, Kind, HandoverOK, ExitOK, SettledOK, Held, completed,
                       ConsumerOnly, hubvars
  <2>8. TerminalOK'
    BY <1>0, <1>12 DEF Threads, TypesOK, QueueRecord, MonRecord, ConRecord, None, Message,
                       AnyMessage, Received, CriticalMessage, CriticalKinds, MonPlaces,
                       ConPlaces, Kind, HandoverOK, TerminalOK, RetiredAfterTerminal,
                       completed, ConsumerOnly, hubvars
  <2> QED
    BY <2>1, <2>2, <2>3, <2>4, <2>5, <2>6, <2>7, <2>8 DEF Threads, TypesOK
<1>13. CASE close_presentation
  <2>1. queue' \in QueueRecord
    BY <1>0, <1>13, MessageType, QueueType DEF Threads, TypesOK, HandoverOK, QueueRecord,
                                               MonRecord, ConRecord, close_presentation,
                                               ConsumerOnly, hubvars
  <2>2. mon' \in MonRecord
    BY <1>0, <1>13, MessageType DEF Threads, TypesOK, QueueRecord, MonRecord, MonPlaces,
                                    close_presentation, ConsumerOnly, hubvars
  <2>3. con' \in ConRecord
    BY <1>0, <1>13, MessageType DEF Threads, TypesOK, HandoverOK, QueueRecord, ConRecord,
                                    ConPlaces, Kind, close_presentation, ConsumerOnly, hubvars
  <2>4. unsettled' \in Int /\ terminal' \in BOOLEAN /\ retired' \in BOOLEAN
    BY <1>0, <1>13 DEF Threads, TypesOK, close_presentation, ConsumerOnly, hubvars
  <2>5. HandoverOK'
    BY <1>0, <1>13 DEF Threads, TypesOK, QueueRecord, MonRecord, ConRecord, None, Message,
                       AnyMessage, Received, CriticalMessage, CriticalKinds, MonPlaces,
                       ConPlaces, Kind, HandoverOK, close_presentation, ConsumerOnly, hubvars
  <2>6. ExitOK'
    BY <1>0, <1>13 DEF Threads, TypesOK, QueueRecord, MonRecord, ConRecord, None, Message,
                       AnyMessage, Received, CriticalMessage, CriticalKinds, MonPlaces,
                       ConPlaces, Kind, HandoverOK, ExitOK, close_presentation, ConsumerOnly,
                       hubvars
  <2>7. SettledOK'
    BY <1>0, <1>13 DEF Threads, TypesOK, QueueRecord, MonRecord, ConRecord, None, Message,
                       AnyMessage, Received, CriticalMessage, CriticalKinds, MonPlaces,
                       ConPlaces, Kind, HandoverOK, ExitOK, SettledOK, Held,
                       close_presentation, ConsumerOnly, hubvars
  <2>8. TerminalOK'
    BY <1>0, <1>13 DEF Threads, TypesOK, QueueRecord, MonRecord, ConRecord, None, Message,
                       AnyMessage, Received, CriticalMessage, CriticalKinds, MonPlaces,
                       ConPlaces, Kind, HandoverOK, TerminalOK, RetiredAfterTerminal,
                       close_presentation, ConsumerOnly, hubvars
  <2> QED
    BY <2>1, <2>2, <2>3, <2>4, <2>5, <2>6, <2>7, <2>8 DEF Threads, TypesOK
<1>14. CASE record_failure
  <2>1. queue' \in QueueRecord
    BY <1>0, <1>14, MessageType, QueueType DEF Threads, TypesOK, HandoverOK, QueueRecord,
                                               MonRecord, ConRecord, record_failure,
                                               ConsumerOnly, hubvars
  <2>2. mon' \in MonRecord
    BY <1>0, <1>14, MessageType DEF Threads, TypesOK, QueueRecord, MonRecord, MonPlaces,
                                    record_failure, ConsumerOnly, hubvars
  <2>3. con' \in ConRecord
    BY <1>0, <1>14, MessageType DEF Threads, TypesOK, HandoverOK, QueueRecord, ConRecord,
                                    ConPlaces, Kind, record_failure, ConsumerOnly, hubvars
  <2>4. unsettled' \in Int /\ terminal' \in BOOLEAN /\ retired' \in BOOLEAN
    BY <1>0, <1>14 DEF Threads, TypesOK, record_failure, ConsumerOnly, hubvars
  <2>5. HandoverOK'
    BY <1>0, <1>14 DEF Threads, TypesOK, QueueRecord, MonRecord, ConRecord, None, Message,
                       AnyMessage, Received, CriticalMessage, CriticalKinds, MonPlaces,
                       ConPlaces, Kind, HandoverOK, record_failure, ConsumerOnly, hubvars
  <2>6. ExitOK'
    BY <1>0, <1>14 DEF Threads, TypesOK, QueueRecord, MonRecord, ConRecord, None, Message,
                       AnyMessage, Received, CriticalMessage, CriticalKinds, MonPlaces,
                       ConPlaces, Kind, HandoverOK, ExitOK, record_failure, ConsumerOnly,
                       hubvars
  <2>7. SettledOK'
    BY <1>0, <1>14 DEF Threads, TypesOK, QueueRecord, MonRecord, ConRecord, None, Message,
                       AnyMessage, Received, CriticalMessage, CriticalKinds, MonPlaces,
                       ConPlaces, Kind, HandoverOK, ExitOK, SettledOK, Held, record_failure,
                       ConsumerOnly, hubvars
  <2>8. TerminalOK'
    BY <1>0, <1>14 DEF Threads, TypesOK, QueueRecord, MonRecord, ConRecord, None, Message,
                       AnyMessage, Received, CriticalMessage, CriticalKinds, MonPlaces,
                       ConPlaces, Kind, HandoverOK, TerminalOK, RetiredAfterTerminal,
                       record_failure, ConsumerOnly, hubvars
  <2> QED
    BY <2>1, <2>2, <2>3, <2>4, <2>5, <2>6, <2>7, <2>8 DEF Threads, TypesOK
<1>15. CASE cleanup_failed_event_delivery
  <2>1. queue' \in QueueRecord
    BY <1>0, <1>15, MessageType, QueueType DEF Threads, TypesOK, HandoverOK, QueueRecord,
                                               MonRecord, ConRecord,
                                               cleanup_failed_event_delivery, ConsumerOnly,
                                               hubvars
  <2>2. mon' \in MonRecord
    BY <1>0, <1>15, MessageType DEF Threads, TypesOK, QueueRecord, MonRecord, MonPlaces,
                                    cleanup_failed_event_delivery, ConsumerOnly, hubvars
  <2>3. con' \in ConRecord
    BY <1>0, <1>15, MessageType DEF Threads, TypesOK, HandoverOK, QueueRecord, ConRecord,
                                    ConPlaces, Kind, cleanup_failed_event_delivery,
                                    ConsumerOnly, hubvars
  <2>4. unsettled' \in Int /\ terminal' \in BOOLEAN /\ retired' \in BOOLEAN
    BY <1>0, <1>15 DEF Threads, TypesOK, cleanup_failed_event_delivery, ConsumerOnly, hubvars
  <2>5. HandoverOK'
    BY <1>0, <1>15 DEF Threads, TypesOK, QueueRecord, MonRecord, ConRecord, None, Message,
                       AnyMessage, Received, CriticalMessage, CriticalKinds, MonPlaces,
                       ConPlaces, Kind, HandoverOK, cleanup_failed_event_delivery,
                       ConsumerOnly, hubvars
  <2>6. ExitOK'
    BY <1>0, <1>15 DEF Threads, TypesOK, QueueRecord, MonRecord, ConRecord, None, Message,
                       AnyMessage, Received, CriticalMessage, CriticalKinds, MonPlaces,
                       ConPlaces, Kind, HandoverOK, ExitOK, cleanup_failed_event_delivery,
                       ConsumerOnly, hubvars
  <2>7. SettledOK'
    BY <1>0, <1>15 DEF Threads, TypesOK, QueueRecord, MonRecord, ConRecord, None, Message,
                       AnyMessage, Received, CriticalMessage, CriticalKinds, MonPlaces,
                       ConPlaces, Kind, HandoverOK, ExitOK, SettledOK, Held,
                       cleanup_failed_event_delivery, ConsumerOnly, hubvars
  <2>8. TerminalOK'
    BY <1>0, <1>15 DEF Threads, TypesOK, QueueRecord, MonRecord, ConRecord, None, Message,
                       AnyMessage, Received, CriticalMessage, CriticalKinds, MonPlaces,
                       ConPlaces, Kind, HandoverOK, TerminalOK, RetiredAfterTerminal,
                       cleanup_failed_event_delivery, ConsumerOnly, hubvars
  <2> QED
    BY <2>1, <2>2, <2>3, <2>4, <2>5, <2>6, <2>7, <2>8 DEF Threads, TypesOK
<1>16. CASE reject_queued_presentation_finalizers
  <2>0. /\ con.pc = "drain" /\ UNCHANGED <<mon, unsettled, terminal>>
        /\ \/ con' = [con EXCEPT !.pc = "discard"] /\ UNCHANGED <<queue, retired>>
           \/ /\ queue.critical # <<>> /\ UNCHANGED con
              /\ queue' = [queue EXCEPT !.critical = Tail(queue.critical)]
    BY <1>16 DEF reject_queued_presentation_finalizers, ConsumerOnly
  <2>1. queue' \in QueueRecord
    <3>1. queue.critical # <<>> => Tail(queue.critical) \in CriticalQueue
      BY <1>0, QueueType DEF Threads, TypesOK, QueueRecord
    <3> QED
      BY <1>0, <2>0, <3>1 DEF Threads, TypesOK, QueueRecord
  <2>2. mon' \in MonRecord
    BY <1>0, <1>16, MessageType DEF Threads, TypesOK, QueueRecord, MonRecord, MonPlaces,
                                    reject_queued_presentation_finalizers, ConsumerOnly, hubvars
  <2>3. con' \in ConRecord
    BY <1>0, <1>16, MessageType DEF Threads, TypesOK, HandoverOK, QueueRecord, ConRecord,
                                    ConPlaces, Kind, reject_queued_presentation_finalizers,
                                    ConsumerOnly, hubvars
  <2>4. unsettled' \in Int /\ terminal' \in BOOLEAN /\ retired' \in BOOLEAN
    BY <1>0, <1>16 DEF Threads, TypesOK, reject_queued_presentation_finalizers, ConsumerOnly,
                       hubvars
  <2>5. HandoverOK'
    BY <1>0, <1>16 DEF Threads, TypesOK, QueueRecord, MonRecord, ConRecord, None, Message,
                       AnyMessage, Received, CriticalMessage, CriticalKinds, MonPlaces,
                       ConPlaces, Kind, HandoverOK, reject_queued_presentation_finalizers,
                       ConsumerOnly, hubvars
  <2>6. ExitOK'
    BY <1>0, <2>0 DEF Threads, TypesOK, ConRecord, QueueRecord, ExitOK
  <2>7. SettledOK'
    BY <1>0, <1>16 DEF Threads, TypesOK, QueueRecord, MonRecord, ConRecord, None, Message,
                       AnyMessage, Received, CriticalMessage, CriticalKinds, MonPlaces,
                       ConPlaces, Kind, HandoverOK, ExitOK, SettledOK, Held,
                       reject_queued_presentation_finalizers, ConsumerOnly, hubvars
  <2>8. TerminalOK'
    BY <1>0, <1>16 DEF Threads, TypesOK, QueueRecord, MonRecord, ConRecord, None, Message,
                       AnyMessage, Received, CriticalMessage, CriticalKinds, MonPlaces,
                       ConPlaces, Kind, HandoverOK, TerminalOK, RetiredAfterTerminal,
                       reject_queued_presentation_finalizers, ConsumerOnly, hubvars
  <2> QED
    BY <2>1, <2>2, <2>3, <2>4, <2>5, <2>6, <2>7, <2>8 DEF Threads, TypesOK
<1>17. CASE discard_snapshots
  <2>1. queue' \in QueueRecord
    BY <1>0, <1>17, MessageType, QueueType DEF Threads, TypesOK, HandoverOK, QueueRecord,
                                               MonRecord, ConRecord, discard_snapshots,
                                               ConsumerOnly, hubvars
  <2>2. mon' \in MonRecord
    BY <1>0, <1>17, MessageType DEF Threads, TypesOK, QueueRecord, MonRecord, MonPlaces,
                                    discard_snapshots, ConsumerOnly, hubvars
  <2>3. con' \in ConRecord
    BY <1>0, <1>17, MessageType DEF Threads, TypesOK, HandoverOK, QueueRecord, ConRecord,
                                    ConPlaces, Kind, discard_snapshots, ConsumerOnly, hubvars
  <2>4. unsettled' \in Int /\ terminal' \in BOOLEAN /\ retired' \in BOOLEAN
    BY <1>0, <1>17 DEF Threads, TypesOK, discard_snapshots, ConsumerOnly, hubvars
  <2>5. HandoverOK'
    BY <1>0, <1>17 DEF Threads, TypesOK, QueueRecord, MonRecord, ConRecord, None, Message,
                       AnyMessage, Received, CriticalMessage, CriticalKinds, MonPlaces,
                       ConPlaces, Kind, HandoverOK, discard_snapshots, ConsumerOnly, hubvars
  <2>6. ExitOK'
    BY <1>0, <1>17 DEF Threads, TypesOK, QueueRecord, MonRecord, ConRecord, None, Message,
                       AnyMessage, Received, CriticalMessage, CriticalKinds, MonPlaces,
                       ConPlaces, Kind, HandoverOK, ExitOK, discard_snapshots, ConsumerOnly,
                       hubvars
  <2>7. SettledOK'
    BY <1>0, <1>17 DEF Threads, TypesOK, QueueRecord, MonRecord, ConRecord, None, Message,
                       AnyMessage, Received, CriticalMessage, CriticalKinds, MonPlaces,
                       ConPlaces, Kind, HandoverOK, ExitOK, SettledOK, Held,
                       discard_snapshots, ConsumerOnly, hubvars
  <2>8. TerminalOK'
    BY <1>0, <1>17 DEF Threads, TypesOK, QueueRecord, MonRecord, ConRecord, None, Message,
                       AnyMessage, Received, CriticalMessage, CriticalKinds, MonPlaces,
                       ConPlaces, Kind, HandoverOK, TerminalOK, RetiredAfterTerminal,
                       discard_snapshots, ConsumerOnly, hubvars
  <2> QED
    BY <2>1, <2>2, <2>3, <2>4, <2>5, <2>6, <2>7, <2>8 DEF Threads, TypesOK
<1>18. CASE exit
  <2>1. queue' \in QueueRecord
    BY <1>0, <1>18, MessageType, QueueType DEF Threads, TypesOK, HandoverOK, QueueRecord,
                                               MonRecord, ConRecord, exit, ConsumerOnly, hubvars
  <2>2. mon' \in MonRecord
    BY <1>0, <1>18, MessageType DEF Threads, TypesOK, QueueRecord, MonRecord, MonPlaces, exit,
                                    ConsumerOnly, hubvars
  <2>3. con' \in ConRecord
    BY <1>0, <1>18, MessageType DEF Threads, TypesOK, HandoverOK, QueueRecord, ConRecord,
                                    ConPlaces, Kind, exit, ConsumerOnly, hubvars
  <2>4. unsettled' \in Int /\ terminal' \in BOOLEAN /\ retired' \in BOOLEAN
    BY <1>0, <1>18 DEF Threads, TypesOK, exit, ConsumerOnly, hubvars
  <2>5. HandoverOK'
    BY <1>0, <1>18 DEF Threads, TypesOK, QueueRecord, MonRecord, ConRecord, None, Message,
                       AnyMessage, Received, CriticalMessage, CriticalKinds, MonPlaces,
                       ConPlaces, Kind, HandoverOK, exit, ConsumerOnly, hubvars
  <2>6. ExitOK'
    BY <1>0, <1>18 DEF Threads, TypesOK, QueueRecord, MonRecord, ConRecord, None, Message,
                       AnyMessage, Received, CriticalMessage, CriticalKinds, MonPlaces,
                       ConPlaces, Kind, HandoverOK, ExitOK, exit, ConsumerOnly, hubvars
  <2>7. SettledOK'
    BY <1>0, <1>18 DEF Threads, TypesOK, QueueRecord, MonRecord, ConRecord, None, Message,
                       AnyMessage, Received, CriticalMessage, CriticalKinds, MonPlaces,
                       ConPlaces, Kind, HandoverOK, ExitOK, SettledOK, Held, exit,
                       ConsumerOnly, hubvars
  <2>8. TerminalOK'
    BY <1>0, <1>18 DEF Threads, TypesOK, QueueRecord, MonRecord, ConRecord, None, Message,
                       AnyMessage, Received, CriticalMessage, CriticalKinds, MonPlaces,
                       ConPlaces, Kind, HandoverOK, TerminalOK, RetiredAfterTerminal, exit,
                       ConsumerOnly, hubvars
  <2> QED
    BY <2>1, <2>2, <2>3, <2>4, <2>5, <2>6, <2>7, <2>8 DEF Threads, TypesOK
<1> QED
  BY <1>1, <1>2, <1>3, <1>4, <1>5, <1>6, <1>7, <1>8, <1>9, <1>10, <1>11, <1>12, <1>13, <1>14,
     <1>15, <1>16, <1>17, <1>18 DEF Consumer

\* Nothing else touches the session.
LEMMA OthersKeep ==
    ASSUME Inv, other_publish \/ HubEnds \/ HubRuns, delivery_failure => delivery_failure'
    PROVE  Threads'
<1>1. UNCHANGED <<queue, unsettled, mon, con, terminal, retired>>
  BY DEF other_publish, HubEnds, HubRuns, Session
<1>2. Threads
  BY DEF Inv, Threads
<1>3. TypesOK' /\ HandoverOK' /\ ExitOK' /\ SettledOK'
  BY <1>1, <1>2 DEF Threads, TypesOK, HandoverOK, ExitOK, SettledOK, Held
<1>4. TerminalOK'
  BY <1>1, <1>2 DEF Threads, TypesOK, TerminalOK, RetiredAfterTerminal
<1> QED
  BY <1>3, <1>4 DEF Threads

\* The session that starts.
LEMMA InitPresented == Init => Inv
<1> SUFFICES ASSUME Init PROVE Inv
  OBVIOUS
<1>1. /\ hub = [buffered |-> <<1>>, channel |-> FALSE, closed |-> FALSE,
                failure |-> FALSE, in_flight |-> <<>>]
      /\ delivery_failure = FALSE /\ publisher = "none" /\ published = 1 /\ received = 0
  BY DEF Init, HubInit
<1>2. HubOK
  <2>1. <<1>> \in Seq(Int) /\ <<>> \in Seq(Int) /\ <<>> \o <<1>> = <<1>>
    OBVIOUS
  <2>2. Carries(<<1>>, 0, 1)
    <3>1. ~is_snapshot(1)
      BY DEF is_snapshot, Snapshot, PlaybackSnapshot, DiagnosticsSnapshot
    <3>2. {i \in DOMAIN <<1>> : ~is_snapshot(<<1>>[i])} = {1}
      BY <3>1
    <3>3. {<<1>>[i] : i \in {1}} = 0 + 1 .. 1
      OBVIOUS
    <3> QED
      BY <3>2, <3>3 DEF Carries
  <2>3. hub \in HubRecord /\ hub.in_flight = <<>> /\ hub.buffered = <<1>>
    BY <1>1, <2>1 DEF HubRecord
  <2>4. Delivering
    <3>1. hub.in_flight \o hub.buffered = <<1>>
      BY <2>1, <2>3
    <3> QED
      BY <1>1, <2>2, <3>1 DEF Delivering
  <2>5. publisher = "none" /\ published \in Nat /\ received \in Int 
    BY <1>1
  <2>6. delivery_failure \in BOOLEAN
    BY <1>1, Zenon
  <2> QED
    BY <2>3, <2>4, <2>5, <2>6 DEF HubOK
<1>3. TypesOK
  <2>1. /\ queue = [closed |-> FALSE, order |-> 0, critical |-> <<>>, latest |-> 0, receiver |-> TRUE]
        /\ mon = [pc |-> "loop", message |-> None, failed |-> FALSE]
        /\ con = [pc |-> "receive", critical |-> None, snapshot |-> 0, work |-> None]
        /\ unsettled = 0 /\ terminal = FALSE /\ retired = FALSE
    BY DEF Init
  <2>2. <<>> \in CriticalQueue /\ None \in Received /\ None \in AnyMessage
    BY MessageType, QueueType
  <2>3. queue \in QueueRecord
    BY <2>1, <2>2 DEF QueueRecord
  <2>4. mon \in MonRecord
    BY <2>1, <2>2 DEF MonRecord, MonPlaces
  <2>5. con \in ConRecord
    BY <2>1, <2>2 DEF ConRecord, ConPlaces
  <2>6. terminal \in BOOLEAN /\ retired \in BOOLEAN
    BY <2>1, Zenon
  <2>7. unsettled \in Int
    BY <2>1
  <2> QED
    BY <2>3, <2>4, <2>5, <2>6, <2>7 DEF TypesOK
<1>4. HandoverOK /\ ExitOK /\ TerminalOK
  BY DEF Init, HandoverOK, ExitOK, TerminalOK, RetiredAfterTerminal
<1>5. SettledOK
  BY DEF Init, SettledOK, Held
<1> QED
  BY <1>2, <1>3, <1>4, <1>5 DEF Inv

\* Every step keeps the invariant.
LEMMA NextPresented == Inv /\ [Next]_vars => Inv'
<1> SUFFICES ASSUME Inv, [Next]_vars PROVE Inv'
  OBVIOUS
<1>1. CASE Next
  <2>1. HubOK' /\ (delivery_failure => delivery_failure')
    BY <1>1, NextHub DEF Inv
  <2>2. Threads'
    BY <1>1, <2>1, MonitorKeeps, ConsumerKeeps, OthersKeep DEF Next
  <2> QED
    BY <2>1, <2>2 DEF Inv, Threads
<1>2. CASE UNCHANGED vars
  <2>1. UNCHANGED <<hub, publisher, published, received, delivery_failure>>
        /\ UNCHANGED <<queue, unsettled, mon, con, terminal, retired>>
    BY <1>2 DEF vars, hubvars
  <2>2. HubOK'
    <3>1. delivery_failure' \in BOOLEAN
      BY <2>1 DEF Inv, HubOK
    <3> QED
      BY <2>1, <3>1, HubKept DEF Inv
  <2>3. TypesOK' /\ HandoverOK' /\ ExitOK' /\ SettledOK'
    BY <2>1 DEF Inv, TypesOK, HandoverOK, ExitOK, SettledOK, Held
  <2>4. TerminalOK'
    BY <2>1 DEF Inv, TerminalOK, RetiredAfterTerminal
  <2> QED
    BY <2>2, <2>3, <2>4 DEF Inv
<1> QED
  BY <1>1, <1>2

\* The inductive invariant of the presentation and the hub.
THEOREM Presented == Spec => []Inv
<1>1. Init => Inv
  BY InitPresented
<1>2. Inv /\ [Next]_vars => Inv'
  BY NextPresented
<1> QED
  BY <1>1, <1>2, PTL DEF Spec

\* No lifecycle event is lost, doubled or overtaken between its publication
\* and the channel, whatever is coalesced or evicted around it, unless the
\* failure of the delivery is flagged or the hub is closed (NativeEventHub).
THEOREM LifecycleIsOrdered == Spec => []LifecycleInOrder
<1>1. Inv => LifecycleInOrder
  BY DEF Inv, HubOK, Delivering, Carries, LifecycleInOrder
<1> QED
  BY <1>1, Presented, PTL

\* Every snapshot is published or counted as dropped on every way out of the
\* two threads (publish_snapshot, take_snapshot, discard_snapshots), except
\* at most one, whose publication the closing of the queue cancels.
THEOREM SnapshotsAreSettled == Spec => []SnapshotsSettled
<1>1. Inv => SnapshotsSettled
  BY DEF Inv, SettledOK, SnapshotsSettled
<1> QED
  BY <1>1, Presented, PTL

\* The session leaves the active slot only after its terminal event, or when
\* its delivery failed (terminal_presentation_completion).
THEOREM RetirementIsAnnounced == Spec => []RetiredAfterTerminal
<1>1. Inv => RetiredAfterTerminal
  BY DEF Inv, TerminalOK
<1> QED
  BY <1>1, Presented, PTL

----------------------------------------------------------------------------
(***************************************************************************)
(* A session whose completion is lost says so.                             *)
(***************************************************************************)
Flagged == retired \/ delivery_failure

\* Whoever closed the queue is about to raise the flag, or has; the consumer
\* does not get past its cleanup before that.
FlagOK ==
    /\ queue.closed => Flagged \/ mon.pc = "fail" \/ con.pc = "cleanup"
    /\ con.pc \in {"drain", "discard", "exit", "done"} => Flagged \/ mon.pc = "fail"
    /\ con.pc = "close" => retired

\* A step of the supervisor keeps it: its own failure ends with the flag.
LEMMA MonitorFlags ==
    ASSUME Inv, FlagOK, Monitor, delivery_failure => delivery_failure'
    PROVE  FlagOK'
<1>0. /\ queue \in QueueRecord /\ mon \in MonRecord /\ con' = con
      /\ retired => retired'
  BY DEF Inv, TypesOK, Monitor, observe_failure, publish_state, finalize, Critical, try_send,
         close_queue, fail, publish_snapshot, fill_slot, drop_snapshot
<1>1. CASE fail
  BY <1>0, <1>1 DEF fail, FlagOK, Flagged
<1>2. CASE close_queue
  <2>1. mon'.pc = "fail"
    BY <1>0, <1>2 DEF close_queue, MonRecord
  <2> QED
    BY <1>0, <1>2, <2>1 DEF close_queue, FlagOK, Flagged
<1>3. CASE ~fail /\ ~close_queue
  <2>1. queue'.closed = queue.closed
    BY <1>0, <1>3 DEF Monitor, observe_failure, publish_state, finalize, Critical, try_send,
                      publish_snapshot, fill_slot, drop_snapshot, QueueRecord
  <2>2. mon.pc # "fail"
    BY <1>0, <1>3 DEF Monitor, observe_failure, publish_state, finalize, Critical, try_send,
                      publish_snapshot, fill_slot, drop_snapshot
  <2> QED
    BY <1>0, <2>1, <2>2 DEF FlagOK, Flagged
<1> QED
  BY <1>1, <1>2, <1>3

\* A step of the consumer keeps it: it leaves its loop over a closed queue, an
\* orphaned session, a completed finalization or the cleanup of its failure.
LEMMA ConsumerFlags ==
    ASSUME Inv, FlagOK, Consumer, delivery_failure => delivery_failure'
    PROVE  FlagOK'
<1>0. /\ queue \in QueueRecord /\ con \in ConRecord /\ mon' = mon
      /\ retired \in BOOLEAN /\ RetiredAfterTerminal
  BY DEF Inv, TypesOK, TerminalOK, Consumer, ConsumerOnly, receive, take_snapshot, choose, orphaned,
         begin_work, snapshot_work, diagnostics_work, state_work, final_diagnostics, final_state,
         publish_terminal_event, completed, close_presentation, record_failure,
         cleanup_failed_event_delivery, reject_queued_presentation_finalizers,
         discard_snapshots, exit
<1>1. retired => retired'
  BY DEF Consumer, receive, take_snapshot, choose, orphaned,
         begin_work, snapshot_work, diagnostics_work, state_work, final_diagnostics, final_state,
         publish_terminal_event, completed, close_presentation, record_failure,
         cleanup_failed_event_delivery, reject_queued_presentation_finalizers,
         discard_snapshots, exit
<1>2. CASE record_failure
  <2>1. con'.pc = "cleanup"
    BY <1>0, <1>2 DEF record_failure, ConRecord
  <2> QED
    BY <1>2, <2>1 DEF record_failure, FlagOK, Flagged
<1>3. CASE cleanup_failed_event_delivery
  <2>1. delivery_failure' /\ con'.pc = "drain"
    BY <1>0, <1>3 DEF cleanup_failed_event_delivery, ConRecord
  <2> QED
    BY <2>1 DEF FlagOK, Flagged
<1>4. CASE completed \/ orphaned
  <2>1. retired'
    BY <1>4 DEF completed, orphaned, Unreferenced
  <2> QED
    BY <2>1 DEF FlagOK, Flagged
<1>5. CASE close_presentation
  <2>1. retired /\ retired'
    BY <1>5 DEF close_presentation, FlagOK
  <2> QED
    BY <2>1 DEF FlagOK, Flagged
<1>6. CASE choose
  <2>1. con.pc = "choose" /\ UNCHANGED <<queue, retired>>
    BY <1>6 DEF choose
  <2>2. con'.pc \in {"work", "receive"} \/ (con'.pc = "discard" /\ queue.closed)
    BY <1>0, <1>6 DEF choose, QueueRecord, ConRecord
  <2> QED
    BY <1>0, <1>1, <2>1, <2>2 DEF FlagOK, Flagged
<1>7. CASE \/ receive \/ take_snapshot \/ begin_work \/ snapshot_work \/ diagnostics_work
           \/ state_work \/ final_diagnostics \/ final_state \/ publish_terminal_event
  <2>1. /\ con.pc \notin {"drain", "discard", "exit", "done", "close", "cleanup"}
        /\ queue'.closed = queue.closed
    BY <1>0, <1>7 DEF receive, take_snapshot, begin_work, snapshot_work, diagnostics_work,
          state_work, final_diagnostics, final_state, publish_terminal_event, QueueRecord
  <2>2. con'.pc \notin {"drain", "discard", "exit", "done", "close", "cleanup"}
    <3>1. CASE receive \/ take_snapshot
      BY <1>0, <3>1 DEF receive, take_snapshot, ConRecord
    <3>2. CASE begin_work
      <4>1. con.pc = "work" /\ con.work.kind \in {"Snapshot", "State", "Finalize"}
        BY <1>0, <3>2 DEF begin_work, Inv, HandoverOK, ConRecord, AnyMessage, Kind
      <4> QED
        BY <1>0, <3>2, <4>1 DEF begin_work, ConRecord
    <3>3. CASE snapshot_work \/ diagnostics_work \/ state_work
      BY <1>0, <3>3 DEF snapshot_work, diagnostics_work, state_work, ConRecord
    <3>4. CASE final_diagnostics \/ final_state \/ publish_terminal_event
      BY <1>0, <3>4 DEF final_diagnostics, final_state, publish_terminal_event, ConRecord
    <3> QED
      BY <1>7, <3>1, <3>2, <3>3, <3>4
  <2> QED
    BY <1>0, <1>1, <2>1, <2>2 DEF FlagOK, Flagged
<1>8. CASE reject_queued_presentation_finalizers \/ discard_snapshots \/ exit
  <2>1. con.pc \in {"drain", "discard", "exit"} /\ queue'.closed = queue.closed
    BY <1>0, <1>8 DEF reject_queued_presentation_finalizers, discard_snapshots, exit, QueueRecord
  <2>2. con'.pc \in {"drain", "discard", "exit", "done"}
    BY <1>0, <1>8, <2>1 DEF reject_queued_presentation_finalizers, discard_snapshots, exit, ConRecord
  <2> QED
    BY <1>0, <1>1, <2>1, <2>2 DEF FlagOK, Flagged
<1> QED
  BY <1>2, <1>3, <1>4, <1>5, <1>6, <1>7, <1>8 DEF Consumer

\* Neither the hub nor the rest of the application disturbs it.
LEMMA OthersFlag ==
    ASSUME Inv, FlagOK, UNCHANGED <<queue, mon, con, retired>>,
           delivery_failure => delivery_failure'
    PROVE  FlagOK'
<1>1. Flagged => Flagged'
  BY Zenon DEF Flagged
<1>2. (retired => retired') /\ queue' = queue /\ mon' = mon /\ con' = con
  BY Zenon
<1>3. queue'.closed => queue.closed
  BY <1>2, Zenon
<1> QED
  BY <1>1, <1>2, <1>3, Zenon DEF FlagOK

\* Every step keeps it.
LEMMA NextFlags ==
    ASSUME Inv, FlagOK, [Next]_vars
    PROVE  FlagOK'
<1>1. CASE Next
  <2>1. delivery_failure => delivery_failure'
    BY <1>1, NextHub DEF Inv
  <2>2. ASSUME other_publish \/ HubEnds \/ HubRuns PROVE UNCHANGED <<queue, mon, con, retired>>
    BY <2>2 DEF other_publish, HubEnds, HubRuns, Session
  <2> QED
    BY <1>1, <2>1, <2>2, MonitorFlags, ConsumerFlags, OthersFlag DEF Next
<1>2. CASE UNCHANGED vars
  <2>1. UNCHANGED <<queue, mon, con, retired>> /\ delivery_failure' = delivery_failure
    BY <1>2 DEF vars, hubvars
  <2>2. delivery_failure => delivery_failure'
    BY <2>1, Zenon
  <2> QED
    BY <2>1, <2>2, OthersFlag
<1> QED
  BY <1>1, <1>2

\* When both threads have ended the session has retired, or the failure of its
\* delivery is flagged (cleanup_failed_event_delivery, fail,
\* reject_queued_presentation_finalizers): none gets stuck in silence.
THEOREM NoSilentLoss == Spec => []FinalizedOrFlagged
<1>1. Init => Inv /\ FlagOK
  <2>1. Init => FlagOK
    BY DEF Init, FlagOK
  <2> QED
    BY <2>1, InitPresented
<1>2. Inv /\ FlagOK /\ [Next]_vars => Inv' /\ FlagOK'
  BY NextPresented, NextFlags
<1>3. FlagOK => FinalizedOrFlagged
  BY DEF FlagOK, Flagged, FinalizedOrFlagged
<1> QED
  BY <1>1, <1>2, <1>3, PTL DEF Spec
============================================================================
